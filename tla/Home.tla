-------------------------------- MODULE Home --------------------------------
(***************************************************************************)
(* Home presence (rule 6.5) over zones that keep their promise: every call *)
(* of the engine ends in fusion.refresh, whatever it did to the zones.     *)
(* This is the abstract specification module Engine implements.            *)
(***************************************************************************)
EXTENDS ZonePromise, Fusion

CONSTANT MaxDt       \* bound: the time between two calls

VARIABLES
  home,        \* lam_home and the latch _home_on
  clocked      \* a first call has run

homeVars == <<shown, home, clocked>>

HomeInit == PromiseInit /\ home = NobodyHome /\ clocked = FALSE

HomeStep(dt) ==
  /\ PromiseNext
  /\ home' = RefreshHome(home, shown', dt)
  /\ clocked' = TRUE

HomeNext == \E dt \in 0 .. MaxDt : HomeStep(dt)

HomeSpec == HomeInit /\ [][HomeNext]_homeVars
=============================================================================
