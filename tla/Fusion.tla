------------------------------- MODULE Fusion -------------------------------
(***************************************************************************)
(* Room and home fusion (core/fusion.py, rule 6) as operators on the zones *)
(* the engine has just brought up to date.                                 *)
(***************************************************************************)
EXTENDS Belief, FiniteSetsExt

CONSTANTS
  LamHomeOn, LamHomeOff,     \* logit(theta_home_on), logit(theta_home_off)
  TauHome                    \* tau_home, in units of time

ASSUME FusionAssumption ==
  /\ LamHomeOn \in Lams /\ LamHomeOff \in Lams /\ LamHomeOff < LamHomeOn
  /\ TauHome \in Nat \ {0}

Healthy(shown) == {z \in DOMAIN shown : shown[z].health = "OK"}
HealthyOccupied(shown) == {z \in Healthy(shown) : shown[z].occupied}

----------------------------------------------------------------------------
(* One room (fusion._refresh_rooms).  With every member blind its outputs  *)
(* are unknown, not off.                                                   *)
Unknown == [known |-> FALSE]

Severity(activity) ==
  CASE activity = "EMPTY" -> 0 [] activity = "PASSING" -> 1
    [] activity = "ACTIVE" -> 2 [] activity = "SETTLED" -> 3

(* A mutant of Room: beside a healthy member the blind ones count as well. *)
RoomOfAll(shown, members) ==
  IF Healthy(shown) \cap members = {} THEN Unknown
  ELSE [known    |-> TRUE,
        occupied |-> \E z \in members : shown[z].occupied,
        motion   |-> \E z \in members : shown[z].motion,
        lam      |-> Max({shown[z].lam : z \in members}),
        severity |-> Max({Severity(shown[z].activity) : z \in members}),
        settled  |-> \E z \in members : shown[z].activity = "SETTLED"]

Room(shown, members) ==
  LET healthy == Healthy(shown) \cap members
  IN  IF healthy = {} THEN Unknown
      ELSE [known    |-> TRUE,
            occupied |-> \E z \in healthy : shown[z].occupied,
            motion   |-> \E z \in healthy : shown[z].motion,
            lam      |-> Max({shown[z].lam : z \in healthy}),
            severity |-> Max({Severity(shown[z].activity) : z \in healthy}),
            settled  |-> \E z \in healthy : shown[z].activity = "SETTLED"]

----------------------------------------------------------------------------
(* The home (fusion._refresh_home): a slow belief and its own latch        *)
NobodyHome == [lam |-> LamPrior, on |-> FALSE]

(* A mutant of Faded: it relaxes to the home's threshold. *)
FadedToThreshold(lam, dt) == DecayToward(lam, LamHomeOn, dt, TauHome)

Faded(lam, dt) == DecayToward(lam, LamPrior, dt, TauHome)

HomeLatch(on, lam) == IF on THEN lam > LamHomeOff ELSE lam >= LamHomeOn

(* A mutant of RefreshHome: a blind home fades as well. *)
RefreshHomeBlind(home, shown, dt) ==
  LET occupied == {shown[z].lam : z \in HealthyOccupied(shown)}
      lam == Clamp(IF occupied # {} THEN Larger(home.lam, Max(occupied))
                   ELSE Faded(home.lam, dt))
  IN  [lam |-> lam, on |-> HomeLatch(home.on, lam)]

(* A mutant of RefreshHome: zones raise it only while it is off. *)
RefreshHomeOnce(home, shown, dt) ==
  LET occupied == {shown[z].lam : z \in HealthyOccupied(shown)}
      lam == Clamp(IF occupied # {} /\ ~home.on
                   THEN Larger(home.lam, Max(occupied)) ELSE Faded(home.lam, dt))
  IN  IF Healthy(shown) = {} THEN home
      ELSE [lam |-> lam, on |-> HomeLatch(home.on, lam)]

RefreshHome(home, shown, dt) ==
  LET occupied == {shown[z].lam : z \in HealthyOccupied(shown)}
      lam == Clamp(IF occupied # {} THEN Larger(home.lam, Max(occupied))
                   ELSE Faded(home.lam, dt))
  IN  IF Healthy(shown) = {} THEN home
      ELSE [lam |-> lam, on |-> HomeLatch(home.on, lam)]

(* What anyone_home publishes *)
AnyoneHome(home, shown) == IF Healthy(shown) = {} THEN Unknown
                           ELSE [known |-> TRUE, on |-> home.on]
=============================================================================
