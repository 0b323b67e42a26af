----------------------------- MODULE ZonePromise -----------------------------
(***************************************************************************)
(* What the estimator promises of every zone, without its sensors, timers, *)
(* evidence and clocks: the abstract specification module Estimator        *)
(* implements and module Home is composed with.                            *)
(***************************************************************************)
EXTENDS Belief

CONSTANT Zones

VARIABLE shown       \* what a zone shows: its health, latch and belief

Shown == [health : {"OK", "UNKNOWN"}, occupied : BOOLEAN, lam : Lams]

(* The hysteresis of rule 4.3 *)
Latch(occupied, lam) == IF occupied THEN lam > LamOff ELSE lam >= LamOn

(* An empty zone, or one whose sensor plainly reports somebody (rule 7.1) *)
PromiseInit ==
  /\ shown \in [Zones -> Shown]
  /\ \A z \in Zones :
       \/ shown[z].lam = LamPrior /\ ~shown[z].occupied
       \/ shown[z].lam = LamOn /\ shown[z].occupied /\ shown[z].health = "OK"

(* A confirmed attack lifts the belief to the attack's level at least, and *)
(* the latch follows (rule 4.2).                                           *)
Attacks(old, new) ==
  /\ new.health = "OK"
  /\ new.lam = Clamp(Larger(old.lam, LamAttack))
  /\ new.occupied = Latch(old.occupied, new.lam)

(* A healthy zone moves its belief and its latch follows, also in the very *)
(* step it goes blind; a report that it is brought up to date for may then *)
(* complete an attack.                                                     *)
Estimates(old, new) ==
  /\ old.health = "OK"
  /\ \E lam \in Lams :
       LET advanced == [old EXCEPT !.lam = lam, !.occupied = Latch(@, lam)]
       IN  \/ new.lam = advanced.lam /\ new.occupied = advanced.occupied
           \/ Attacks(advanced, new)

(* A blind zone keeps what it shows, and goes on from there on recovery,   *)
(* unless the recovering report itself completes an attack.                *)
Holds(old, new) ==
  /\ old.health = "UNKNOWN"
  /\ \/ new.lam = old.lam /\ new.occupied = old.occupied
     \/ Attacks(old, new)

(* The operator asserts that the zone is empty (rule 3.3). *)
Voids(old, new) ==
  /\ new.health = old.health
  /\ new.lam = LamPrior /\ ~new.occupied

ZoneStep(old, new) ==
  Estimates(old, new) \/ Holds(old, new) \/ Voids(old, new)

PromiseNext ==
  /\ shown' \in [Zones -> Shown]
  /\ \A z \in Zones : ZoneStep(shown[z], shown'[z])

Promise == PromiseInit /\ [][PromiseNext]_shown
=============================================================================
