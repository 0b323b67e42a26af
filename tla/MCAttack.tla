------------------------------- MODULE MCAttack -------------------------------
(* An instance of AttackLog for TLC: one radar, its zones read by distance *)
(* or by their own gates.                                                  *)
EXTENDS AttackLog

CONSTANTS s1, z1, z2

OneRadar == [z \in Zones |-> s1]

(* The gate statistic is measured to be correlated over two units. *)
SlowGates == [path \in {"agg", "gate"} |-> IF path = "gate" THEN 2 ELSE 0]

Nobody == [raw |-> 0, gated |-> FALSE, gates |-> FALSE]
Quiet == [flag |-> FALSE, at |-> [z \in Zones |-> Nobody]]

(* A strong return from the zones inside, seen by distance or by gates *)
ByDistance(inside) ==
  [flag |-> TRUE, at |-> [z \in Zones |->
     IF z \in inside THEN [raw |-> 5, gated |-> TRUE, gates |-> FALSE]
     ELSE Nobody]]
ByGates(inside) ==
  [flag |-> TRUE, at |-> [z \in Zones |->
     [raw |-> IF z \in inside THEN 5 ELSE 0, gated |-> FALSE, gates |-> TRUE]]]

AttackViews == [s \in Sensors |->
  {Quiet, ByDistance({z1}), ByGates({z1})}]
QuietViews == [s \in Sensors |-> {Quiet}]
=============================================================================
