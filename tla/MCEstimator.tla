----------------------------- MODULE MCEstimator -----------------------------
(* Instances of Estimator for TLC: radars, their zones and their readings. *)
EXTENDS Estimator

CONSTANTS s1, s2, z1, z2, z3

(* Two zones of one radar *)
OneRadar == [z \in {z1, z2} |-> s1]
(* One zone each *)
TwoRadars == [z \in {z1, z2} |-> IF z = z1 THEN s1 ELSE s2]
Single == [z \in {z1} |-> s1]

NoDecorrelation == [path \in {"agg", "gate"} |-> 0]

Nobody == [raw |-> 0, gated |-> FALSE, gates |-> FALSE]
Somebody(raw) == [raw |-> raw, gated |-> TRUE, gates |-> FALSE]
AtGate(raw) == [raw |-> raw, gated |-> FALSE, gates |-> TRUE]

Shows(flag, z, reading) ==
  [flag |-> flag, at |-> [y \in Zones |-> IF y = z THEN reading ELSE Nobody]]

Quiet == [flag |-> FALSE, at |-> [y \in Zones |-> Nobody]]

(* A radar of one aggregate zone: nobody, a faint or a strong return, and  *)
(* a faint one whose flag has already dropped (distance hold, rule 2.7).   *)
AggregateMove == [s \in Sensors |->
  {Quiet} \cup UNION {{Shows(TRUE, z, Somebody(5)),
                       Shows(FALSE, z, Somebody(3))} : z \in ZonesOf(s)}]
AggregateStill == [s \in Sensors |->
  {Quiet} \cup {Shows(TRUE, z, Somebody(5)) : z \in ZonesOf(s)}]

(* Somebody moves through one of two zones of a radar, or nobody does. *)
SharedMove == [s \in Sensors |->
  {Quiet} \cup {Shows(TRUE, z, Somebody(5)) : z \in ZonesOf(s)}]
SharedStill == [s \in Sensors |-> {Quiet}]

(* A still return above its floor whose flag has dropped (rules 2.7, 3.5). *)
HeldStill == [s \in Sensors |->
  {Quiet} \cup {Shows(FALSE, z, Somebody(3)) : z \in ZonesOf(s)}]
=============================================================================
