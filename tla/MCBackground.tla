----------------------------- MODULE MCBackground -----------------------------
(* An instance of Background for TLC: one radar, one aggregate zone. *)
EXTENDS Background

CONSTANTS s1, z1

Single == [z \in {z1} |-> s1]
NoDecorrelation == [path \in {"agg", "gate"} |-> 0]

Reads(flag, raw) ==
  [flag |-> flag,
   at |-> [z \in Zones |-> [raw |-> raw, gated |-> raw > 0, gates |-> FALSE]]]
MoveOrNobody == [s \in Sensors |-> {Reads(FALSE, 0), Reads(TRUE, 5)}]
Nobody == [s \in Sensors |-> {Reads(FALSE, 0)}]
=============================================================================
