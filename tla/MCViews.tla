------------------------------- MODULE MCViews -------------------------------
(* An instance of Views for TLC: a radar over two zones, one of which has  *)
(* gates, with a move channel of every kind of entity and a plainer still  *)
(* channel.                                                                *)
EXTENDS Views

TwoZones == <<"near", "far">>
Starts == [z \in {"near", "far"} |-> IF z = "near" THEN 0 ELSE 4]
Ends == [z \in {"near", "far"} |-> IF z = "near" THEN 1 ELSE 7]
FarIsDefault == {"far"}
NearHasGates == {"near"}

Readings ==
  [role \in {Energy("move"), Energy("still"), Distance("move"),
             Distance("still"), Flag("move"), Target, Gate("move", 0)} |->
     CASE role = Energy("move") -> {Missing, Garbled, 2}
       [] role = Energy("still") -> {2}
       [] role = Distance("move") -> {Missing, 2, 3}
       [] role = Flag("move") -> {Missing, 0, 1}
       [] role = Gate("move", 0) -> {Missing, 3}
       [] role = Distance("still") -> {2}
       [] role = Target -> {0}]
=============================================================================
