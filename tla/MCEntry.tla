------------------------------- MODULE MCEntry -------------------------------
(* An instance of Entry for TLC: radars of two gates, zones of one or both. *)
EXTENDS Entry

CONSTANTS s1, s2, a, b, room

Form(near, far, fallback) ==
  [room |-> room, near |-> near, far |-> far, fallback |-> fallback]

(* The near half as the fallback, the whole range, and no range at all *)
RangeForms == {Form(0, 1, TRUE), Form(0, 2, FALSE), Form(1, 1, FALSE)}

Tuned(floor, stat, useGates) ==
  [floor |-> floor, stat |-> stat, useGates |-> useGates,
   gapMin |-> 1, gapMax |-> 3]
Defaults == Tuned("f0", "t0", TRUE)
SomeTunings == {Defaults, Tuned("f0", "t1", TRUE), Tuned("f1", "t0", FALSE),
                [Defaults EXCEPT !.gapMax = 1]}

Symmetry == Permutations(ZoneNames)

(* The first radar has gate entities of the move channel only. *)
MoveGates == [s \in SensorIds |-> IF s = s1 THEN {"move"} ELSE {}]

Sample(at, move, gates, fresh) ==
  [at |-> at, agg |-> [c \in Channels |-> IF c = "move" THEN move ELSE 4],
   gates |-> [c \in Channels |-> gates], fresh |-> fresh, observed |-> TRUE]
Gates(x, y) == [g \in 0 .. 1 |-> IF g = 0 THEN x ELSE y]
Window(rows, available) == [rows |-> rows, length |-> 3, available |-> available]

(* A window that calibrates the move channel, gates and all; one in which  *)
(* nothing moves; one without gates; one whose second gate never reports;  *)
(* one with a blind end; one of an unavailable sensor; an empty one.       *)
Moving(x, y) == <<Sample(1, 2, x, {"move"}), Sample(2, 5, y, {"move"})>>
Still == <<Sample(1, 2, Gates(3, 3), {"still"}), Sample(2, 2, Gates(3, 3), {"still"})>>
SomeWindows ==
  {Window(Moving(Gates(1, 1), Gates(4, 4)), TRUE), Window(Still, TRUE),
   Window(Moving(<<>>, <<>>), TRUE),
   Window(Moving([g \in {0} |-> 1], [g \in {0} |-> 4]), TRUE),
   [Window(Moving(Gates(1, 1), Gates(4, 4)), TRUE) EXCEPT !.length = 9],
   Window(Still, FALSE), Window(<<>>, TRUE)}

=============================================================================
