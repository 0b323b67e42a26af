------------------------------- MODULE MCEngine -------------------------------
(* Instances of Engine for TLC, over the radars of MCEstimator. *)
EXTENDS Engine, MCEstimator, TLC

(* Two zones of one radar, a room each, are interchangeable. *)
ZoneSymmetry == Permutations({z1, z2})

OneRoom == [z \in Zones |-> "room"]
RoomEach == [z \in Zones |-> z]

(* Somebody may walk past the first of two radars; nobody passes the other *)
FirstRadarMove == [s \in Sensors |->
  IF s = s1 THEN {Quiet, Shows(TRUE, z1, Somebody(5))} ELSE {Quiet}]

(* Something that stands still is always seen before the first radar. *)
FirstRadarStill == [s \in Sensors |->
  IF s = s1 THEN {Shows(TRUE, z1, Somebody(5))} ELSE {Quiet}]

(* What the next step of the engine depends on: not what the last one      *)
(* emitted, nor how long ago a frame was measured.                         *)
NextDepends ==
  <<started, clocked, enabled, views, timers, zones, home,
    [s \in Sensors |-> [sensors[s] EXCEPT !.frameAge = 0]]>>
=============================================================================
