------------------------------- MODULE Timers -------------------------------
(***************************************************************************)
(* The engine's timer registry: core/timers.py and the timer half of       *)
(* core/plan.py.  A registry is a function from the pending keys to the    *)
(* time left before the adapter calls the engine back; a time left below   *)
(* zero is a callback the event loop is late with.                         *)
(***************************************************************************)
EXTENDS Integers

CONSTANT MaxLate       \* bound: how late the event loop may run a callback

ASSUME TimersAssumption == MaxLate \in Nat

SensorStale(s) == <<"sensor_stale", s>>
MotionOff(z) == <<"motion_off", z>>
BaselineEnd(z) == <<"baseline_end", z>>

NoTimers == [k \in {} |-> 0]

(* Plan.start_timer: starting a pending key restarts it *)
StartTimer(pending, key, delay) ==
  [k \in DOMAIN pending \cup {key} |-> IF k = key THEN delay ELSE pending[k]]

(* A mutant of CancelTimer: the key stays pending. *)
CancelTimerLost(pending, key) == pending

(* Plan.cancel_timer: a key that is not pending is left alone *)
CancelTimer(pending, key) == [k \in DOMAIN pending \ {key} |-> pending[k]]

(* Starting every key of a set with one delay, as a loop over zones does *)
StartTimers(pending, keys, delay) ==
  [k \in DOMAIN pending \cup keys |-> IF k \in keys THEN delay ELSE pending[k]]

PassTime(pending, dt) == [k \in DOMAIN pending |-> pending[k] - dt]

(* The event loop runs a due callback at most MaxLate late. *)
MayPass(pending, dt) == \A k \in DOMAIN pending : dt <= pending[k] + MaxLate

(* A callback never runs early. *)
MayFire(pending, key, dt) ==
  key \in DOMAIN pending /\ dt >= pending[key] /\ MayPass(pending, dt)
=============================================================================
