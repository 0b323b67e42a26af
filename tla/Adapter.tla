------------------------------- MODULE Adapter -------------------------------
(***************************************************************************)
(* What the controller does with a plan and what the entities show         *)
(* (controller.py 309-390, entity.py, sensor.py, binary_sensor.py and      *)
(* switch.py): timers are started and cancelled, outcomes are fired, and   *)
(* the entities are told to publish the engine's state, or not while the   *)
(* engine is disabled.                                                     *)
(*                                                                         *)
(* The engine is left open: a call does the timer operations its handler   *)
(* does, in their order, and leaves any state behind (module Estimator     *)
(* says which).  The outputs are one plain entity and one confidence       *)
(* sensor, which show the same piece of engine state.                      *)
(***************************************************************************)
EXTENDS Integers

CONSTANTS
  Sensors, Zones,
  Values,           \* buckets a confidence may be in
  Interval,         \* CONFIDENCE_PUBLISH_INTERVAL
  MaxDt             \* tick_interval: the running tick clock makes a call

ASSUME AdapterAssumption ==
  Interval \in Nat \ {0} /\ MaxDt \in Nat /\ Values \subseteq Nat

Keys == INSTANCE Timers WITH MaxLate <- 0
TimerKeys == {Keys!SensorStale(s) : s \in Sensors}
               \cup {Keys!MotionOff(z) : z \in Zones}
               \cup {Keys!BaselineEnd(z) : z \in Zones}

(* What an entity shows, None when it is not available *)
None == -1
States == Values \cup {None}
Outputs == {"occupancy", "confidence"}
Entities == Outputs \cup {"switch"}

VARIABLES
  phase,       \* of the controller: setup, waiting, running or unloading
  enabled,     \* EngineState.enabled
  state,       \* the engine state the outputs project
  recording,   \* the zones with an open window
  pending,     \* ConductorEngine._pending_timers
  registry,    \* held: keys of controller._timers, live: callbacks scheduled
  shown,       \* per entity that is added, the state it wrote last
  gate,        \* ConfidencePublishGate: what was published and how long ago
  lag,         \* how long the confidence shown has not been the engine's
  fired,       \* the outcomes the last call put on the bus
  restored     \* the switch's state that RestoreEntity kept

vars == <<phase, enabled, state, recording, pending, registry, shown, gate, lag,
          fired, restored>>

added == DOMAIN shown

----------------------------------------------------------------------------
(* Plans (core/plan.py)                                                    *)

(* What a handler cancels and starts; no handler starts before it cancels. *)
Ops(cancels, starts) == [cancels |-> cancels, starts |-> starts]
NoOps == Ops({}, {})

(* The pending keys after the operations, and the cancels and starts the   *)
(* plan has taken down; a key that is not pending is not cancelled.        *)
Plan(keys, ops) ==
  [pending |-> (keys \ ops.cancels) \cup ops.starts,
   cancels |-> ops.cancels \cap keys, starts |-> ops.starts]

NoHandles == [held |-> {}, live |-> [k \in TimerKeys |-> 0]]

(* A mutant of CancelHandles: a handle is cancelled and not taken out. *)
CancelHandlesKept(reg, keys) ==
  [reg EXCEPT !.live = [k \in TimerKeys |->
     IF k \in keys \cap reg.held THEN @[k] - 1 ELSE @[k]]]

(* controller._cancel_timer, for each of these keys *)
CancelHandles(reg, keys) ==
  [held |-> reg.held \ keys,
   live |-> [k \in TimerKeys |-> IF k \in keys \cap reg.held THEN reg.live[k] - 1
                                                           ELSE reg.live[k]]]

(* controller._start_timer: what is pending is cancelled first *)
StartHandles(reg, keys) ==
  LET cancelled == CancelHandles(reg, keys)
  IN  [held |-> cancelled.held \cup keys,
       live |-> [k \in TimerKeys |-> IF k \in keys THEN cancelled.live[k] + 1
                                                   ELSE cancelled.live[k]]]

(* All the starts of a plan come before all of its cancels (311-314). *)
AppliedTimers(reg, plan) ==
  CancelHandles(StartHandles(reg, plan.starts), plan.cancels)

----------------------------------------------------------------------------
(* Entities                                                                *)

NeverPublished == [value |-> {}, age |-> 0]
Aged(dt) ==
  [gate EXCEPT !.age = IF @ + dt > Interval THEN Interval ELSE @ + dt]

(* ConfidencePublishGate: a change of availability passes at once, of the  *)
(* value alone not before the interval is over.                            *)
Passes(g, value) ==
  \/ g.value = {}
  \/ /\ g.value # {value}
     /\ \/ g.age >= Interval
        \/ (None \in g.value) # (value = None)

(* A mutant of Published: a signal that is held back restarts the interval. *)
PublishedRestarted(g, value) ==
  IF Passes(g, value) THEN [value |-> {value}, age |-> 0] ELSE [g EXCEPT !.age = 0]

Published(g, value) ==
  IF Passes(g, value) THEN [value |-> {value}, age |-> 0] ELSE g

(* A mutant of Signalled: the control signal is withheld with the other. *)
SignalledAlike(e, on) == on

(* controller._publish: whether an entity hears of a plan *)
Signalled(e, on) == e = "switch" \/ on

(* controller._publish and the _on_controller_update of the entities that  *)
(* are connected, once the call has left enabled' and state' behind        *)
Publish(dt, connected) ==
  LET Hears(e) == e \in connected /\ Signalled(e, enabled')
  IN  /\ gate' = IF Hears("confidence") THEN Published(Aged(dt), state') ELSE Aged(dt)
      /\ shown' = [e \in connected |->
           CASE e = "switch" /\ Hears(e) -> enabled'
             [] e = "occupancy" /\ Hears(e) -> state'
             [] e = "confidence" /\ Hears(e) /\ Passes(Aged(dt), state') -> state'
             [] OTHER -> shown[e]]

(* A history variable: time is counted from one call to the next. *)
Lags == "confidence" \in added /\ phase = "running" /\ enabled
           /\ shown["confidence"] # state
CountLag(dt) == lag' = IF Lags /\ Lags' THEN lag + dt ELSE 0

(* A call of the engine with these timer operations, applied as a plan. An *)
(* event of the domain is dropped if the engine was disabled before the    *)
(* call, the outcome of a window never (Plan.emit, emit_control).          *)
Apply(dt, connected, keys, ops, reg, outcome) ==
  LET plan == Plan(keys, ops)
  IN  /\ pending' = plan.pending
      /\ registry' = AppliedTimers(reg, plan)
      /\ state' \in States
      /\ fired' \in {outcome, outcome \cup IF enabled THEN {"pass_by"} ELSE {}}
      /\ UNCHANGED <<phase, restored>>
      /\ Publish(dt, connected) /\ CountLag(dt)

----------------------------------------------------------------------------
(* Calls (engine.start and submit, controller._fire)                       *)

(* The radars are heard and the tick clock runs. *)
Inputs == phase \in {"running", "unloading"}

(* _on_started: subscriptions, the tick clock and engine.start *)
OnStarted(dt) ==
  /\ phase = "waiting" /\ phase' = "running"
  /\ UNCHANGED <<enabled, recording, restored>>
  /\ \E live \in SUBSET Sensors :
       LET plan == Plan(pending, Ops({}, {Keys!SensorStale(s) : s \in live}))
       IN  pending' = plan.pending /\ registry' = AppliedTimers(registry, plan)
  /\ state' \in States /\ fired' = {}
  /\ Publish(dt, added) /\ CountLag(dt)

Tick(dt) ==
  /\ Inputs /\ UNCHANGED <<enabled, recording>>
  /\ Apply(dt, added, pending, NoOps, registry, {})

(* A frame re-arms the watchdog if it is a measurement, then holds motion. *)
Frame(s, dt) ==
  /\ Inputs /\ UNCHANGED <<enabled, recording>>
  /\ \E measured \in BOOLEAN, moving \in SUBSET (Zones \ recording) :
       Apply(dt, added, pending,
             Ops({}, {Keys!MotionOff(z) : z \in moving}
                       \cup IF measured THEN {Keys!SensorStale(s)} ELSE {}),
             registry, {})

Lost(s, dt) ==
  /\ Inputs /\ UNCHANGED <<enabled, recording>>
  /\ Apply(dt, added, pending, Ops({Keys!SensorStale(s)}, {}), registry, {})

SetEnabled(on, dt) ==
  /\ "switch" \in added /\ enabled' = on /\ UNCHANGED recording
  /\ Apply(dt, added, pending, NoOps, registry, {})

(* A mutant of WindowOps: an open window is cancelled before the new one. *)
WindowOpsAnew(z) ==
  Ops({Keys!MotionOff(z), Keys!BaselineEnd(z)}, {Keys!BaselineEnd(z)})

(* on_record_baseline: the hold is void, the window's end is (re)started *)
WindowOps(z) == Ops({Keys!MotionOff(z)}, {Keys!BaselineEnd(z)})

RecordBaseline(z, dt) ==
  /\ recording' = recording \cup {z} /\ UNCHANGED enabled
  /\ Apply(dt, added, pending, WindowOps(z), registry, {})

(* What on_timer does with a key: a watchdog may re-arm itself, the end of *)
(* a window reports.                                                       *)
Handled(dt, k, reg) ==
  LET Called(ops, outcome) == Apply(dt, added, pending \ {k}, ops, reg, outcome)
  IN  \/ /\ \A z \in Zones : k # Keys!BaselineEnd(z)
         /\ UNCHANGED recording /\ Called(NoOps, {})
      \/ /\ \E s \in Sensors : k = Keys!SensorStale(s)
         /\ UNCHANGED recording /\ Called(Ops({}, {k}), {})
      \/ \E z \in recording :
           /\ k = Keys!BaselineEnd(z)
           /\ recording' = recording \ {z} /\ Called(NoOps, {"baseline"})

(* controller._fire: the handle is taken out, and the engine called back,  *)
(* which ignores a key it does not wait for.                               *)
Fire(k, dt) ==
  LET reg == [held |-> registry.held \ {k},
              live |-> [registry.live EXCEPT ![k] = @ - 1]]
  IN  /\ registry.live[k] > 0 /\ UNCHANGED enabled
      /\ IF k \in pending THEN Handled(dt, k, reg)
         ELSE /\ UNCHANGED <<phase, restored, state, recording, pending>>
              /\ registry' = reg /\ fired' = {}
              /\ Publish(dt, added) /\ CountLag(dt)

----------------------------------------------------------------------------
(* The life of the controller                                              *)

(* An output is added during the forwarding and writes what it finds, the  *)
(* engine enabled or not (entity.py 81-83).                                *)
AddOutput(e) ==
  /\ phase = "setup" /\ e \notin added
  /\ shown' = [x \in added \cup {e} |-> IF x = e THEN state ELSE shown[x]]
  /\ fired' = {}
  /\ UNCHANGED <<phase, enabled, state, recording, pending, registry, gate, lag, restored>>

(* The switch pushes a restored state that differs back to the engine,     *)
(* which is enabled when it is built (switch.py 64-71).                    *)
AddSwitch(dt) ==
  /\ phase = "setup" /\ "switch" \notin added /\ UNCHANGED recording
  /\ IF restored \notin {{}, {enabled}}
     THEN /\ enabled' = ~enabled
          /\ Apply(dt, added \cup {"switch"}, pending, NoOps, registry, {})
     ELSE /\ shown' = [e \in added \cup {"switch"} |->
                         IF e = "switch" THEN enabled ELSE shown[e]]
          /\ fired' = {}
          /\ UNCHANGED <<phase, enabled, state, pending, registry, gate, lag, restored>>

(* Everything is added; the controller waits for Home Assistant. *)
Forwarded ==
  /\ phase = "setup" /\ added = Entities /\ phase' = "waiting"
  /\ fired' = {}
  /\ UNCHANGED <<enabled, state, recording, pending, registry, shown, gate, lag, restored>>

(* The platforms are unloaded: the entities go, the controller runs on. *)
Unload ==
  /\ phase \in {"waiting", "running"} /\ phase' = "unloading"
  /\ restored' = {shown["switch"]}
  /\ shown' = [e \in {} |-> state] /\ gate' = NeverPublished /\ lag' = 0 /\ fired' = {}
  /\ UNCHANGED <<enabled, state, recording, pending, registry>>

(* async_stop, and the controller of the next setup: a reload *)
StopAndSetup ==
  /\ phase = "unloading" /\ phase' = "setup"
  /\ enabled' = TRUE /\ state' \in States /\ recording' = {} /\ pending' = {}
  /\ registry' = CancelHandles(registry, registry.held)
  /\ fired' = {}
  /\ UNCHANGED <<shown, gate, lag, restored>>

Init ==
  /\ phase = "setup" /\ enabled = TRUE /\ state \in States /\ recording = {}
  /\ pending = {} /\ registry = NoHandles
  /\ shown = [e \in {} |-> state] /\ gate = NeverPublished
  /\ lag = 0 /\ fired = {} /\ restored = {}

Next ==
  \/ \E dt \in 0 .. MaxDt :
       \/ OnStarted(dt) \/ Tick(dt) \/ AddSwitch(dt)
       \/ \E s \in Sensors : Frame(s, dt) \/ Lost(s, dt)
       \/ \E on \in BOOLEAN : SetEnabled(on, dt)
       \/ \E z \in Zones : RecordBaseline(z, dt)
       \/ \E k \in TimerKeys : Fire(k, dt)
  \/ \E e \in Outputs : AddOutput(e)
  \/ Forwarded \/ Unload \/ StopAndSetup

Spec == Init /\ [][Next]_vars

----------------------------------------------------------------------------
(* Properties                                                              *)

AdapterTypeOK ==
  /\ phase \in {"setup", "waiting", "running", "unloading"}
  /\ enabled \in BOOLEAN /\ state \in States /\ recording \subseteq Zones
  /\ pending \subseteq TimerKeys /\ registry.held \subseteq TimerKeys
  /\ registry.live \in [TimerKeys -> Nat]
  /\ added \subseteq Entities
  /\ \A e \in added : shown[e] \in IF e = "switch" THEN BOOLEAN ELSE States
  /\ gate.value \in {{}} \cup {{v} : v \in States} /\ gate.age \in 0 .. Interval
  /\ lag \in Nat /\ fired \subseteq {"pass_by", "baseline"}
  /\ restored \in {{}, {TRUE}, {FALSE}}

(* The engine's registry, the controller's and the event loop agree after  *)
(* every plan, over restarts of a timer, late callbacks and reloads: a key *)
(* the engine waits for has exactly one callback and no other key has any, *)
(* so a window that is open will end and report (controller.py 309-314).   *)
RegistriesAgree ==
  /\ pending = registry.held
  /\ \A k \in TimerKeys : registry.live[k] = IF k \in pending THEN 1 ELSE 0
  /\ \A z \in Zones : z \in recording <=> Keys!BaselineEnd(z) \in pending

(* While the engine is enabled an output follows it at every call; while   *)
(* it is disabled the outputs freeze and no pass-by is fired, but windows  *)
(* report; the switch always tells, and a reload does not enable what the  *)
(* operator had disabled (rule 7.2, controller.py 364-370).                *)
Follows ==
  /\ "switch" \in DOMAIN shown' => shown'["switch"] = enabled'
  /\ "occupancy" \in added \cap DOMAIN shown' =>
       shown'["occupancy"] = IF enabled' THEN state' ELSE shown["occupancy"]
  /\ "confidence" \in added \cap DOMAIN shown' /\ ~enabled' =>
       shown'["confidence"] = shown["confidence"]
  /\ ~enabled => "pass_by" \notin fired'
  /\ phase # "unloading" /\ recording' \subseteq recording /\ recording' # recording =>
       "baseline" \in fired'
  /\ "switch" \in DOMAIN shown' \ added => restored \subseteq {enabled'}

OutputsFollow == [][Follows]_vars

(* What the gate holds back lands at most one interval late ("the settled  *)
(* value lands at most one interval late", sensor.py 49), however the      *)
(* confidence moves, whatever was frozen in between; that the sensor went  *)
(* blind, or sees again, shows at once (rule 6.3).                         *)
ConfidenceLands ==
  /\ lag < Interval
  /\ Lags => shown["confidence"] # None /\ state # None
=============================================================================
