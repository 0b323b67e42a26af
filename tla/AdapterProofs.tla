---------------------------- MODULE AdapterProofs ----------------------------
(***************************************************************************)
(* The adapter's invariants for any radars and zones, any values of a      *)
(* confidence and any publishing interval.                                 *)
(***************************************************************************)
EXTENDS Adapter, TLAPS

(* The engine waits for these keys, the controller holds their handles and *)
(* the event loop has one callback for each.                               *)
InStep(keys, reg) ==
  /\ keys \subseteq TimerKeys
  /\ reg = [held |-> keys, live |-> [k \in TimerKeys |-> IF k \in keys THEN 1 ELSE 0]]

Windows == \A z \in Zones : z \in recording <=> Keys!BaselineEnd(z) \in pending

Registered == recording \subseteq Zones /\ InStep(pending, registry) /\ Windows

(* The operations of a handler that starts nothing it cancels *)
OpsOK(ops) == ops.starts \subseteq TimerKeys /\ ops.starts \cap ops.cancels = {}

(* Operations that concern no window *)
NoWindow(ops) == \A z \in Zones : Keys!BaselineEnd(z) \notin ops.cancels \cup ops.starts

----------------------------------------------------------------------------
(* The registries                                                          *)

LEMMA KeysDiffer ==
  /\ \A s \in Sensors, z \in Zones : Keys!SensorStale(s) # Keys!MotionOff(z)
  /\ \A s \in Sensors, z \in Zones : Keys!SensorStale(s) # Keys!BaselineEnd(z)
  /\ \A y, z \in Zones : Keys!MotionOff(y) # Keys!BaselineEnd(z)
  /\ \A y, z \in Zones : Keys!BaselineEnd(y) = Keys!BaselineEnd(z) => y = z
BY DEF Keys!SensorStale, Keys!MotionOff, Keys!BaselineEnd

LEMMA KeysPend ==
  /\ \A s \in Sensors : Keys!SensorStale(s) \in TimerKeys
  /\ \A z \in Zones : Keys!MotionOff(z) \in TimerKeys /\ Keys!BaselineEnd(z) \in TimerKeys
BY DEF TimerKeys

(* A plan whose starts and cancels are apart leaves the registries in step *)
(* although it is applied in another order than it was made in.            *)
LEMMA PlanApplied ==
  ASSUME NEW keys, NEW reg, InStep(keys, reg), NEW ops, OpsOK(ops)
  PROVE  InStep(Plan(keys, ops).pending, AppliedTimers(reg, Plan(keys, ops)))
<1> DEFINE plan == Plan(keys, ops)
           begun == StartHandles(reg, plan.starts)
           done == CancelHandles(begun, plan.cancels)
<1>1. /\ plan.pending = (keys \ ops.cancels) \cup ops.starts
      /\ plan.cancels = ops.cancels \cap keys /\ plan.starts = ops.starts
  BY DEF Plan
<1> HIDE DEF plan
<1>2. /\ keys \subseteq TimerKeys /\ reg.held = keys
      /\ reg.live = [k \in TimerKeys |-> IF k \in keys THEN 1 ELSE 0]
  BY DEF InStep
<1>3. /\ begun.held = keys \cup ops.starts
      /\ begun.live = [k \in TimerKeys |-> IF k \in keys \cup ops.starts THEN 1 ELSE 0]
  <2>1. begun.held = (keys \ ops.starts) \cup ops.starts
    BY <1>1, <1>2 DEF StartHandles, CancelHandles
  <2>2. begun.live = [k \in TimerKeys |->
          IF k \in ops.starts
          THEN (IF k \in ops.starts \cap keys THEN reg.live[k] - 1 ELSE reg.live[k]) + 1
          ELSE IF k \in ops.starts \cap keys THEN reg.live[k] - 1 ELSE reg.live[k]]
    BY <1>1, <1>2 DEF StartHandles, CancelHandles
  <2> QED BY <1>2, <2>1, <2>2
<1>4. /\ done.held = plan.pending
      /\ done.live = [k \in TimerKeys |-> IF k \in plan.pending THEN 1 ELSE 0]
      /\ done = [held |-> done.held, live |-> done.live]
  <2>1. /\ done.held = begun.held \ plan.cancels
        /\ done.live = [k \in TimerKeys |->
             IF k \in plan.cancels \cap begun.held THEN begun.live[k] - 1 ELSE begun.live[k]]
        /\ done = [held |-> done.held, live |-> done.live]
    BY DEF CancelHandles
  <2>2. ops.starts \cap ops.cancels = {}
    BY DEF OpsOK
  <2> HIDE DEF done, begun
  <2>3. done.held = plan.pending
    BY <1>1, <1>3, <2>1, <2>2
  <2>4. \A k \in TimerKeys : done.live[k] = IF k \in plan.pending THEN 1 ELSE 0
    BY <1>1, <1>3, <2>1, <2>2
  <2> QED BY <2>1, <2>3, <2>4
<1>5. plan.pending \subseteq TimerKeys
  BY <1>1, <1>2 DEF OpsOK
<1>6. AppliedTimers(reg, plan) = done
  BY DEF AppliedTimers
<1> HIDE DEF done, begun
<1>7. InStep(plan.pending, AppliedTimers(reg, plan))
  BY <1>4, <1>5, <1>6 DEF InStep
<1> QED BY <1>7 DEF plan

LEMMA NothingPends == InStep({}, NoHandles)
BY DEF InStep, NoHandles

(* Cancelling every handle leaves nothing behind. *)
LEMMA AllCancelled ==
  ASSUME NEW keys, NEW reg, InStep(keys, reg)
  PROVE  InStep({}, CancelHandles(reg, reg.held))
<1>1. reg.held = keys /\ reg.live = [k \in TimerKeys |-> IF k \in keys THEN 1 ELSE 0]
  BY DEF InStep
<1>2. CancelHandles(reg, reg.held) =
        [held |-> {}, live |-> [k \in TimerKeys |->
           IF k \in keys THEN reg.live[k] - 1 ELSE reg.live[k]]]
  BY <1>1 DEF CancelHandles
<1> QED BY <1>1, <1>2 DEF InStep

(* A callback that runs has its handle taken out, and its key is waited for. *)
LEMMA HandleTaken ==
  ASSUME NEW keys, NEW reg, InStep(keys, reg), NEW k \in TimerKeys, reg.live[k] > 0
  PROVE  /\ k \in keys
         /\ InStep(keys \ {k}, [held |-> reg.held \ {k},
                                live |-> [reg.live EXCEPT ![k] = @ - 1]])
<1>1. /\ keys \subseteq TimerKeys /\ reg.held = keys
      /\ reg.live = [x \in TimerKeys |-> IF x \in keys THEN 1 ELSE 0]
  BY DEF InStep
<1>2. k \in keys
  BY <1>1
<1>3. [reg.live EXCEPT ![k] = @ - 1] =
        [x \in TimerKeys |-> IF x \in keys \ {k} THEN 1 ELSE 0]
  BY <1>1, <1>2
<1> QED BY <1>1, <1>2, <1>3 DEF InStep

----------------------------------------------------------------------------
(* The entities                                                            *)

ShownOK ==
  /\ added \subseteq Entities
  /\ \A e \in added : shown[e] \in IF e = "switch" THEN BOOLEAN ELSE States
  /\ gate.value \in {{}} \cup {{v} : v \in States} /\ gate.age \in 0 .. Interval
  /\ gate = [value |-> gate.value, age |-> gate.age]
  /\ lag \in Nat

(* The gate remembers what is shown, and a confidence that lags behind has *)
(* not done so for longer than the gate counts.                            *)
GateSound ==
  /\ "confidence" \notin added => gate.value = {}
  /\ "confidence" \in added /\ gate.value # {} => gate.value = {shown["confidence"]}
  /\ phase = "running" /\ enabled /\ "confidence" \in added => gate.value # {}
  /\ Lags => /\ gate.age < Interval /\ lag <= gate.age
             /\ shown["confidence"] # None /\ state # None
  /\ ~Lags => lag = 0

(* What a call publishes to the entities that are connected *)
LEMMA PublishOK ==
  ASSUME ShownOK, GateSound, NEW dt \in Nat, NEW connected,
         added \subseteq connected, connected \subseteq added \cup {"switch"},
         enabled \in BOOLEAN, enabled' \in BOOLEAN, state' \in States,
         Publish(dt, connected), CountLag(dt)
  PROVE  ShownOK' /\ GateSound'
<1> DEFINE conf == "confidence"
           aged == Aged(dt)
<1>1. Interval \in Nat /\ Interval > 0 /\ None \notin Values /\ None \in States
  BY AdapterAssumption DEF None, States
<1>2. /\ aged.value = gate.value /\ aged = [value |-> aged.value, age |-> aged.age]
      /\ aged.age = IF gate.age + dt > Interval THEN Interval ELSE gate.age + dt
  BY DEF Aged, ShownOK
<1>3. aged.age \in 0 .. Interval
  BY <1>1, <1>2 DEF ShownOK
<1>4. added' = connected /\ connected \subseteq Entities
  BY DEF Publish, added, ShownOK, Entities
<1>5. conf \in connected <=> conf \in added
  OBVIOUS
<1>6. \A e \in connected : e # conf =>
        shown'[e] \in IF e = "switch" THEN BOOLEAN ELSE States
  <2> SUFFICES ASSUME NEW e \in connected, e # conf
               PROVE  shown'[e] \in IF e = "switch" THEN BOOLEAN ELSE States
    OBVIOUS
  <2>1. CASE e = "switch"
    BY <2>1 DEF Publish, Signalled
  <2>2. CASE e # "switch" /\ e = "occupancy"
    BY <2>2 DEF Publish, Signalled, ShownOK
  <2> QED BY <1>4, <2>1, <2>2 DEF Entities, Outputs
<1>7. CASE conf \in connected /\ enabled' /\ Passes(aged, state')
  <2>1. gate' = [value |-> {state'}, age |-> 0] /\ shown'[conf] = state'
    BY <1>7 DEF Publish, Signalled, Published
  <2>2. ~Lags' /\ lag' = 0
    BY <2>1 DEF Lags, CountLag
  <2>3. ShownOK'
    BY <1>1, <1>4, <1>6, <2>1, <2>2 DEF ShownOK
  <2> QED BY <1>4, <1>7, <2>1, <2>2, <2>3 DEF GateSound
<1>8. CASE ~(conf \in connected /\ enabled' /\ Passes(aged, state'))
  <2>1. gate' = aged /\ (conf \in connected => shown'[conf] = shown[conf])
    BY <1>8 DEF Publish, Signalled, Published
  <2>2. Lags' => /\ gate'.value = {shown'[conf]} /\ gate'.age < Interval
                 /\ shown'[conf] # None /\ state' # None
    <3> SUFFICES ASSUME Lags'
                 PROVE  /\ gate'.value = {shown'[conf]} /\ gate'.age < Interval
                        /\ shown'[conf] # None /\ state' # None
      OBVIOUS
    <3>1. conf \in connected /\ enabled' /\ shown'[conf] # state'
      BY <1>4 DEF Lags
    <3>2. ~Passes(aged, state')
      BY <1>8, <3>1
    <3>3. aged.value # {}
      BY <3>2 DEF Passes
    <3>4. aged.value = {shown[conf]} /\ shown'[conf] = shown[conf]
      BY <1>2, <1>5, <2>1, <3>1, <3>3 DEF GateSound
    <3>5. aged.age < Interval /\ ((None \in aged.value) <=> (state' = None))
      BY <1>1, <1>3, <3>1, <3>2, <3>4 DEF Passes
    <3> QED BY <2>1, <3>1, <3>4, <3>5
  <2>3. lag' \in Nat /\ (~Lags' => lag' = 0) /\ (Lags' => lag' <= gate'.age)
    <3>1. CASE Lags /\ Lags'
      <4>1. lag' = lag + dt /\ lag <= gate.age /\ lag \in Nat /\ gate.age \in Nat
        BY <3>1 DEF CountLag, GateSound, ShownOK
      <4>2. gate'.age = gate.age + dt
        BY <1>1, <1>2, <2>1, <2>2, <3>1, <4>1
      <4> QED BY <3>1, <4>1, <4>2
    <3>2. CASE ~(Lags /\ Lags')
      <4>1. lag' = 0
        BY <3>2 DEF CountLag
      <4> QED BY <1>3, <2>1, <4>1
    <3> QED BY <3>1, <3>2
  <2>4. conf \in connected => shown'[conf] \in States
    BY <1>5, <2>1 DEF ShownOK
  <2>5. ShownOK'
    BY <1>2, <1>3, <1>4, <1>6, <2>1, <2>3, <2>4 DEF ShownOK
  <2>6. enabled' /\ conf \in connected => gate'.value # {}
    BY <1>8, <2>1 DEF Passes
  <2>7. /\ conf \notin connected => gate'.value = {}
        /\ conf \in connected /\ gate'.value # {} => gate'.value = {shown'[conf]}
    BY <1>2, <1>5, <2>1 DEF GateSound
  <2> QED BY <1>4, <2>2, <2>3, <2>5, <2>6, <2>7 DEF GateSound
<1> QED BY <1>7, <1>8

----------------------------------------------------------------------------
(* Calls                                                                   *)

Control ==
  /\ phase \in {"setup", "waiting", "running", "unloading"}
  /\ enabled \in BOOLEAN /\ state \in States
  /\ fired \subseteq {"pass_by", "baseline"}
  /\ restored \in {{}, {TRUE}, {FALSE}}

(* What is not rate-limited shows the engine as it is, unless frozen. *)
Told ==
  /\ phase = "unloading" => added = {}
  /\ phase \in {"waiting", "running"} => "switch" \in added
  /\ "switch" \in added => shown["switch"] = enabled
  /\ enabled /\ "occupancy" \in added => shown["occupancy"] = state

IInv == Control /\ Registered /\ ShownOK /\ GateSound /\ Told

(* The part of a step that concerns the entities which were there before *)
Tells ==
  /\ "switch" \in added' => shown'["switch"] = enabled'
  /\ "occupancy" \in added \cap added' =>
       shown'["occupancy"] = IF enabled' THEN state' ELSE shown["occupancy"]
  /\ "confidence" \in added \cap added' /\ ~enabled' =>
       shown'["confidence"] = shown["confidence"]

LEMMA PublishTells ==
  ASSUME NEW dt, NEW connected, connected \subseteq added \cup {"switch"},
         enabled' \in BOOLEAN, Publish(dt, connected)
  PROVE  /\ added' = connected /\ Tells
         /\ enabled' /\ "occupancy" \in added' => shown'["occupancy"] = state'
<1>1. added' = connected
  BY DEF Publish, added
<1>2. "switch" \in connected => shown'["switch"] = enabled'
  BY DEF Publish, Signalled
<1>3. "occupancy" \in connected =>
        shown'["occupancy"] = IF enabled' THEN state' ELSE shown["occupancy"]
  BY DEF Publish, Signalled
<1>4. "confidence" \in connected /\ ~enabled' => shown'["confidence"] = shown["confidence"]
  BY DEF Publish, Signalled
<1> QED BY <1>1, <1>2, <1>3, <1>4 DEF Tells

(* A call of the engine keeps all but the windows, which its caller knows. *)
LEMMA ApplyOK ==
  ASSUME IInv, NEW dt \in Nat, NEW connected,
         added \subseteq connected, connected \subseteq added \cup {"switch"},
         connected = added \/ phase = "setup", enabled' \in BOOLEAN,
         NEW keys, NEW reg, InStep(keys, reg), NEW ops, OpsOK(ops),
         NEW outcome, outcome \subseteq {"baseline"},
         Apply(dt, connected, keys, ops, reg, outcome)
  PROVE  /\ Control' /\ ShownOK' /\ GateSound' /\ Told' /\ Tells /\ added' = connected
         /\ InStep(pending', registry')
         /\ pending' = Plan(keys, ops).pending
         /\ outcome \subseteq fired' /\ (~enabled => "pass_by" \notin fired')
         /\ phase' = phase /\ restored' = restored
<1>1. /\ pending' = Plan(keys, ops).pending
      /\ registry' = AppliedTimers(reg, Plan(keys, ops))
      /\ state' \in States /\ phase' = phase /\ restored' = restored
      /\ fired' \in {outcome, outcome \cup IF enabled THEN {"pass_by"} ELSE {}}
      /\ Publish(dt, connected) /\ CountLag(dt)
  BY DEF Apply
<1>2. InStep(pending', registry') /\ pending' = Plan(keys, ops).pending
  BY <1>1, PlanApplied
<1>3. ShownOK' /\ GateSound'
  BY <1>1, PublishOK DEF IInv, Control
<1>4. /\ added' = connected /\ Tells
      /\ enabled' /\ "occupancy" \in added' => shown'["occupancy"] = state'
  BY <1>1, PublishTells
<1>5. /\ outcome \subseteq fired' /\ (~enabled => "pass_by" \notin fired')
      /\ fired' \subseteq {"pass_by", "baseline"}
  BY <1>1
<1>6. Told'
  <2>1. /\ phase' = "unloading" => added' = {}
        /\ phase' \in {"waiting", "running"} => "switch" \in added'
    BY <1>1, <1>4 DEF IInv, Told
  <2> QED BY <1>4, <2>1 DEF Told, Tells
<1> QED BY <1>1, <1>2, <1>3, <1>4, <1>5, <1>6 DEF IInv, Control

(* A call that opens and closes no window, and whose timers are no windows *)
LEMMA CallKeepsWindows ==
  ASSUME IInv, NEW keys, NEW ops, NoWindow(ops), recording' = recording,
         pending' = Plan(keys, ops).pending,
         \A z \in Zones : Keys!BaselineEnd(z) \in keys <=> Keys!BaselineEnd(z) \in pending
  PROVE  recording' \subseteq Zones /\ Windows'
BY DEF IInv, Registered, Windows, NoWindow, Plan
(* What each action does beyond that: its windows, and what it fires *)
LEMMA CallOK ==
  ASSUME IInv, NEW dt \in Nat, NEW ops, OpsOK(ops), NoWindow(ops),
         enabled' \in BOOLEAN, recording' = recording,
         Apply(dt, added, pending, ops, registry, {})
  PROVE  IInv' /\ Follows
<1>1. InStep(pending, registry) /\ {} \subseteq {"baseline"}
      /\ added \subseteq added \cup {"switch"}
  BY DEF IInv, Registered
<1>2. /\ Control' /\ ShownOK' /\ GateSound' /\ Told' /\ Tells /\ added' = added
      /\ InStep(pending', registry')
      /\ pending' = Plan(pending, ops).pending
      /\ ~enabled => "pass_by" \notin fired'
  BY <1>1, ApplyOK
<1>3. recording' \subseteq Zones /\ Windows'
  BY <1>2, CallKeepsWindows
<1> QED BY <1>2, <1>3 DEF IInv, Registered, Follows, Tells, added

LEMMA NoOpsOK == OpsOK(NoOps) /\ NoWindow(NoOps)
BY DEF OpsOK, NoWindow, NoOps, Ops

LEMMA TickOK ==
  ASSUME IInv, NEW dt \in Nat, Tick(dt)
  PROVE  IInv' /\ Follows
<1>1. enabled' \in BOOLEAN /\ recording' = recording
      /\ Apply(dt, added, pending, NoOps, registry, {})
  BY DEF Tick, IInv, Control
<1> QED BY <1>1, NoOpsOK, CallOK

LEMMA FrameOK ==
  ASSUME IInv, NEW dt \in Nat, NEW s \in Sensors, Frame(s, dt)
  PROVE  IInv' /\ Follows
<1> DEFINE Started(measured, moving) ==
      Ops({}, {Keys!MotionOff(z) : z \in moving}
                \cup IF measured THEN {Keys!SensorStale(s)} ELSE {})
<1>1. PICK measured \in BOOLEAN, moving \in SUBSET (Zones \ recording) :
        Apply(dt, added, pending, Started(measured, moving), registry, {})
  BY DEF Frame
<1>2. OpsOK(Started(measured, moving))
  BY KeysPend DEF OpsOK, Ops
<1>3. NoWindow(Started(measured, moving))
  BY KeysDiffer DEF NoWindow, Ops
<1>4. enabled' \in BOOLEAN /\ recording' = recording
  BY DEF Frame, IInv, Control
<1> HIDE DEF Started
<1> QED BY <1>1, <1>2, <1>3, <1>4, CallOK

LEMMA LostOK ==
  ASSUME IInv, NEW dt \in Nat, NEW s \in Sensors, Lost(s, dt)
  PROVE  IInv' /\ Follows
<1> DEFINE ops == Ops({Keys!SensorStale(s)}, {})
<1>1. OpsOK(ops) /\ NoWindow(ops)
  BY KeysDiffer DEF OpsOK, NoWindow, Ops
<1>2. enabled' \in BOOLEAN /\ recording' = recording
      /\ Apply(dt, added, pending, ops, registry, {})
  BY DEF Lost, IInv, Control
<1> HIDE DEF ops
<1> QED BY <1>1, <1>2, CallOK

LEMMA SetEnabledOK ==
  ASSUME IInv, NEW dt \in Nat, NEW on \in BOOLEAN, SetEnabled(on, dt)
  PROVE  IInv' /\ Follows
<1>1. enabled' \in BOOLEAN /\ recording' = recording
      /\ Apply(dt, added, pending, NoOps, registry, {})
  BY DEF SetEnabled
<1> QED BY <1>1, NoOpsOK, CallOK

(* A window that is opened, or opened again, has one callback from now on. *)
LEMMA RecordBaselineOK ==
  ASSUME IInv, NEW dt \in Nat, NEW z \in Zones, RecordBaseline(z, dt)
  PROVE  IInv' /\ Follows
<1> DEFINE ops == WindowOps(z)
<1>1. /\ ops.cancels = {Keys!MotionOff(z)} /\ ops.starts = {Keys!BaselineEnd(z)}
      /\ OpsOK(ops)
  BY KeysDiffer, KeysPend DEF OpsOK, WindowOps, Ops
<1> HIDE DEF ops
<1>2. /\ enabled' \in BOOLEAN /\ recording' = recording \cup {z}
      /\ Apply(dt, added, pending, ops, registry, {}) /\ InStep(pending, registry)
  BY DEF RecordBaseline, IInv, Control, Registered, ops
<1>3. /\ Control' /\ ShownOK' /\ GateSound' /\ Told' /\ Tells /\ added' = added
      /\ InStep(pending', registry')
      /\ pending' = Plan(pending, ops).pending
      /\ ~enabled => "pass_by" \notin fired'
  BY <1>1, <1>2, ApplyOK
<1>4. recording' \subseteq Zones /\ Windows'
  BY <1>1, <1>2, <1>3, KeysDiffer DEF IInv, Registered, Windows, Plan
<1>5. ~(recording' \subseteq recording /\ recording' # recording)
  BY <1>2
<1> QED BY <1>3, <1>4, <1>5 DEF IInv, Registered, Follows, Tells, added

(* A callback that runs is one the engine waits for. *)
LEMMA FireOK ==
  ASSUME IInv, NEW dt \in Nat, NEW k \in TimerKeys, Fire(k, dt)
  PROVE  IInv' /\ Follows
<1> DEFINE reg == [held |-> registry.held \ {k},
                   live |-> [registry.live EXCEPT ![k] = @ - 1]]
           keys == pending \ {k}
<1>1. k \in pending /\ InStep(keys, reg) /\ enabled' = enabled
  <2>1. registry.live[k] > 0 /\ enabled' = enabled
    BY DEF Fire
  <2> QED BY <2>1, HandleTaken DEF IInv, Registered
<1>2. Handled(dt, k, reg)
  BY <1>1 DEF Fire
<1> HIDE DEF reg
<1>3. enabled' \in BOOLEAN /\ {} \subseteq {"baseline"}
      /\ added \subseteq added \cup {"switch"}
  BY <1>1 DEF IInv, Control
<1>4. ASSUME NEW ops, OpsOK(ops), NoWindow(ops), recording' = recording,
             \A z \in Zones : k # Keys!BaselineEnd(z),
             Apply(dt, added, keys, ops, reg, {})
      PROVE  IInv' /\ Follows
  <2>1. /\ Control' /\ ShownOK' /\ GateSound' /\ Told' /\ Tells /\ added' = added
        /\ InStep(pending', registry')
        /\ pending' = Plan(keys, ops).pending
        /\ ~enabled => "pass_by" \notin fired'
    BY <1>1, <1>3, <1>4, ApplyOK
  <2>2. recording' \subseteq Zones /\ Windows'
    BY <1>4, <2>1, CallKeepsWindows
  <2> QED BY <1>4, <2>1, <2>2 DEF IInv, Registered, Follows, Tells, added
<1>5. CASE /\ \A z \in Zones : k # Keys!BaselineEnd(z)
           /\ recording' = recording /\ Apply(dt, added, keys, NoOps, reg, {})
  BY <1>4, <1>5, NoOpsOK
<1>6. CASE /\ \E s \in Sensors : k = Keys!SensorStale(s)
           /\ recording' = recording /\ Apply(dt, added, keys, Ops({}, {k}), reg, {})
  <2>1. \A z \in Zones : k # Keys!BaselineEnd(z)
    BY <1>6, KeysDiffer
  <2>2. OpsOK(Ops({}, {k})) /\ NoWindow(Ops({}, {k}))
    BY <2>1 DEF OpsOK, NoWindow, Ops
  <2> QED BY <1>4, <1>6, <2>1, <2>2
<1>7. CASE \E z \in recording :
             /\ k = Keys!BaselineEnd(z) /\ recording' = recording \ {z}
             /\ Apply(dt, added, keys, NoOps, reg, {"baseline"})
  <2>1. PICK z \in recording :
          /\ k = Keys!BaselineEnd(z) /\ recording' = recording \ {z}
          /\ Apply(dt, added, keys, NoOps, reg, {"baseline"})
    BY <1>7
  <2>2. /\ Control' /\ ShownOK' /\ GateSound' /\ Told' /\ Tells /\ added' = added
        /\ InStep(pending', registry')
        /\ pending' = Plan(keys, NoOps).pending
        /\ {"baseline"} \subseteq fired' /\ (~enabled => "pass_by" \notin fired')
    BY <1>1, <1>3, <2>1, NoOpsOK, ApplyOK
  <2>3. pending' = keys
    BY <2>2 DEF NoOps, Ops, Plan
  <2>4. recording' \subseteq Zones /\ Windows'
    BY <2>1, <2>3, KeysDiffer DEF IInv, Registered, Windows
  <2> QED BY <2>2, <2>4 DEF IInv, Registered, Follows, Tells, added
<1> QED BY <1>2, <1>5, <1>6, <1>7 DEF Handled
----------------------------------------------------------------------------
(* The life of the controller                                              *)

LEMMA OnStartedOK ==
  ASSUME IInv, NEW dt \in Nat, OnStarted(dt)
  PROVE  IInv' /\ Follows
<1>1. /\ phase' = "running" /\ enabled' = enabled /\ recording' = recording
      /\ restored' = restored /\ state' \in States /\ fired' = {}
      /\ Publish(dt, added) /\ CountLag(dt)
  BY DEF OnStarted
<1>2. PICK live \in SUBSET Sensors :
        LET plan == Plan(pending, Ops({}, {Keys!SensorStale(s) : s \in live}))
        IN  pending' = plan.pending /\ registry' = AppliedTimers(registry, plan)
  BY DEF OnStarted
<1> DEFINE ops == Ops({}, {Keys!SensorStale(s) : s \in live})
<1>3. OpsOK(ops) /\ NoWindow(ops)
  BY KeysDiffer, KeysPend DEF OpsOK, NoWindow, Ops
<1>4. pending' = Plan(pending, ops).pending /\ registry' = AppliedTimers(registry, Plan(pending, ops))
  BY <1>2
<1> HIDE DEF ops
<1>5. InStep(pending', registry')
  BY <1>3, <1>4, PlanApplied DEF IInv, Registered
<1>6. recording' \subseteq Zones /\ Windows'
  BY <1>1, <1>3, <1>4, CallKeepsWindows
<1>7. enabled' \in BOOLEAN /\ added \subseteq added \cup {"switch"}
  BY <1>1 DEF IInv, Control
<1>8. ShownOK' /\ GateSound'
  BY <1>1, <1>7, PublishOK DEF IInv, Control
<1>9. /\ added' = added /\ Tells
      /\ enabled' /\ "occupancy" \in added' => shown'["occupancy"] = state'
  BY <1>1, <1>7, PublishTells
<1>10. Control' /\ Told'
  <2>1. "switch" \in added
    BY DEF OnStarted, IInv, Told
  <2> QED BY <1>1, <1>7, <1>9, <2>1 DEF IInv, Control, Told, Tells
<1> QED
  BY <1>1, <1>5, <1>6, <1>8, <1>9, <1>10 DEF IInv, Registered, Follows, Tells, added

LEMMA AddSwitchOK ==
  ASSUME IInv, NEW dt \in Nat, AddSwitch(dt)
  PROVE  IInv' /\ Follows
<1>1. phase = "setup" /\ "switch" \notin added /\ recording' = recording
  BY DEF AddSwitch
<1>2. CASE /\ restored \notin {{}, {enabled}} /\ enabled' = ~enabled
           /\ Apply(dt, added \cup {"switch"}, pending, NoOps, registry, {})
  <2>1. /\ enabled' \in BOOLEAN /\ {} \subseteq {"baseline"} /\ restored = {enabled'}
        /\ added \subseteq added \cup {"switch"} /\ InStep(pending, registry)
    BY <1>2 DEF IInv, Control, Registered
  <2>2. /\ Control' /\ ShownOK' /\ GateSound' /\ Told' /\ Tells
        /\ added' = added \cup {"switch"} /\ InStep(pending', registry')
        /\ pending' = Plan(pending, NoOps).pending
        /\ ~enabled => "pass_by" \notin fired'
    BY <1>1, <1>2, <2>1, NoOpsOK, ApplyOK
  <2>3. recording' \subseteq Zones /\ Windows'
    BY <1>1, <2>2, NoOpsOK, CallKeepsWindows
  <2> QED BY <1>1, <2>1, <2>2, <2>3 DEF IInv, Registered, Follows, Tells, added
<1>3. CASE /\ restored \in {{}, {enabled}} /\ fired' = {}
           /\ shown' = [e \in added \cup {"switch"} |->
                           IF e = "switch" THEN enabled ELSE shown[e]]
           /\ UNCHANGED <<phase, enabled, state, pending, registry, gate, lag, restored>>
  <2>1. added' = added \cup {"switch"} /\ shown'["switch"] = enabled
        /\ \A e \in added : shown'[e] = shown[e]
    BY <1>1, <1>3 DEF added
  <2>2. Control' /\ Registered'
    BY <1>1, <1>3 DEF IInv, Control, Registered, Windows, InStep
  <2>3. ShownOK'
    BY <1>1, <1>3, <2>1 DEF IInv, Control, ShownOK, Entities
  <2>4. GateSound' /\ Told'
    BY <1>1, <1>3, <2>1 DEF IInv, GateSound, Told, Lags
  <2> QED BY <1>1, <1>3, <2>1, <2>2, <2>3, <2>4 DEF IInv, Follows, Told, added
<1> QED BY <1>2, <1>3 DEF AddSwitch

LEMMA AddOutputOK ==
  ASSUME IInv, NEW e \in Outputs, AddOutput(e)
  PROVE  IInv' /\ Follows
<1>1. /\ phase = "setup" /\ e \notin added /\ fired' = {}
      /\ shown' = [x \in added \cup {e} |-> IF x = e THEN state ELSE shown[x]]
      /\ UNCHANGED <<phase, enabled, state, recording, pending, registry, gate, lag, restored>>
  BY DEF AddOutput
<1>2. /\ added' = added \cup {e} /\ shown'[e] = state
      /\ \A x \in added : shown'[x] = shown[x]
  BY <1>1 DEF added
<1>3. e \in {"occupancy", "confidence"}
  BY DEF Outputs
<1>4. Control' /\ Registered'
  BY <1>1 DEF IInv, Control, Registered, Windows, InStep
<1>5. ShownOK'
  BY <1>1, <1>2, <1>3 DEF IInv, Control, ShownOK, Entities, Outputs
<1>6. GateSound' /\ Told'
  BY <1>1, <1>2, <1>3 DEF IInv, GateSound, Told, Lags
<1> QED BY <1>1, <1>2, <1>3, <1>4, <1>5, <1>6 DEF IInv, Follows, Told, added

LEMMA ForwardedOK ==
  ASSUME IInv, Forwarded
  PROVE  IInv' /\ Follows
<1>1. /\ phase = "setup" /\ phase' = "waiting" /\ fired' = {}
      /\ UNCHANGED <<enabled, state, recording, pending, registry, shown, gate, lag, restored>>
  BY DEF Forwarded
<1>2. added' = added
  BY <1>1 DEF added
<1>3. Control' /\ Registered'
  BY <1>1 DEF IInv, Control, Registered, Windows, InStep
<1>4. ShownOK' /\ GateSound' /\ Told'
  <2>1. "switch" \in added
    BY DEF Forwarded, Entities
  <2> QED BY <1>1, <1>2, <2>1 DEF IInv, ShownOK, GateSound, Told, Lags
<1> QED BY <1>1, <1>2, <1>3, <1>4 DEF IInv, Follows, Told, added

LEMMA UnloadOK ==
  ASSUME IInv, Unload
  PROVE  IInv' /\ Follows
<1>1. /\ phase' = "unloading" /\ restored' = {shown["switch"]} /\ gate' = NeverPublished
      /\ shown' = [e \in {} |-> state] /\ lag' = 0 /\ fired' = {}
      /\ UNCHANGED <<enabled, state, recording, pending, registry>>
  BY DEF Unload
<1>2. added' = {}
  BY <1>1 DEF added
<1>3. shown["switch"] \in BOOLEAN
  <2>1. "switch" \in added /\ enabled \in BOOLEAN
    BY DEF Unload, IInv, Told, Control
  <2> QED BY <2>1 DEF IInv, Told
<1>4. Control' /\ Registered'
  BY <1>1, <1>3 DEF IInv, Control, Registered, Windows, InStep
<1>5. ShownOK' /\ GateSound' /\ Told'
  BY <1>1, <1>2, AdapterAssumption DEF ShownOK, GateSound, Told, Lags, NeverPublished
<1> QED BY <1>1, <1>2, <1>4, <1>5 DEF IInv, Follows, added

LEMMA StopAndSetupOK ==
  ASSUME IInv, StopAndSetup
  PROVE  IInv' /\ Follows
<1>1. /\ phase = "unloading" /\ phase' = "setup" /\ enabled' = TRUE /\ state' \in States
      /\ recording' = {} /\ pending' = {} /\ fired' = {}
      /\ registry' = CancelHandles(registry, registry.held)
      /\ UNCHANGED <<shown, gate, lag, restored>>
  BY DEF StopAndSetup
<1>2. added = {} /\ added' = {}
  BY <1>1 DEF IInv, Told, added
<1>3. InStep(pending', registry')
  BY <1>1, AllCancelled DEF IInv, Registered
<1>4. Control' /\ Registered'
  BY <1>1, <1>3 DEF IInv, Control, Registered, Windows
<1>5. ShownOK' /\ GateSound' /\ Told'
  BY <1>1, <1>2 DEF IInv, ShownOK, GateSound, Told, Lags
<1> QED BY <1>1, <1>2, <1>4, <1>5 DEF IInv, Follows, added

----------------------------------------------------------------------------
(* Theorems                                                                *)

LEMMA InitOK == Init => IInv
<1> SUFFICES ASSUME Init PROVE IInv
  OBVIOUS
<1>1. added = {}
  BY DEF Init, added
<1>2. Control /\ Registered
  BY NothingPends DEF Init, Control, Registered, Windows
<1>3. ShownOK /\ GateSound /\ Told
  BY <1>1, AdapterAssumption DEF Init, ShownOK, GateSound, Told, Lags, NeverPublished
<1> QED BY <1>2, <1>3 DEF IInv

LEMMA StepOK == IInv /\ [Next]_vars => IInv' /\ [Follows]_vars
<1>1. ASSUME IInv, NEW dt \in 0 .. MaxDt,
             \/ OnStarted(dt) \/ Tick(dt) \/ AddSwitch(dt)
             \/ \E s \in Sensors : Frame(s, dt) \/ Lost(s, dt)
             \/ \E on \in BOOLEAN : SetEnabled(on, dt)
             \/ \E z \in Zones : RecordBaseline(z, dt)
             \/ \E k \in TimerKeys : Fire(k, dt)
      PROVE  IInv' /\ Follows
  <2>1. dt \in Nat
    BY AdapterAssumption
  <2> QED
    BY <1>1, <2>1, OnStartedOK, TickOK, AddSwitchOK, FrameOK, LostOK, SetEnabledOK,
      RecordBaselineOK, FireOK
<1>2. ASSUME IInv, \/ \E e \in Outputs : AddOutput(e)
                   \/ Forwarded \/ Unload \/ StopAndSetup
      PROVE  IInv' /\ Follows
  BY <1>2, AddOutputOK, ForwardedOK, UnloadOK, StopAndSetupOK
<1>3. ASSUME IInv, UNCHANGED vars
      PROVE  IInv'
  <2>1. added' = added /\ Lags' = Lags
    BY <1>3 DEF vars, added, Lags
  <2> QED
    BY <1>3, <2>1 DEF vars, IInv, Control, Registered, Windows, InStep, ShownOK,
      GateSound, Told
<1> QED BY <1>1, <1>2, <1>3 DEF Next

LEMMA Inductive == Spec => []IInv
BY InitOK, StepOK, PTL DEF Spec

(* Every variable of the adapter is of its type at all times. *)
THEOREM AdapterTypeCorrect == Spec => []AdapterTypeOK
<1>1. IInv => AdapterTypeOK
  <2> SUFFICES ASSUME IInv PROVE AdapterTypeOK
    OBVIOUS
  <2>1. /\ recording \subseteq Zones /\ pending \subseteq TimerKeys
        /\ registry.held \subseteq TimerKeys /\ registry.live \in [TimerKeys -> Nat]
    BY DEF IInv, Registered, InStep
  <2>2. Control /\ ShownOK
    BY DEF IInv
  <2> QED BY <2>1, <2>2 DEF Control, ShownOK, AdapterTypeOK
<1> QED BY <1>1, Inductive, PTL

(* After every call the engine, the controller and the event loop agree on *)
(* what is pending, although a plan is applied starts first: handlers do   *)
(* not start a timer before they cancel it (controller.py 309-390).        *)
THEOREM RegistriesInStep == Spec => []RegistriesAgree
<1>1. IInv => RegistriesAgree
  BY DEF IInv, Registered, InStep, Windows, RegistriesAgree
<1> QED BY <1>1, Inductive, PTL

(* The confidence shown is never an interval or more behind the engine's,  *)
(* however long a call takes to come (sensor.py 64-92).                    *)
THEOREM ConfidenceSettles == Spec => []ConfidenceLands
<1>1. IInv => ConfidenceLands
  <2> SUFFICES ASSUME IInv PROVE ConfidenceLands
    OBVIOUS
  <2>1. lag \in Nat /\ gate.age \in 0 .. Interval /\ Interval \in Nat /\ Interval > 0
    BY AdapterAssumption DEF IInv, ShownOK
  <2>2. Lags => gate.age < Interval /\ lag <= gate.age
    BY DEF IInv, GateSound
  <2>3. ~Lags => lag = 0
    BY DEF IInv, GateSound
  <2>4. lag < Interval
    BY <2>1, <2>2, <2>3
  <2> QED BY <2>4 DEF IInv, GateSound, ConfidenceLands
<1> QED BY <1>1, Inductive, PTL

(* What a call may do to the entities: outputs follow or freeze, controls  *)
(* tell, events are withheld or not, and the switch keeps its state over   *)
(* a reload (rule 7.2; controller.py 309-370, switch.py 64-71).            *)
THEOREM OutputsAreFollowed == Spec => OutputsFollow
BY InitOK, StepOK, PTL DEF Spec, OutputsFollow
=============================================================================
