--------------------------- MODULE EstimatorProofs ---------------------------
(***************************************************************************)
(* The estimator's invariants for any radars, zones, readings, thresholds  *)
(* and timings.  IInv is inductive: what ZoneFilterProofs shows of one     *)
(* zone, and the agreement of the zones with the pending timers.           *)
(***************************************************************************)
EXTENDS Estimator, ZoneFilterProofs

Pending(key) == key \in DOMAIN timers

(* A healthy zone is under watch; before the start it is merely available. *)
Watched(z) ==
  LET s == SensorOf[z]
      ok == zones[z].health = "OK"
  IN  /\ ok => sensors[s].available
      /\ started => (ok <=> Pending(SensorStale(s)))
      /\ ~started => (ok <=> sensors[s].available) /\ ~Pending(SensorStale(s))

Holding(z) ==
  /\ Pending(MotionOff(z)) => zones[z].motion
  /\ zones[z].health = "OK" /\ zones[z].motion => Pending(MotionOff(z))

Recording(z) == zones[z].recording <=> Pending(BaselineEnd(z))

Agrees(z) == Watched(z) /\ Holding(z) /\ Recording(z)

IInv ==
  /\ TypeOK
  /\ \A z \in Zones : ZoneSound(zones[z])
  /\ started => \A z \in Zones : Stamped(zones[z])
  /\ \A z \in Zones : Agrees(z)

----------------------------------------------------------------------------
(* The registry                                                            *)

TimersOK(pending) ==
  DOMAIN pending \subseteq TimerKeys /\ pending \in [DOMAIN pending -> Int]

LEMMA KeysDiffer ==
  /\ \A s \in Sensors, z \in Zones : SensorStale(s) # MotionOff(z)
  /\ \A s \in Sensors, z \in Zones : SensorStale(s) # BaselineEnd(z)
  /\ \A y, z \in Zones : MotionOff(y) # BaselineEnd(z)
  /\ \A y, z \in Zones : MotionOff(y) = MotionOff(z) => y = z
  /\ \A y, z \in Zones : BaselineEnd(y) = BaselineEnd(z) => y = z
  /\ \A s, t \in Sensors : SensorStale(s) = SensorStale(t) => s = t
BY DEF SensorStale, MotionOff, BaselineEnd

LEMMA KeysPend ==
  /\ \A s \in Sensors : SensorStale(s) \in TimerKeys
  /\ \A z \in Zones : MotionOff(z) \in TimerKeys /\ BaselineEnd(z) \in TimerKeys
BY DEF TimerKeys

(* Each operation of the registry keeps its type and changes its keys as   *)
(* its name says.                                                          *)
LEMMA PassTimeOK ==
  ASSUME NEW pending, TimersOK(pending), NEW dt \in Nat
  PROVE  /\ TimersOK(PassTime(pending, dt))
         /\ DOMAIN PassTime(pending, dt) = DOMAIN pending
BY DEF TimersOK, PassTime

LEMMA StartTimerOK ==
  ASSUME NEW pending, TimersOK(pending), NEW key \in TimerKeys, NEW delay \in Int
  PROVE  /\ TimersOK(StartTimer(pending, key, delay))
         /\ DOMAIN StartTimer(pending, key, delay) = DOMAIN pending \cup {key}
BY DEF TimersOK, StartTimer

LEMMA StartTimersOK ==
  ASSUME NEW pending, TimersOK(pending), NEW keys, keys \subseteq TimerKeys,
         NEW delay \in Int
  PROVE  /\ TimersOK(StartTimers(pending, keys, delay))
         /\ DOMAIN StartTimers(pending, keys, delay) = DOMAIN pending \cup keys
BY DEF TimersOK, StartTimers

LEMMA CancelTimerOK ==
  ASSUME NEW pending, TimersOK(pending), NEW key
  PROVE  /\ TimersOK(CancelTimer(pending, key))
         /\ DOMAIN CancelTimer(pending, key) = DOMAIN pending \ {key}
BY DEF TimersOK, CancelTimer

----------------------------------------------------------------------------
(* The advance every call begins with                                      *)

SensorStates == [available : BOOLEAN, frameAge : 0 .. FrameCap,
                 moveAge : 0 .. ObsCap, stillAge : 0 .. ObsCap]
ViewStates == [available : BOOLEAN, counters : CounterStates,
               move : ChannelView, still : ChannelView]
Events == {PassBy(z) : z \in Zones}
            \cup {BaselineRecorded(z, b) : z \in Zones, b \in BOOLEAN}

Typed ==
  /\ started \in BOOLEAN /\ clocked \in BOOLEAN /\ enabled \in BOOLEAN
  /\ views \in [Sensors -> ViewStates]
  /\ sensors \in [Sensors -> SensorStates]
  /\ zones \in [Zones -> ZoneStates]
  /\ TimersOK(timers)
  /\ events \subseteq Events

LEMMA TypeParts == (TypeOK <=> Typed) /\ (TypeOK' <=> Typed')
BY DEF TypeOK, Typed, ViewStates, SensorStates, TimersOK, Events

LEMMA CapTypes == ObsCap \in Nat /\ FrameCap \in Nat /\ 0 \in 0 .. ObsCap
                  /\ 0 \in 0 .. FrameCap
BY ZoneFilterAssumption, TimersAssumption, EstimatorAssumption
  DEF ObsCap, FrameCap, Larger

LEMMA ElapsedType == ASSUME NEW dt, Elapses(dt) PROVE dt \in Nat
BY EstimatorAssumption DEF Elapses

LEMMA AgedSensorsType ==
  ASSUME TypeOK, NEW dt \in Nat
  PROVE  /\ AgedSensors(dt) \in [Sensors -> SensorStates]
         /\ \A s \in Sensors :
              AgedSensors(dt)[s].available = sensors[s].available
<1> SUFFICES ASSUME NEW s \in Sensors
             PROVE  /\ AgedSensors(dt)[s] \in SensorStates
                    /\ AgedSensors(dt)[s].available = sensors[s].available
  BY DEF AgedSensors
<1>1. sensors[s] \in SensorStates
  BY DEF TypeOK, SensorStates
<1> DEFINE frameAge == Smaller(sensors[s].frameAge + dt, FrameCap)
           moveAge == Smaller(sensors[s].moveAge + dt, ObsCap)
           stillAge == Smaller(sensors[s].stillAge + dt, ObsCap)
           aged == [sensors[s] EXCEPT !.frameAge = frameAge,
                      !.moveAge = moveAge, !.stillAge = stillAge]
<1>2. /\ frameAge \in 0 .. FrameCap
      /\ moveAge \in 0 .. ObsCap /\ stillAge \in 0 .. ObsCap
  BY <1>1, CapTypes DEF Smaller, SensorStates
<1>3. AgedSensors(dt)[s] = aged
  BY <1>1 DEF AgedSensors, SensorStates
<1> HIDE DEF frameAge, moveAge, stillAge
<1>4. aged \in SensorStates /\ aged.available = sensors[s].available
  BY <1>1, <1>2, ZenonT(30) DEF SensorStates
<1> QED BY <1>3, <1>4

LEMMA PassBysType == \A dt : PassBys(dt) \subseteq Events
BY DEF PassBys, Events

LEMMA AdvancedSound ==
  ASSUME IInv, NEW dt \in Nat, NEW z \in Zones
  PROVE  /\ ZoneSound(AdvancedZone(z, dt))
         /\ Kept(AdvancedZone(z, dt), zones[z])
         /\ started => Stamped(AdvancedZone(z, dt))
<1>1. ZoneSound(zones[z]) /\ (started => Stamped(zones[z]))
  BY DEF IInv
<1>2. CASE dt = 0
  BY <1>1, <1>2 DEF AdvancedZone, Kept
<1>3. CASE dt # 0
  <2> DEFINE aged == Aged(zones[z], dt)
             filtered == AdvanceZone(aged, sensors[SensorOf[z]], dt)
  <2>1. ZoneSound(aged) /\ Kept(aged, zones[z]) /\ (started => Stamped(aged))
    BY <1>1, AgedSound
  <2>2. /\ ZoneSound(filtered) /\ Kept(filtered, aged)
        /\ Stamped(aged) => Stamped(filtered)
    BY <2>1, AdvanceZoneSound
  <2>3. /\ ZoneSound(TickZone(filtered)) /\ Kept(TickZone(filtered), filtered)
        /\ Stamped(filtered) => Stamped(TickZone(filtered))
    BY <2>2, TickZoneSound
  <2>4. AdvancedZone(z, dt) = TickZone(filtered)
    BY <1>3 DEF AdvancedZone
  <2> QED BY <2>1, <2>2, <2>3, <2>4 DEF Kept
<1> QED BY <1>2, <1>3

(* A zone whose health, motion and recording stay still agrees with the    *)
(* timers when its own keys and its sensor's availability stay.            *)
LEMMA AgreementKept ==
  ASSUME NEW z \in Zones, Agrees(z), Kept(zones'[z], zones[z]),
         started' = started,
         sensors'[SensorOf[z]].available = sensors[SensorOf[z]].available,
         \A key \in {SensorStale(SensorOf[z]), MotionOff(z), BaselineEnd(z)} :
           Pending(key)' <=> Pending(key)
  PROVE  Agrees(z)'
BY DEF Agrees, Watched, Holding, Recording, Kept

----------------------------------------------------------------------------
(* The steps: each keeps the types, the zones sound and the timers in      *)
(* agreement with them.                                                    *)

(* A call that only advances *)
LEMMA AdvanceKeeps ==
  ASSUME IInv, NEW dt, Elapses(dt),
         started' = started, clocked' \in BOOLEAN, enabled' \in BOOLEAN,
         views' = views, sensors' = AgedSensors(dt), zones' = Advance(dt),
         timers' = PassTime(timers, dt), events' = PassBys(dt)
  PROVE  IInv'
<1>1. dt \in Nat /\ TypeOK
  BY ElapsedType DEF IInv
<1>2. \A z \in Zones : zones'[z] = AdvancedZone(z, dt)
  BY DEF Advance
<1>3. /\ \A z \in Zones : ZoneSound(zones'[z]) /\ Kept(zones'[z], zones[z])
      /\ started => \A z \in Zones : Stamped(zones'[z])
  BY <1>1, <1>2, AdvancedSound
<1>4. TimersOK(timers') /\ DOMAIN timers' = DOMAIN timers
  BY <1>1, TypeParts, PassTimeOK DEF Typed
<1>5. TypeOK'
  <2>1. zones' \in [Zones -> ZoneStates]
    BY <1>2, <1>3 DEF Advance, ZoneSound
  <2> QED
    BY <1>1, <1>4, <2>1, TypeParts, AgedSensorsType, PassBysType DEF Typed
<1>6. \A z \in Zones : Agrees(z)'
  <2> TAKE z \in Zones
  <2>1. sensors'[SensorOf[z]].available = sensors[SensorOf[z]].available
    BY <1>1, AgedSensorsType, EstimatorAssumption
  <2>2. Agrees(z) /\ Kept(zones'[z], zones[z])
    BY <1>3 DEF IInv
  <2> QED BY <1>4, <2>1, <2>2, AgreementKept DEF Pending
<1> QED BY <1>3, <1>5, <1>6 DEF IInv

LEMMA TickKeeps ==
  ASSUME IInv, NEW dt, Tick(dt)
  PROVE  IInv'
BY AdvanceKeeps, TypeParts DEF Tick, IInv, Typed

LEMMA SetEnabledKeeps ==
  ASSUME IInv, NEW on \in BOOLEAN, NEW dt, SetEnabled(on, dt)
  PROVE  IInv'
BY AdvanceKeeps, TypeParts DEF SetEnabled, IInv, Typed

(* Calls that change one zone beyond the advance *)
LEMMA OneZoneTypes ==
  ASSUME IInv, NEW dt \in Nat, NEW z \in Zones, NEW new,
         ZoneSound(new), started => Stamped(new),
         started' = started, clocked' \in BOOLEAN, enabled' = enabled,
         views' \in [Sensors -> ViewStates], sensors' = AgedSensors(dt),
         zones' = [Advance(dt) EXCEPT ![z] = new],
         TimersOK(timers'), events' \subseteq Events
  PROVE  /\ TypeOK'
         /\ \A y \in Zones : ZoneSound(zones'[y])
         /\ started' => \A y \in Zones : Stamped(zones'[y])
         /\ zones'[z] = new
         /\ \A y \in Zones \ {z} : Kept(zones'[y], zones[y])
         /\ \A s \in Sensors : sensors'[s].available = sensors[s].available
<1>1. /\ zones'[z] = new
      /\ \A y \in Zones \ {z} : zones'[y] = AdvancedZone(y, dt)
  BY DEF Advance
<1>2. /\ \A y \in Zones : ZoneSound(zones'[y])
      /\ started' => \A y \in Zones : Stamped(zones'[y])
      /\ \A y \in Zones \ {z} : Kept(zones'[y], zones[y])
  BY <1>1, AdvancedSound
<1>3. zones' \in [Zones -> ZoneStates]
  <2>1. zones' = [y \in Zones |-> zones'[y]]
    BY DEF Advance
  <2> QED BY <1>2, <2>1 DEF ZoneSound
<1>4. TypeOK
  BY DEF IInv
<1> QED BY <1>1, <1>2, <1>3, <1>4, TypeParts, AgedSensorsType DEF Typed

LEMMA RecordBaselineKeeps ==
  ASSUME IInv, NEW z \in Zones, NEW dt, RecordBaseline(z, dt)
  PROVE  IInv'
<1> DEFINE new == Pinned(AdvancedZone(z, dt))
<1>1. dt \in Nat /\ TypeOK
  BY ElapsedType DEF RecordBaseline, IInv
<1>2. /\ ZoneSound(new) /\ Stamped(new) /\ new.recording /\ ~new.motion
      /\ new.health = zones[z].health
  BY <1>1, AdvancedSound, PinnedSound DEF Kept
<1>3. /\ TimersOK(timers')
      /\ DOMAIN timers' = (DOMAIN timers \ {MotionOff(z)}) \cup {BaselineEnd(z)}
  <2>1. /\ TimersOK(PassTime(timers, dt))
        /\ DOMAIN PassTime(timers, dt) = DOMAIN timers
    BY <1>1, TypeParts, PassTimeOK DEF Typed
  <2>2. BaselineDuration \in Int
    BY EstimatorAssumption
  <2> DEFINE cancelled == CancelTimer(PassTime(timers, dt), MotionOff(z))
  <2>3. /\ TimersOK(cancelled)
        /\ DOMAIN cancelled = DOMAIN timers \ {MotionOff(z)}
    BY <2>1, CancelTimerOK
  <2>4. timers' = StartTimer(cancelled, BaselineEnd(z), BaselineDuration)
    BY DEF RecordBaseline
  <2> HIDE DEF cancelled
  <2> QED BY <2>2, <2>3, <2>4, KeysPend, StartTimerOK
<1>4. zones' = [Advance(dt) EXCEPT ![z] = new]
  BY DEF RecordBaseline, Advance
<1> HIDE DEF new
<1>5. /\ TypeOK'
      /\ \A y \in Zones : ZoneSound(zones'[y])
      /\ started' => \A y \in Zones : Stamped(zones'[y])
      /\ zones'[z] = new
      /\ \A y \in Zones \ {z} : Kept(zones'[y], zones[y])
      /\ \A s \in Sensors : sensors'[s].available = sensors[s].available
  <2>1. /\ views' \in [Sensors -> ViewStates] /\ enabled' = enabled
        /\ started' = started /\ clocked' \in BOOLEAN
    BY <1>1, TypeParts DEF Typed, RecordBaseline
  <2> QED
    BY <1>1, <1>2, <1>3, <1>4, <2>1, OneZoneTypes, PassBysType
      DEF RecordBaseline
<1>6. ASSUME NEW y \in Zones PROVE Agrees(y)'
  <2>1. Agrees(y) /\ SensorOf[y] \in Sensors /\ started' = started
    BY EstimatorAssumption DEF IInv, RecordBaseline
  <2>2. CASE y = z
    <3>1. Pending(SensorStale(SensorOf[z]))' <=> Pending(SensorStale(SensorOf[z]))
      BY <1>3, <2>1, <2>2, KeysDiffer DEF Pending
    <3>2. Pending(BaselineEnd(z))' /\ ~Pending(MotionOff(z))'
      BY <1>3, KeysDiffer DEF Pending
    <3> QED
      BY <1>2, <1>5, <2>1, <2>2, <3>1, <3>2
        DEF Agrees, Watched, Holding, Recording
  <2>3. CASE y # z
    <3>1. \A key \in {SensorStale(SensorOf[y]), MotionOff(y), BaselineEnd(y)} :
            Pending(key)' <=> Pending(key)
      BY <1>3, <2>1, <2>3, KeysDiffer DEF Pending
    <3> QED BY <1>5, <2>1, <2>3, <3>1, AgreementKept
  <2> QED BY <2>2, <2>3
<1> QED BY <1>5, <1>6 DEF IInv

LEMMA MotionOffTimerKeeps ==
  ASSUME IInv, NEW z \in Zones, NEW dt, MotionOffTimer(z, dt)
  PROVE  IInv'
<1> DEFINE old == AdvancedZone(z, dt)
           motion == old.motion /\ zones[z].health # "OK"
           new == [old EXCEPT !.motion = motion]
<1>1. dt \in Nat /\ TypeOK
  BY ElapsedType DEF MotionOffTimer, Fires, IInv
<1>2. ZoneSound(old) /\ Kept(old, zones[z]) /\ (started => Stamped(old))
  BY <1>1, AdvancedSound
<1>3. /\ ZoneSound(new) /\ (started => Stamped(new))
      /\ new.motion = motion /\ new.health = zones[z].health
      /\ new.recording = zones[z].recording
  <2>1. motion \in BOOLEAN /\ (old.recording => ~motion)
    BY <1>2 DEF ZoneSound, RecordingPinned
  <2> HIDE DEF motion, old
  <2> QED BY <1>2, <2>1, MotionSound DEF Kept
<1>4. /\ TimersOK(timers')
      /\ DOMAIN timers' = DOMAIN timers \ {MotionOff(z)}
  <2>1. /\ TimersOK(PassTime(timers, dt))
        /\ DOMAIN PassTime(timers, dt) = DOMAIN timers
    BY <1>1, TypeParts, PassTimeOK DEF Typed
  <2> QED BY <2>1, CancelTimerOK DEF MotionOffTimer
<1>5. zones' = [Advance(dt) EXCEPT ![z] = new]
  BY DEF MotionOffTimer, Advance
<1>6. motion => zones[z].health # "OK"
  OBVIOUS
<1> HIDE DEF new, motion
<1>7. /\ TypeOK'
      /\ \A y \in Zones : ZoneSound(zones'[y])
      /\ started' => \A y \in Zones : Stamped(zones'[y])
      /\ zones'[z] = new
      /\ \A y \in Zones \ {z} : Kept(zones'[y], zones[y])
      /\ \A s \in Sensors : sensors'[s].available = sensors[s].available
  BY <1>1, <1>3, <1>4, <1>5, OneZoneTypes, PassBysType, TypeParts DEF MotionOffTimer, Typed
<1>8. ASSUME NEW y \in Zones PROVE Agrees(y)'
  <2>1. Agrees(y) /\ SensorOf[y] \in Sensors /\ started' = started
    BY EstimatorAssumption DEF IInv, MotionOffTimer
  <2>2. CASE y = z
    <3>1. /\ Pending(SensorStale(SensorOf[z]))' <=> Pending(SensorStale(SensorOf[z]))
          /\ Pending(BaselineEnd(z))' <=> Pending(BaselineEnd(z))
          /\ ~Pending(MotionOff(z))'
      BY <1>4, <2>1, <2>2, KeysDiffer DEF Pending
    <3> QED
      BY <1>3, <1>6, <1>7, <2>1, <2>2, <3>1
        DEF Agrees, Watched, Holding, Recording
  <2>3. CASE y # z
    <3>1. \A key \in {SensorStale(SensorOf[y]), MotionOff(y), BaselineEnd(y)} :
            Pending(key)' <=> Pending(key)
      BY <1>4, <2>1, <2>3, KeysDiffer DEF Pending
    <3> QED BY <1>7, <2>1, <2>3, <3>1, AgreementKept
  <2> QED BY <2>2, <2>3
<1> QED BY <1>7, <1>8 DEF IInv

LEMMA BaselineEndTimerKeeps ==
  ASSUME IInv, NEW z \in Zones, NEW dt, NEW success \in BOOLEAN,
         BaselineEndTimer(z, dt, success)
  PROVE  IInv'
<1> DEFINE old == AdvancedZone(z, dt)
           new == [old EXCEPT !.recording = FALSE]
<1>1. dt \in Nat /\ TypeOK
  BY ElapsedType DEF BaselineEndTimer, Fires, IInv
<1>2. ZoneSound(old) /\ Kept(old, zones[z]) /\ (started => Stamped(old))
  BY <1>1, AdvancedSound
<1>3. /\ ZoneSound(new) /\ (started => Stamped(new))
      /\ new.motion = zones[z].motion /\ new.health = zones[z].health
      /\ ~new.recording
  <2> HIDE DEF old
  <2> QED BY <1>2, UnpinnedSound DEF Kept
<1>4. /\ TimersOK(timers')
      /\ DOMAIN timers' = DOMAIN timers \ {BaselineEnd(z)}
  <2>1. /\ TimersOK(PassTime(timers, dt))
        /\ DOMAIN PassTime(timers, dt) = DOMAIN timers
    BY <1>1, TypeParts, PassTimeOK DEF Typed
  <2> QED BY <2>1, CancelTimerOK DEF BaselineEndTimer
<1>5. zones' = [Advance(dt) EXCEPT ![z] = new]
  BY DEF BaselineEndTimer, Advance
<1>6. events' \subseteq Events
  BY PassBysType DEF BaselineEndTimer, Events
<1>0. views' \in [Sensors -> ViewStates]
  <2>1. SensorOf[z] \in Sensors
    BY EstimatorAssumption
  <2>2. CASE success
    <3>1. PICK move \in MoveViews[SensorOf[z]], still \in StillViews[SensorOf[z]] :
            views' = [views EXCEPT ![SensorOf[z]].move = move,
                                   ![SensorOf[z]].still = still]
      BY <2>2 DEF BaselineEndTimer, Rescoring
    <3>2. move \in ChannelView /\ still \in ChannelView
      BY <2>1, EstimatorAssumption
    <3> QED BY <1>1, <2>1, <3>1, <3>2, TypeParts DEF Typed, ViewStates
  <2>3. CASE ~success
    BY <1>1, <2>3, TypeParts DEF BaselineEndTimer, Typed
  <2> QED BY <2>2, <2>3
<1> HIDE DEF new
<1>7. /\ TypeOK'
      /\ \A y \in Zones : ZoneSound(zones'[y])
      /\ started' => \A y \in Zones : Stamped(zones'[y])
      /\ zones'[z] = new
      /\ \A y \in Zones \ {z} : Kept(zones'[y], zones[y])
      /\ \A s \in Sensors : sensors'[s].available = sensors[s].available
  BY <1>0, <1>1, <1>3, <1>4, <1>5, <1>6, OneZoneTypes, TypeParts
    DEF BaselineEndTimer, Typed
<1>8. ASSUME NEW y \in Zones PROVE Agrees(y)'
  <2>1. Agrees(y) /\ SensorOf[y] \in Sensors /\ started' = started
    BY EstimatorAssumption DEF IInv, BaselineEndTimer
  <2>2. CASE y = z
    <3>1. /\ Pending(SensorStale(SensorOf[z]))' <=> Pending(SensorStale(SensorOf[z]))
          /\ Pending(MotionOff(z))' <=> Pending(MotionOff(z))
          /\ ~Pending(BaselineEnd(z))'
      BY <1>4, <2>1, <2>2, KeysDiffer DEF Pending
    <3> QED
      BY <1>3, <1>7, <2>1, <2>2, <3>1 DEF Agrees, Watched, Holding, Recording
  <2>3. CASE y # z
    <3>1. \A key \in {SensorStale(SensorOf[y]), MotionOff(y), BaselineEnd(y)} :
            Pending(key)' <=> Pending(key)
      BY <1>4, <2>1, <2>3, KeysDiffer DEF Pending
    <3> QED BY <1>7, <2>1, <2>3, <3>1, AgreementKept
  <2> QED BY <2>2, <2>3
<1> QED BY <1>7, <1>8 DEF IInv

----------------------------------------------------------------------------
(* Calls that change every zone of one sensor *)

LEMMA OutageKeeps ==
  ASSUME IInv, NEW s \in Sensors, NEW dt, Outage(s, dt)
  PROVE  IInv'
<1> DEFINE lost(z) == [AdvancedZone(z, dt) EXCEPT !.health = "UNKNOWN",
                                                  !.attack = NoChain]
<1>1. dt \in Nat /\ TypeOK
  BY ElapsedType DEF Outage, IInv
<1>2. \A z \in Zones : /\ ZoneSound(AdvancedZone(z, dt))
                       /\ Kept(AdvancedZone(z, dt), zones[z])
                       /\ started => Stamped(AdvancedZone(z, dt))
  BY <1>1, AdvancedSound
<1>3. ASSUME NEW z \in Zones
      PROVE  /\ ZoneSound(lost(z)) /\ (started => Stamped(lost(z)))
             /\ lost(z).health = "UNKNOWN" /\ lost(z).motion = zones[z].motion
             /\ lost(z).recording = zones[z].recording
  BY <1>2, SilencedSound DEF Kept
<1>4. \A z \in Zones : zones'[z] = IF SensorOf[z] = s THEN lost(z)
                                   ELSE AdvancedZone(z, dt)
  BY DEF Outage
<1> HIDE DEF lost
<1>5. /\ TimersOK(timers')
      /\ DOMAIN timers' = DOMAIN timers \ {SensorStale(s)}
  <2>1. /\ TimersOK(PassTime(timers, dt))
        /\ DOMAIN PassTime(timers, dt) = DOMAIN timers
    BY <1>1, TypeParts, PassTimeOK DEF Typed
  <2> QED BY <2>1, CancelTimerOK DEF Outage
<1>6. /\ sensors' \in [Sensors -> SensorStates]
      /\ \A t \in Sensors \ {s} : sensors'[t].available = sensors[t].available
  <2> DEFINE aged == AgedSensors(dt)
             down == [aged[s] EXCEPT !.available = FALSE]
  <2>1. /\ aged \in [Sensors -> SensorStates]
        /\ \A t \in Sensors : aged[t].available = sensors[t].available
    BY <1>1, AgedSensorsType
  <2>2. sensors' = [aged EXCEPT ![s] = down]
    BY DEF Outage
  <2> HIDE DEF aged
  <2>3. down \in SensorStates
    BY <2>1, Zenon DEF SensorStates
  <2> HIDE DEF down
  <2> QED BY <2>1, <2>2, <2>3
<1>7. \A z \in Zones : ZoneSound(zones'[z]) /\ (started' => Stamped(zones'[z]))
  BY <1>2, <1>3, <1>4 DEF Outage
<1>8. TypeOK'
  <2>1. zones' \in [Zones -> ZoneStates]
    <3>1. zones' = [z \in Zones |-> zones'[z]]
      BY DEF Outage
    <3> QED BY <1>7, <3>1 DEF ZoneSound
  <2>2. views' \in [Sensors -> ViewStates]
    BY <1>1, TypeParts DEF Typed, Outage, ViewStates, CounterStates
  <2> QED
    BY <1>1, <1>5, <1>6, <2>1, <2>2, TypeParts, PassBysType DEF Typed, Outage
<1>9. ASSUME NEW z \in Zones PROVE Agrees(z)'
  <2>1. Agrees(z) /\ SensorOf[z] \in Sensors /\ started' = started
    BY EstimatorAssumption DEF IInv, Outage
  <2>2. CASE SensorOf[z] = s
    <3>1. /\ ~Pending(SensorStale(s))'
          /\ Pending(MotionOff(z))' <=> Pending(MotionOff(z))
          /\ Pending(BaselineEnd(z))' <=> Pending(BaselineEnd(z))
      BY <1>5, KeysDiffer DEF Pending
    <3>2. ~sensors'[s].available
      BY <1>1, AgedSensorsType DEF Outage, SensorStates
    <3> QED
      BY <1>3, <1>4, <2>1, <2>2, <3>1, <3>2
        DEF Agrees, Watched, Holding, Recording
  <2>3. CASE SensorOf[z] # s
    <3>1. \A key \in {SensorStale(SensorOf[z]), MotionOff(z), BaselineEnd(z)} :
            Pending(key)' <=> Pending(key)
      BY <1>5, <2>1, <2>3, KeysDiffer DEF Pending
    <3> QED BY <1>2, <1>4, <1>6, <2>1, <2>3, <3>1, AgreementKept
  <2> QED BY <2>2, <2>3
<1> QED BY <1>7, <1>8, <1>9 DEF IInv

LEMMA StaleTimerKeeps ==
  ASSUME IInv, NEW s \in Sensors, NEW dt, StaleTimer(s, dt)
  PROVE  IInv'
<1> DEFINE blind == \E z \in ZonesOf(s) : Advance(dt)[z].occupied
           health(z) == IF blind THEN "UNKNOWN" ELSE AdvancedZone(z, dt).health
           silent(z) == [AdvancedZone(z, dt) EXCEPT !.health = health(z),
                                                    !.attack = NoChain]
<1>1. dt \in Nat /\ TypeOK /\ Pending(SensorStale(s))
  BY ElapsedType DEF StaleTimer, Fires, MayFire, IInv, Pending
<1>2. \A z \in Zones : /\ ZoneSound(AdvancedZone(z, dt))
                       /\ Kept(AdvancedZone(z, dt), zones[z])
                       /\ started => Stamped(AdvancedZone(z, dt))
  BY <1>1, AdvancedSound
<1>3. \A z \in Zones :
        health(z) = IF blind THEN "UNKNOWN" ELSE zones[z].health
  BY <1>2 DEF Kept
<1> HIDE DEF blind
<1>4. \A z \in Zones : zones'[z] = IF SensorOf[z] = s THEN silent(z)
                                   ELSE AdvancedZone(z, dt)
  BY DEF StaleTimer, Advance, SilenceBlinds, blind
<1>5. ASSUME NEW z \in Zones
      PROVE  /\ ZoneSound(silent(z)) /\ (started => Stamped(silent(z)))
             /\ silent(z).health = health(z)
             /\ silent(z).motion = zones[z].motion
             /\ silent(z).recording = zones[z].recording
  <2>1. health(z) \in {"OK", "UNKNOWN"}
    BY <1>2 DEF ZoneSound, ZoneStates
  <2> HIDE DEF health
  <2>2. ZoneSound(AdvancedZone(z, dt))
    BY <1>2
  <2>3. /\ ZoneSound(silent(z)) /\ silent(z).health = health(z)
        /\ silent(z).motion = AdvancedZone(z, dt).motion
        /\ silent(z).recording = AdvancedZone(z, dt).recording
        /\ Stamped(AdvancedZone(z, dt)) => Stamped(silent(z))
    BY <2>1, <2>2, SilencedSound
  <2> QED BY <1>2, <2>3 DEF Kept
<1> HIDE DEF silent, health
<1>6. /\ TimersOK(timers')
      /\ DOMAIN timers' = IF blind THEN DOMAIN timers \ {SensorStale(s)}
                          ELSE DOMAIN timers
  <2>1. /\ TimersOK(PassTime(timers, dt))
        /\ DOMAIN PassTime(timers, dt) = DOMAIN timers
    BY <1>1, TypeParts, PassTimeOK DEF Typed
  <2> DEFINE fired == CancelTimer(PassTime(timers, dt), SensorStale(s))
  <2>2. TimersOK(fired) /\ DOMAIN fired = DOMAIN timers \ {SensorStale(s)}
    BY <2>1, CancelTimerOK
  <2>3. timers' = IF blind THEN fired
                  ELSE StartTimer(fired, SensorStale(s), StaleAfter)
    BY DEF StaleTimer, SilenceBlinds, blind
  <2> HIDE DEF fired
  <2>4. CASE blind
    BY <2>2, <2>3, <2>4
  <2>5. CASE ~blind
    <3> DEFINE restarted == StartTimer(fired, SensorStale(s), StaleAfter)
    <3>1. /\ TimersOK(restarted)
          /\ DOMAIN restarted = DOMAIN fired \cup {SensorStale(s)}
      <4>1. StaleAfter \in Int /\ SensorStale(s) \in TimerKeys
        BY KeysPend, EstimatorAssumption
      <4> QED BY <2>2, <4>1, StartTimerOK
    <3>2. timers' = restarted
      BY <2>3, <2>5
    <3> HIDE DEF restarted
    <3> QED BY <3>2, <1>1, <2>2, <2>5, <3>1 DEF Pending
  <2> QED BY <2>4, <2>5
<1>7. \A z \in Zones : ZoneSound(zones'[z]) /\ (started' => Stamped(zones'[z]))
  BY <1>2, <1>4, <1>5 DEF StaleTimer
<1>8. TypeOK'
  <2>1. zones' \in [Zones -> ZoneStates]
    <3>1. zones' = [z \in Zones |-> zones'[z]]
      BY DEF StaleTimer
    <3> QED BY <1>7, <3>1 DEF ZoneSound
  <2> QED
    BY <1>1, <1>6, <2>1, TypeParts, AgedSensorsType, PassBysType
      DEF Typed, StaleTimer
<1>9. ASSUME NEW z \in Zones PROVE Agrees(z)'
  <2>1. Agrees(z) /\ SensorOf[z] \in Sensors /\ started' = started
    BY EstimatorAssumption DEF IInv, StaleTimer
  <2>2. sensors'[SensorOf[z]].available = sensors[SensorOf[z]].available
    BY <1>1, <2>1, AgedSensorsType DEF StaleTimer
  <2>3. /\ Pending(MotionOff(z))' <=> Pending(MotionOff(z))
        /\ Pending(BaselineEnd(z))' <=> Pending(BaselineEnd(z))
        /\ SensorOf[z] # s => (Pending(SensorStale(SensorOf[z]))'
                                  <=> Pending(SensorStale(SensorOf[z])))
        /\ Pending(SensorStale(s))' <=> ~blind
    BY <1>1, <1>6, <2>1, KeysDiffer DEF Pending
  <2>4. CASE SensorOf[z] = s
    <3>1. started
      BY <1>1, <2>1, <2>4 DEF Agrees, Watched
    <3> QED
      BY <1>1, <1>3, <1>4, <1>5, <2>1, <2>2, <2>3, <2>4, <3>1
        DEF Agrees, Watched, Holding, Recording
  <2>5. CASE SensorOf[z] # s
    BY <1>2, <1>4, <2>1, <2>2, <2>3, <2>5, AgreementKept
  <2> QED BY <2>4, <2>5
<1> QED BY <1>7, <1>8, <1>9 DEF IInv

----------------------------------------------------------------------------
(* A report reaches its zones as one frame each. *)
LEMMA FramedSound ==
  ASSUME IInv, NEW dt \in Nat, NEW z \in Zones, NEW fresh,
         NEW move \in ChannelView, NEW still \in ChannelView
  PROVE  LET framed == FramedZone(z, dt, fresh, move, still)
         IN  /\ ZoneSound(framed)
             /\ started => Stamped(framed)
             /\ framed.recording = zones[z].recording
             /\ framed.health = IF "frame" \in fresh THEN "OK"
                                ELSE zones[z].health
             /\ Suspended(framed) => framed.motion = zones[z].motion
             /\ ~Suspended(framed) =>
                  (framed.motion <=>
                     \/ MotionEvidence(framed, move.at[z], move.flag)
                     \/ zones[z].motion /\ Pending(MotionOff(z)))
<1> DEFINE advanced == AdvancedZone(z, dt)
           recovered == IF "frame" \in fresh
                        THEN [advanced EXCEPT !.health = "OK"] ELSE advanced
           scored == Ingest(recovered, move.at[z], still.at[z])
           attacked == Attack(scored, move.at[z], "energy" \in fresh)
           moving == MotionEvidence(attacked, move.at[z], move.flag)
           motion == moving \/ (attacked.motion /\ MotionOff(z) \in DOMAIN timers)
           framed == [attacked EXCEPT !.motion = motion]
<1>1. /\ ZoneSound(advanced) /\ (started => Stamped(advanced))
      /\ Kept(advanced, zones[z])
  BY AdvancedSound
<1>2. FramedZone(z, dt, fresh, move, still)
        = IF Suspended(scored) THEN scored ELSE framed
  BY DEF FramedZone
<1> HIDE DEF advanced
<1>3. /\ ZoneSound(recovered) /\ (started => Stamped(recovered))
      /\ recovered.health = IF "frame" \in fresh THEN "OK" ELSE zones[z].health
      /\ recovered.motion = zones[z].motion
      /\ recovered.recording = zones[z].recording
  BY <1>1, RecoveredSound DEF Kept
<1> HIDE DEF recovered
<1>4. /\ ZoneSound(scored) /\ (started => Stamped(scored))
      /\ Kept(scored, recovered)
  <2>1. move.at[z].raw \in Int /\ still.at[z].raw \in Int
    BY DEF ChannelView, Reading
  <2> QED BY <1>3, <2>1, IngestSound
<1> HIDE DEF scored
<1>5. CASE Suspended(scored)
  BY <1>2, <1>3, <1>4, <1>5 DEF Kept
<1>6. CASE ~Suspended(scored)
  <2>1. /\ ZoneSound(attacked) /\ (started => Stamped(attacked))
        /\ Kept(attacked, scored)
    BY <1>4, <1>6, AttackSound
  <2> HIDE DEF attacked
  <2>2. moving \in BOOLEAN /\ motion \in BOOLEAN
    BY DEF MotionEvidence
  <2>3. attacked.zMove \in Int
    BY <2>1 DEF ZoneSound, ZoneStates
  <2>4. ~attacked.recording
    BY <1>6, <2>1 DEF Kept, Suspended
  <2>5. framed.zMove = attacked.zMove
    BY <2>1 DEF ZoneSound, ZoneStates
  <2>6. MotionEvidence(framed, move.at[z], move.flag) <=> moving
    BY <2>5 DEF MotionEvidence
  <2>7. attacked.motion = zones[z].motion
    BY <1>3, <1>4, <2>1 DEF Kept
  <2>8. motion <=> moving \/ (zones[z].motion /\ Pending(MotionOff(z)))
    BY <2>7 DEF Pending
  <2> HIDE DEF motion, moving
  <2>9. /\ ZoneSound(framed) /\ framed.motion = motion
        /\ framed.health = attacked.health
        /\ framed.recording = attacked.recording
        /\ Stamped(attacked) => Stamped(framed)
    BY <2>1, <2>2, <2>4, MotionSound
  <2> HIDE DEF framed
  <2>10. ~Suspended(framed)
    BY <1>6, <2>1, <2>9 DEF Suspended, Kept
  <2> QED BY <1>2, <1>3, <1>4, <1>6, <2>1, <2>6, <2>8, <2>9, <2>10 DEF Kept
<1> QED BY <1>5, <1>6

LEMMA ReportKeeps ==
  ASSUME IInv, NEW s \in Sensors, NEW dt, NEW fresh,
         NEW move \in MoveViews[s], NEW still \in StillViews[s],
         Report(s, dt, fresh, move, still)
  PROVE  IInv'
<1> DEFINE framed(z) == FramedZone(z, dt, fresh, move, still)
           moving(z) == /\ SensorOf[z] = s /\ ~Suspended(zones'[z])
                        /\ MotionEvidence(zones'[z], move.at[z], move.flag)
           watching == IF "frame" \in fresh THEN {SensorStale(s)} ELSE {}
<1>1. dt \in Nat /\ TypeOK /\ started
  BY ElapsedType DEF Report, IInv
<1>2. move \in ChannelView /\ still \in ChannelView
  BY EstimatorAssumption
<1>3. \A z \in Zones : /\ ZoneSound(AdvancedZone(z, dt))
                       /\ Kept(AdvancedZone(z, dt), zones[z])
                       /\ started => Stamped(AdvancedZone(z, dt))
  BY <1>1, AdvancedSound
<1>4. ASSUME NEW z \in Zones
      PROVE  /\ ZoneSound(framed(z)) /\ Stamped(framed(z))
             /\ framed(z).recording = zones[z].recording
             /\ framed(z).health = IF "frame" \in fresh THEN "OK"
                                   ELSE zones[z].health
             /\ Suspended(framed(z)) => framed(z).motion = zones[z].motion
             /\ ~Suspended(framed(z)) =>
                  (framed(z).motion <=>
                     \/ MotionEvidence(framed(z), move.at[z], move.flag)
                     \/ zones[z].motion /\ Pending(MotionOff(z)))
  BY <1>1, <1>2, FramedSound
<1>5. \A z \in Zones : zones'[z] = IF SensorOf[z] = s THEN framed(z)
                                   ELSE AdvancedZone(z, dt)
  BY DEF Report
<1> HIDE DEF framed
<1>6. /\ TimersOK(timers')
      /\ DOMAIN timers' = (DOMAIN timers \cup watching)
                            \cup {MotionOff(z) : z \in {y \in Zones : moving(y)}}
  <2> DEFINE passed == PassTime(timers, dt)
             watched == IF "frame" \in fresh
                        THEN StartTimer(passed, SensorStale(s), StaleAfter)
                        ELSE passed
             keys == {MotionOff(z) : z \in Moving(s, zones', move)}
  <2>1. TimersOK(passed) /\ DOMAIN passed = DOMAIN timers
    BY <1>1, TypeParts, PassTimeOK DEF Typed
  <2>2. timers' = StartTimers(watched, keys, MotionHold)
    BY DEF Report
  <2> HIDE DEF passed
  <2>3. TimersOK(watched) /\ DOMAIN watched = DOMAIN timers \cup watching
    <3>1. StaleAfter \in Int /\ SensorStale(s) \in TimerKeys
      BY KeysPend, EstimatorAssumption
    <3> QED BY <2>1, <3>1, StartTimerOK
  <2> HIDE DEF watched
  <2>4. Moving(s, zones', move) = {y \in Zones : moving(y)}
    BY DEF Moving, ZonesOf
  <2>5. keys \subseteq TimerKeys /\ MotionHold \in Int
    BY <2>4, KeysPend, EstimatorAssumption
  <2>6. /\ TimersOK(StartTimers(watched, keys, MotionHold))
        /\ DOMAIN StartTimers(watched, keys, MotionHold) = DOMAIN watched \cup keys
    BY <2>3, <2>5, StartTimersOK
  <2> QED BY <2>2, <2>3, <2>4, <2>6
<1>7. /\ sensors' \in [Sensors -> SensorStates]
      /\ \A t \in Sensors \ {s} : sensors'[t].available = sensors[t].available
      /\ sensors[s].available \/ "frame" \in fresh => sensors'[s].available
  <2> DEFINE aged == AgedSensors(dt)
             available == \/ aged[s].available \/ ~views[s].available
                          \/ "frame" \in fresh
             frameAge == IF "frame" \in fresh THEN 0 ELSE aged[s].frameAge
             moveAge == IF "move" \in fresh THEN 0 ELSE aged[s].moveAge
             stillAge == IF "still" \in fresh THEN 0 ELSE aged[s].stillAge
             new == [aged[s] EXCEPT !.available = available,
                       !.frameAge = frameAge, !.moveAge = moveAge,
                       !.stillAge = stillAge]
  <2>1. /\ aged \in [Sensors -> SensorStates]
        /\ \A t \in Sensors : aged[t].available = sensors[t].available
    BY <1>1, AgedSensorsType
  <2>2. sensors' = [aged EXCEPT ![s] = new]
    BY <2>1 DEF Report, SensorStates
  <2> HIDE DEF aged
  <2>3. /\ available \in BOOLEAN /\ frameAge \in 0 .. FrameCap
        /\ moveAge \in 0 .. ObsCap /\ stillAge \in 0 .. ObsCap
    BY <2>1, CapTypes, TypeParts, <1>1 DEF SensorStates, Typed, ViewStates
  <2>4. sensors[s].available \/ "frame" \in fresh => available
    BY <2>1
  <2> HIDE DEF available, frameAge, moveAge, stillAge
  <2>5. new \in SensorStates /\ new.available = available
    BY <2>1, <2>3, ZenonT(30) DEF SensorStates
  <2> HIDE DEF new
  <2> QED BY <2>1, <2>2, <2>4, <2>5
<1>8. \A z \in Zones : ZoneSound(zones'[z]) /\ Stamped(zones'[z])
  BY <1>1, <1>3, <1>4, <1>5
<1>9. TypeOK'
  <2>1. zones' \in [Zones -> ZoneStates]
    <3>1. zones' = [z \in Zones |-> zones'[z]]
      BY DEF Report
    <3> QED BY <1>8, <3>1 DEF ZoneSound
  <2>2. views' \in [Sensors -> ViewStates]
    BY <1>1, <1>2, TypeParts DEF Typed, Report, ViewStates, CounterStates
  <2> QED
    BY <1>1, <1>6, <1>7, <2>1, <2>2, TypeParts, PassBysType DEF Typed, Report
<1>10. ASSUME NEW z \in Zones PROVE Agrees(z)'
  <2>1. Agrees(z) /\ SensorOf[z] \in Sensors /\ started' = started
    BY EstimatorAssumption DEF IInv, Report
  <2>2. /\ Pending(BaselineEnd(z))' <=> Pending(BaselineEnd(z))
        /\ Pending(MotionOff(z))' <=> Pending(MotionOff(z)) \/ moving(z)
        /\ Pending(SensorStale(SensorOf[z]))' <=>
             \/ Pending(SensorStale(SensorOf[z]))
             \/ SensorOf[z] = s /\ "frame" \in fresh
    BY <1>6, <2>1, KeysDiffer DEF Pending
  <2>3. CASE SensorOf[z] = s
    <3>1. Watched(z)'
      BY <1>1, <1>4, <1>5, <1>7, <2>1, <2>2, <2>3 DEF Agrees, Watched
    <3>2. Holding(z)'
      <4>1. CASE Suspended(zones'[z])
        <5>1. ~moving(z) /\ zones'[z].motion = zones[z].motion
          BY <1>4, <1>5, <2>3, <4>1
        <5>2. zones'[z].health = "OK" => ~zones'[z].motion
          BY <1>8, <4>1 DEF Suspended, ZoneSound, RecordingPinned
        <5> QED BY <2>1, <2>2, <5>1, <5>2 DEF Agrees, Holding
      <4>2. CASE ~Suspended(zones'[z])
        BY <1>4, <1>5, <2>1, <2>2, <2>3, <4>2 DEF Agrees, Holding
      <4> QED BY <4>1, <4>2
    <3>3. Recording(z)'
      BY <1>4, <1>5, <2>1, <2>2, <2>3 DEF Agrees, Recording
    <3> QED BY <3>1, <3>2, <3>3 DEF Agrees
  <2>4. CASE SensorOf[z] # s
    BY <1>3, <1>5, <1>7, <2>1, <2>2, <2>4, AgreementKept
  <2> QED BY <2>3, <2>4
<1> QED BY <1>8, <1>9, <1>10 DEF IInv

----------------------------------------------------------------------------
(* The start stamps the adopted zones and puts every available sensor      *)
(* under watch.                                                            *)
LEMMA StartKeeps ==
  ASSUME IInv, NEW dt, Start(dt)
  PROVE  IInv'
<1> DEFINE aged(z) == Aged(zones[z], dt)
           new(z) == IF zones[z].occupied THEN OnOccupied(aged(z)) ELSE aged(z)
           watching == {SensorStale(s) : s \in {t \in Sensors : sensors[t].available}}
<1>1. dt \in Nat /\ TypeOK /\ ~started /\ started'
  BY ElapsedType DEF Start, IInv
<1>2. ASSUME NEW z \in Zones
      PROVE  ZoneSound(new(z)) /\ Stamped(new(z)) /\ Kept(new(z), zones[z])
  <2>1. /\ ZoneSound(aged(z)) /\ Kept(aged(z), zones[z])
        /\ aged(z).occupied = zones[z].occupied
    BY <1>1, AgedSound DEF IInv
  <2> HIDE DEF aged
  <2>2. CASE zones[z].occupied
    BY <2>1, <2>2, OnOccupiedSound DEF Kept
  <2>3. CASE ~zones[z].occupied
    BY <2>1, <2>3 DEF Stamped
  <2> QED BY <2>2, <2>3
<1>3. \A z \in Zones : zones'[z] = new(z)
  BY DEF Start
<1> HIDE DEF new
<1>4. TimersOK(timers') /\ DOMAIN timers' = DOMAIN timers \cup watching
  <2>1. /\ TimersOK(PassTime(timers, dt))
        /\ DOMAIN PassTime(timers, dt) = DOMAIN timers
    BY <1>1, TypeParts, PassTimeOK DEF Typed
  <2>2. watching \subseteq TimerKeys /\ StaleAfter \in Int
    BY KeysPend, EstimatorAssumption
  <2> QED BY <2>1, <2>2, StartTimersOK DEF Start
<1>5. /\ sensors' \in [Sensors -> SensorStates]
      /\ \A s \in Sensors : sensors'[s].available = sensors[s].available
  <2> SUFFICES ASSUME NEW s \in Sensors
               PROVE  /\ sensors'[s] \in SensorStates
                      /\ sensors'[s].available = sensors[s].available
    BY DEF Start
  <2> DEFINE old == AgedSensors(dt)[s]
             fed == [old EXCEPT !.frameAge = 0]
  <2>1. old \in SensorStates /\ old.available = sensors[s].available
    BY <1>1, AgedSensorsType
  <2>2. sensors'[s] = IF sensors[s].available THEN fed ELSE old
    BY DEF Start
  <2> HIDE DEF old
  <2>3. fed \in SensorStates /\ fed.available = old.available
    BY <2>1, CapTypes, ZenonT(30) DEF SensorStates
  <2> QED BY <2>1, <2>2, <2>3
<1>6. \A z \in Zones : ZoneSound(zones'[z]) /\ Stamped(zones'[z])
  BY <1>2, <1>3
<1>7. TypeOK'
  <2>1. zones' \in [Zones -> ZoneStates]
    <3>1. zones' = [z \in Zones |-> zones'[z]]
      BY DEF Start
    <3> QED BY <1>6, <3>1 DEF ZoneSound
  <2>2. views' \in [Sensors -> ViewStates]
    <3> SUFFICES ASSUME NEW s \in Sensors PROVE views'[s] \in ViewStates
      BY DEF Start
    <3>1. views'[s] \in Rebuilt(s)
      BY DEF Start
    <3>2. MoveViews[s] \subseteq ChannelView /\ StillViews[s] \subseteq ChannelView
      BY EstimatorAssumption
    <3> QED BY <3>1, <3>2 DEF Rebuilt, ViewStates, CounterStates
  <2>3. events' = {}
    BY DEF Start
  <2> QED
    BY <1>1, <1>4, <1>5, <2>1, <2>2, <2>3, TypeParts DEF Typed, Start
<1>8. ASSUME NEW z \in Zones PROVE Agrees(z)'
  <2>1. Agrees(z) /\ SensorOf[z] \in Sensors
    BY EstimatorAssumption DEF IInv
  <2>2. /\ Pending(BaselineEnd(z))' <=> Pending(BaselineEnd(z))
        /\ Pending(MotionOff(z))' <=> Pending(MotionOff(z))
        /\ Pending(SensorStale(SensorOf[z]))' <=>
             \/ Pending(SensorStale(SensorOf[z]))
             \/ sensors[SensorOf[z]].available
    BY <1>4, <2>1, KeysDiffer DEF Pending
  <2> QED
    BY <1>1, <1>2, <1>3, <1>5, <2>1, <2>2
      DEF Agrees, Watched, Holding, Recording, Kept
<1> QED BY <1>6, <1>7, <1>8 DEF IInv

----------------------------------------------------------------------------
(* A seeded zone is sound whatever its sensor showed at the snapshot. *)
LEMMA SeedZoneSound ==
  ASSUME NEW view \in ViewStates, NEW z \in Zones
  PROVE  /\ ZoneSound(SeedZone(view, z))
         /\ SeedZone(view, z).health = IF view.available THEN "OK" ELSE "UNKNOWN"
         /\ ~SeedZone(view, z).motion /\ ~SeedZone(view, z).recording
<1> DEFINE health == IF view.available THEN "OK" ELSE "UNKNOWN"
           fresh == [health |-> health, lam |-> LamPrior, occupied |-> FALSE,
                     activity |-> "EMPTY", motion |-> FALSE, recording |-> FALSE,
                     zMove |-> 0, zStill |-> 0, attack |-> NoChain,
                     since |-> None, stillDom |-> None, moveDom |-> None]
           move == Snapshot(view.move).at[z]
           still == Snapshot(view.still).at[z]
           scored == Ingest(fresh, move, still)
           adopted == [scored EXCEPT !.lam = LamOn, !.occupied = TRUE]
<1>1. SeedZone(view, z) \in {fresh, scored, adopted}
  BY DEF SeedZone
<1>2. /\ ZoneSound(fresh) /\ fresh.health = health /\ ~fresh.motion
      /\ ~fresh.recording /\ fresh.since = None
  <2>1. fresh \in ZoneStates
    BY LamsOrder, FieldTypes, NoChainSound DEF ZoneStates
  <2>2. NoChain.count = 0
    BY DEF NoChain
  <2> QED
    BY <2>1, <2>2, NoChainSound, BeliefAssumption DEF ZoneSound, Latched,
      ClocksExclude, OccupancyRecorded, ChainSound, RecordingPinned
<1> HIDE DEF fresh
<1>3. move.raw \in Int /\ still.raw \in Int
  <2>1. \A v \in ChannelView : Snapshot(v).at[z].raw \in Int
    BY DEF ChannelView, Reading, Snapshot
  <2> QED BY <2>1 DEF ViewStates
<1> HIDE DEF move, still
<1>4. /\ ZoneSound(scored) /\ Kept(scored, fresh)
      /\ scored.recording = FALSE
  BY <1>2, <1>3, IngestSound DEF Kept
<1>5. scored.since = None /\ scored.activity = "EMPTY"
  <2>1. ~scored.occupied
    BY <1>2, <1>3, IngestSound DEF fresh
  <2> QED BY <1>4, <2>1 DEF ZoneSound, OccupancyRecorded
<1> HIDE DEF scored
<1>6. ZoneSound(adopted) /\ Kept(adopted, scored)
  <2>1. adopted \in ZoneStates
    BY <1>4, LamsOrder, ZenonT(30) DEF ZoneSound, ZoneStates
  <2>2. /\ adopted.health = scored.health /\ adopted.lam = LamOn
        /\ adopted.occupied /\ adopted.activity = scored.activity
        /\ adopted.motion = scored.motion
        /\ adopted.recording = scored.recording
        /\ adopted.attack = scored.attack /\ adopted.since = scored.since
        /\ adopted.stillDom = scored.stillDom
        /\ adopted.moveDom = scored.moveDom
    BY <1>4 DEF ZoneSound, ZoneStates
  <2> HIDE DEF adopted
  <2> QED
    BY <1>4, <1>5, <2>1, <2>2, BeliefAssumption DEF ZoneSound, Latched,
      ClocksExclude, OccupancyRecorded, ChainSound, RecordingPinned, Kept
<1> HIDE DEF adopted
<1>7. \A zst \in {fresh, scored, adopted} :
        ZoneSound(zst) /\ zst.health = health /\ ~zst.motion /\ ~zst.recording
  BY <1>2, <1>4, <1>6 DEF Kept
<1> QED BY <1>1, <1>7

LEMMA InitSound == Init => IInv
<1> SUFFICES ASSUME Init PROVE IInv
  OBVIOUS
<1>1. views \in [Sensors -> ViewStates]
  <2> SUFFICES ASSUME NEW s \in Sensors PROVE views[s] \in ViewStates
    BY DEF Init
  <2>1. MoveViews[s] \subseteq ChannelView /\ StillViews[s] \subseteq ChannelView
    BY EstimatorAssumption
  <2>2. views[s].move \in ChannelView /\ views[s].still \in ChannelView
    BY <2>1 DEF Init
  <2> QED BY <2>2 DEF Init, ViewStates, CounterStates
<1>2. ASSUME NEW z \in Zones
      PROVE  /\ ZoneSound(zones[z]) /\ SensorOf[z] \in Sensors
             /\ ~zones[z].motion /\ ~zones[z].recording
             /\ zones[z].health = "OK" <=> sensors[SensorOf[z]].available
  <2>1. SensorOf[z] \in Sensors
    BY EstimatorAssumption
  <2> QED BY <1>1, <2>1, SeedZoneSound DEF Init
<1>3. timers = NoTimers /\ DOMAIN timers = {} /\ TimersOK(timers)
  BY DEF Init, NoTimers, TimersOK
<1>4. TypeOK
  <2>1. zones \in [Zones -> ZoneStates]
    <3>1. zones = [z \in Zones |-> zones[z]]
      BY DEF Init
    <3> QED BY <1>2, <3>1 DEF ZoneSound
  <2>2. sensors \in [Sensors -> SensorStates]
    <3>1. ObsCap \in 0 .. ObsCap /\ FrameCap \in 0 .. FrameCap
      BY CapTypes
    <3> QED BY <1>1, <3>1 DEF Init, SensorStates, ViewStates
  <2> QED BY <1>1, <1>3, <2>1, <2>2, TypeParts DEF Typed, Init
<1>5. \A z \in Zones : Agrees(z)
  BY <1>2, <1>3 DEF Agrees, Watched, Holding, Recording, Pending, Init
<1> QED BY <1>2, <1>4, <1>5 DEF IInv, Init

LEMMA CallKeeps ==
  ASSUME IInv, NEW dt, Call(dt)
  PROVE  IInv'
<1>1. ASSUME NEW s \in Sensors, NEW fresh \in SUBSET Counters,
             NEW move \in MoveViews[s], NEW still \in StillViews[s],
             Report(s, dt, fresh, move, still)
      PROVE  IInv'
  BY <1>1, ReportKeeps
<1>2. ASSUME NEW s \in Sensors, Outage(s, dt) PROVE IInv'
  BY <1>2, OutageKeeps
<1>3. ASSUME NEW on \in BOOLEAN, SetEnabled(on, dt) PROVE IInv'
  BY <1>3, SetEnabledKeeps
<1>4. ASSUME NEW z \in Zones, RecordBaseline(z, dt) PROVE IInv'
  BY <1>4, RecordBaselineKeeps
<1>5. ASSUME NEW s \in Sensors, StaleTimer(s, dt) PROVE IInv'
  BY <1>5, StaleTimerKeeps
<1>6. ASSUME NEW z \in Zones, MotionOffTimer(z, dt) PROVE IInv'
  BY <1>6, MotionOffTimerKeeps
<1>7. ASSUME NEW z \in Zones, NEW success \in BOOLEAN,
             BaselineEndTimer(z, dt, success)
      PROVE  IInv'
  BY <1>7, BaselineEndTimerKeeps
<1> QED BY <1>1, <1>2, <1>3, <1>4, <1>5, <1>6, <1>7 DEF Call

LEMMA StutterKeeps == IInv /\ UNCHANGED vars => IInv'
BY DEF IInv, vars, TypeOK, Agrees, Watched, Holding, Recording, Pending, Stamped

(* IInv is an inductive invariant of the estimator. *)
THEOREM Inductive == Spec => []IInv
<1>1. IInv /\ [Next]_vars => IInv'
  <2> SUFFICES ASSUME IInv, [Next]_vars PROVE IInv'
    OBVIOUS
  <2>1. ASSUME NEW dt, Tick(dt) PROVE IInv'
    BY <2>1, TickKeeps
  <2>2. ASSUME NEW dt, Start(dt) PROVE IInv'
    BY <2>2, StartKeeps
  <2>3. ASSUME NEW dt, Call(dt) PROVE IInv'
    BY <2>3, CallKeeps
  <2>4. CASE UNCHANGED vars
    BY <2>4, StutterKeeps
  <2> QED BY <2>1, <2>2, <2>3, <2>4 DEF Next
<1> QED BY <1>1, InitSound, PTL DEF Spec

----------------------------------------------------------------------------
(* The properties the runs check, for every instance                       *)

(* Every state is of its type: ages stay within their caps, beliefs within *)
(* their clamps, and only keys of this configuration are ever pending.     *)
THEOREM TypeCorrect == Spec => []TypeOK
<1>1. IInv => TypeOK
  BY DEF IInv
<1> QED BY <1>1, Inductive, PTL

LEMMA HealthWatched == IInv => BlindOrWatched
<1> SUFFICES ASSUME IInv, NEW z \in Zones, NEW y \in ZonesOf(SensorOf[z])
             PROVE  /\ zones[y].health = zones[z].health
                    /\ zones[z].health = "OK" => sensors[SensorOf[z]].available
                    /\ started => (zones[z].health = "OK"
                          <=> SensorStale(SensorOf[z]) \in DOMAIN timers)
  BY DEF BlindOrWatched, IInv, Agrees, Watched, Pending, ZonesOf
<1>1. Watched(z) /\ Watched(y) /\ SensorOf[y] = SensorOf[z]
  BY DEF IInv, Agrees, ZonesOf
<1>2. zones[y].health \in {"OK", "UNKNOWN"} /\ zones[z].health \in {"OK", "UNKNOWN"}
  BY DEF IInv, TypeOK, ZoneStates, ZonesOf
<1> QED BY <1>1, <1>2 DEF Watched, Pending

(* The zones of one sensor are blind together, an unavailable sensor's are *)
(* blind, and from the start on a zone is healthy exactly while a watchdog *)
(* will notice its silence (health.py).                                    *)
THEOREM Watchfulness == Spec => []BlindOrWatched
BY HealthWatched, Inductive, PTL

(* Motion of a healthy zone is on exactly while its hold is pending        *)
(* (filter.py 178-198).                                                    *)
THEOREM MotionIsHeld == Spec => []MotionHeld
<1>1. IInv => MotionHeld
  BY DEF IInv, Agrees, Holding, Pending, MotionHeld
<1> QED BY <1>1, Inductive, PTL

(* A zone records exactly while its window is open, and is pinned to the   *)
(* asserted emptiness all that time (rule 3.3).                            *)
THEOREM CalibrationIsPinned == Spec => []CalibrationPinned
<1>1. IInv => CalibrationPinned
  BY DEF IInv, Agrees, Holding, Recording, Pending, CalibrationPinned,
    ZoneSound, RecordingPinned, OccupancyRecorded
<1> QED BY <1>1, Inductive, PTL

(* The latch and the belief never contradict each other (rule 4.3). *)
THEOREM HysteresisIsKept == Spec => []HysteresisHolds
<1>1. IInv => HysteresisHolds
  BY DEF IInv, ZoneSound, Latched, HysteresisHolds
<1> QED BY <1>1, Inductive, PTL

(* The latch, the activity and the starting time of an occupancy agree     *)
(* from the start on, and the dominance clocks exclude each other (rules   *)
(* 5.1 and 5.4).                                                           *)
THEOREM ActivityIsConsistent == Spec => []ActivityConsistent
<1>1. IInv => ActivityConsistent
  BY DEF IInv, ZoneSound, ClocksExclude, OccupancyRecorded, Stamped,
    ActivityConsistent
<1> QED BY <1>1, Inductive, PTL

(* A confirmation chain lives only in a zone that measures (rule 4.2). *)
THEOREM ChainIsGrounded == Spec => []ChainGrounded
<1>1. IInv => ChainGrounded
  <2>1. NoChain.count = 0
    BY DEF NoChain
  <2> QED
    BY <2>1 DEF IInv, ZoneSound, ChainSound, ChainForm, RecordingPinned,
      Suspended, ChainGrounded
<1> QED BY <1>1, Inductive, PTL

----------------------------------------------------------------------------
(* What a step does to a zone, seen from the advance it begins with        *)

(* An advance occupies a zone on live evidence only, dates what it begins, *)
(* and leaves what a blind zone publishes.                                 *)
LEMMA AdvancedTrace ==
  ASSUME IInv, NEW dt \in Nat, NEW z \in Zones
  PROVE  LET adv == AdvancedZone(z, dt)
             old == zones[z]
         IN  /\ adv.occupied /\ ~old.occupied =>
                  adv.since = 0 /\ LivePositive(old, sensors[SensorOf[z]])
             /\ adv.occupied /\ old.occupied =>
                  /\ adv.since <= old.since + dt
                  /\ adv.since = None <=> old.since = None
             /\ old.health = "UNKNOWN" => Published(adv) = Published(old)
             /\ adv.occupied <=> Switched(old.occupied, adv.lam)
<1> DEFINE old == zones[z]
           sst == sensors[SensorOf[z]]
           adv == AdvancedZone(z, dt)
           aged == Aged(old, dt)
           filtered == AdvanceZone(aged, sst, dt)
<1>1. ZoneSound(old) /\ old.since \in Int
  BY DEF IInv, ZoneSound, ZoneStates, Ages, None
<1>2. CASE dt = 0
  <2>1. adv = old
    BY <1>2 DEF AdvancedZone
  <2>2. old.occupied <=> Switched(old.occupied, old.lam)
    BY <1>1, TurnedSelf DEF Turned
  <2> HIDE DEF adv, old
  <2> QED BY <1>1, <1>2, <2>1, <2>2 DEF adv, old
<1>3. CASE dt # 0
  <2>1. adv = TickZone(filtered)
    BY <1>3 DEF AdvancedZone
  <2>2. sst.moveAge \in Nat /\ sst.stillAge \in Nat
    <3>1. SensorOf[z] \in Sensors
      BY EstimatorAssumption
    <3> QED BY <3>1, CapTypes, TypeParts DEF IInv, Typed, SensorStates
  <2> HIDE DEF adv, old, sst
  <2>3. /\ ZoneSound(aged) /\ Kept(aged, old)
        /\ aged.lam = old.lam /\ aged.occupied = old.occupied
        /\ aged.activity = old.activity
        /\ aged.zMove = old.zMove /\ aged.zStill = old.zStill
        /\ aged.since = None <=> old.since = None
        /\ aged.since <= old.since + dt
    BY <1>1, AgedSame, AgedSound
  <2> HIDE DEF aged
  <2>4. /\ ZoneSound(filtered) /\ Turned(filtered, aged)
        /\ Suspended(aged) => filtered = aged
        /\ Kept(filtered, aged)
    BY <2>2, <2>3, AdvanceZoneSound, AdvanceZoneTurns DEF Observing
  <2>5. filtered.occupied /\ ~aged.occupied => LivePositive(old, sst)
    BY <2>2, <2>3, NoOnset DEF LivePositive, Observing
  <2> HIDE DEF filtered
  <2>6. /\ adv.lam = filtered.lam /\ adv.occupied = filtered.occupied
        /\ adv.since = filtered.since
        /\ filtered.health # "OK" => adv = filtered
        /\ Kept(adv, filtered)
    BY <2>1, <2>4, TickZoneSame, TickZoneSound
  <2>7. adv.occupied /\ ~old.occupied => adv.since = 0 /\ LivePositive(old, sst)
    BY <2>3, <2>4, <2>5, <2>6 DEF Turned
  <2>8. filtered.occupied \in BOOLEAN /\ aged.occupied \in BOOLEAN
    BY <2>3, <2>4 DEF ZoneSound, ZoneStates
  <2>9. adv.occupied /\ old.occupied =>
          /\ adv.since <= old.since + dt
          /\ adv.since = None <=> old.since = None
    BY <2>3, <2>4, <2>6, <2>8 DEF Turned
  <2>10. old.health = "UNKNOWN" => Published(adv) = Published(old)
    <3> SUFFICES ASSUME old.health = "UNKNOWN"
                 PROVE  Published(adv) = Published(old)
      OBVIOUS
    <3>1. Suspended(aged) /\ filtered = aged /\ adv = filtered
      BY <2>3, <2>4, <2>6 DEF Suspended, Kept
    <3> QED BY <2>3, <3>1 DEF Published, Kept
  <2>11. adv.occupied <=> Switched(old.occupied, adv.lam)
    BY <2>3, <2>4, <2>6 DEF Turned
  <2> QED BY <2>7, <2>9, <2>10, <2>11 DEF adv, old, sst
<1> QED BY <1>2, <1>3

(* Beyond its advance a handler occupies a zone only by an attack, vacates *)
(* it only by recording, changes nothing a blind zone publishes unless it  *)
(* records, and moves a belief only to lift it or to void it.              *)
Follows(new, adv, seen) ==
  /\ new.occupied /\ ~adv.occupied => new.since = 0 /\ AttackStands(new, seen)
  /\ adv.occupied /\ ~new.occupied => new.recording
  /\ new.occupied /\ adv.occupied => new.since = adv.since
  /\ new.health = "UNKNOWN" =>
       \/ Published(new) = Published(adv)
       \/ new.recording /\ Published(new) = Published(Pinned(adv))
  /\ \/ new.lam = adv.lam /\ new.occupied = adv.occupied
     \/ new.health = "OK" /\ Lifted(new, adv)
     \/ new.health = adv.health /\ new.lam = LamPrior /\ ~new.occupied

LEMMA SameFollows ==
  ASSUME NEW new, NEW adv, NEW seen, SamePresence(new, adv),
         new.health = "UNKNOWN" => new.motion = adv.motion
  PROVE  Follows(new, adv, seen)
BY DEF SamePresence, Follows, Published

LEMMA PinnedFollows ==
  ASSUME NEW adv, ZoneSound(adv), NEW seen
  PROVE  Follows(Pinned(adv), adv, seen)
<1> DEFINE new == Pinned(adv)
<1>1. /\ new.recording /\ ~new.occupied /\ new.lam = LamPrior
      /\ new.health = adv.health
  BY PinnedSame, PinnedSound
<1> HIDE DEF new
<1>2. Published(new) = Published(Pinned(adv))
  BY DEF new
<1>3. Follows(new, adv, seen)
  BY <1>1, <1>2 DEF Follows
<1> QED BY <1>3 DEF new

LEMMA FramedFollows ==
  ASSUME IInv, NEW dt \in Nat, NEW z \in Zones, NEW fresh,
         NEW move \in ChannelView, NEW still \in ChannelView
  PROVE  Follows(FramedZone(z, dt, fresh, move, still), AdvancedZone(z, dt),
                 move.at[z])
<1> DEFINE adv == AdvancedZone(z, dt)
           recovered == IF "frame" \in fresh
                        THEN [adv EXCEPT !.health = "OK"] ELSE adv
           scored == Ingest(recovered, move.at[z], still.at[z])
           attacked == Attack(scored, move.at[z], "energy" \in fresh)
           motion == \/ MotionEvidence(attacked, move.at[z], move.flag)
                     \/ attacked.motion /\ MotionOff(z) \in DOMAIN timers
           framed == [attacked EXCEPT !.motion = motion]
           new == FramedZone(z, dt, fresh, move, still)
<1>1. ZoneSound(adv)
  BY AdvancedSound
<1>2. new = IF Suspended(scored) THEN scored ELSE framed
  BY DEF FramedZone
<1> HIDE DEF adv, new
<1>3. /\ ZoneSound(recovered) /\ SamePresence(recovered, adv)
      /\ recovered.motion = adv.motion
  <2>1. SamePresence(adv, adv)
    BY DEF SamePresence
  <2> QED BY <1>1, <2>1, RecoveredSound, AssignedSame
<1> HIDE DEF recovered
<1>4. /\ ZoneSound(scored) /\ SamePresence(scored, adv)
      /\ scored.motion = adv.motion
  <2>1. move.at[z].raw \in Int /\ still.at[z].raw \in Int
    BY DEF ChannelView, Reading
  <2>2. /\ ZoneSound(scored) /\ Kept(scored, recovered)
        /\ SamePresence(scored, recovered)
    BY <1>3, <2>1, IngestSound, IngestSame
  <2> QED BY <1>3, <2>2 DEF SamePresence, Kept
<1> HIDE DEF scored
<1>5. CASE Suspended(scored)
  BY <1>2, <1>4, <1>5, SameFollows DEF adv, new
<1>6. CASE ~Suspended(scored)
  <2>1. /\ ZoneSound(attacked) /\ Kept(attacked, scored)
        /\ scored.occupied => attacked.occupied
        /\ attacked.occupied = scored.occupied => attacked.since = scored.since
        /\ attacked.occupied /\ ~scored.occupied =>
             attacked.since = 0 /\ AttackStands(attacked, move.at[z])
        /\ \/ attacked.lam = scored.lam /\ attacked.occupied = scored.occupied
           \/ Lifted(attacked, scored)
    BY <1>4, <1>6, AttackSound, AttackTurns DEF AttackStands
  <2> HIDE DEF attacked
  <2>2. /\ SamePresence(framed, attacked) /\ framed.attack = attacked.attack
        /\ framed.health = attacked.health
    <3>1. framed.health = attacked.health
      BY <2>1 DEF ZoneSound, ZoneStates
    <3> QED BY <2>1, <3>1, AssignedSame
  <2> HIDE DEF framed
  <2>3. framed.health = "OK"
    BY <1>4, <1>6, <2>1, <2>2 DEF Kept, Suspended
  <2>4. attacked.occupied \in BOOLEAN /\ scored.occupied \in BOOLEAN
    BY <1>4, <2>1 DEF ZoneSound, ZoneStates
  <2>5. \/ framed.lam = adv.lam /\ framed.occupied = adv.occupied
        \/ Lifted(framed, adv)
    BY <1>4, <2>1, <2>2 DEF Lifted, SamePresence
  <2>6. Follows(framed, adv, move.at[z])
    BY <1>4, <2>1, <2>2, <2>3, <2>4, <2>5 DEF Follows, SamePresence, AttackStands
  <2> QED BY <1>2, <1>6, <2>6 DEF adv, new
<1> QED BY <1>5, <1>6

(* Time passes in every step alike, and only the start starts. *)
LEMMA StepElapses ==
  ASSUME NEW dt, Tick(dt) \/ Call(dt)
  PROVE  Elapses(dt) /\ started' = started
<1>1. CASE Tick(dt)
  BY <1>1 DEF Tick
<1>2. CASE Call(dt)
  <2>1. ASSUME NEW s, NEW fresh, NEW move, NEW still,
               Report(s, dt, fresh, move, still)
        PROVE  Elapses(dt) /\ started' = started
    BY <2>1 DEF Report
  <2>2. ASSUME NEW s, Outage(s, dt) PROVE Elapses(dt) /\ started' = started
    BY <2>2 DEF Outage
  <2>3. ASSUME NEW on, SetEnabled(on, dt) PROVE Elapses(dt) /\ started' = started
    BY <2>3 DEF SetEnabled
  <2>4. ASSUME NEW z, RecordBaseline(z, dt) PROVE Elapses(dt) /\ started' = started
    BY <2>4 DEF RecordBaseline
  <2>5. ASSUME NEW s, StaleTimer(s, dt) PROVE Elapses(dt) /\ started' = started
    BY <2>5 DEF StaleTimer, Fires
  <2>6. ASSUME NEW z, MotionOffTimer(z, dt) PROVE Elapses(dt) /\ started' = started
    BY <2>6 DEF MotionOffTimer, Fires
  <2>7. ASSUME NEW z, NEW success, BaselineEndTimer(z, dt, success)
        PROVE  Elapses(dt) /\ started' = started
    BY <2>7 DEF BaselineEndTimer, Fires
  <2> QED
    BY <1>2, <2>1, <2>2, <2>3, <2>4, <2>5, <2>6, <2>7, Zenon DEF Call
<1> QED BY <1>1, <1>2

LEMMA StepFollows ==
  ASSUME IInv, NEW dt, Tick(dt) \/ Call(dt), NEW z \in Zones
  PROVE  /\ Follows(zones'[z], AdvancedZone(z, dt),
                    views'[SensorOf[z]].move.at[z])
         /\ PassBy(z) \in events' <=> PassBy(z) \in PassBys(dt)
<1> DEFINE adv == AdvancedZone(z, dt)
           Goal == /\ Follows(zones'[z], adv, views'[SensorOf[z]].move.at[z])
                   /\ PassBy(z) \in events' <=> PassBy(z) \in PassBys(dt)
<1>1. dt \in Nat
  BY StepElapses, ElapsedType
<1>2. ZoneSound(adv) /\ Kept(adv, zones[z]) /\ ZoneSound(zones[z])
  BY <1>1, AdvancedSound DEF IInv
<1>3. SamePresence(adv, adv)
  BY DEF SamePresence
<1>4. ASSUME zones'[z] = adv, events' = PassBys(dt) PROVE Goal
  BY <1>3, <1>4, SameFollows
<1>5. ASSUME Tick(dt) PROVE Goal
  BY <1>4, <1>5 DEF Tick, Advance
<1>6. ASSUME NEW s \in Sensors, NEW fresh \in SUBSET Counters,
             NEW move \in MoveViews[s], NEW still \in StillViews[s],
             Report(s, dt, fresh, move, still)
      PROVE  Goal
  <2>1. events' = PassBys(dt)
    BY <1>6 DEF Report
  <2>2. CASE SensorOf[z] = s
    <3>1. zones'[z] = FramedZone(z, dt, fresh, move, still)
      BY <1>6, <2>2 DEF Report
    <3>2. views'[s].move = move
      BY <1>6, TypeParts DEF Report, IInv, Typed
    <3>3. move \in ChannelView /\ still \in ChannelView
      BY EstimatorAssumption
    <3> QED BY <1>1, <2>1, <2>2, <3>1, <3>2, <3>3, FramedFollows
  <2>3. CASE SensorOf[z] # s
    <3>1. zones'[z] = adv
      BY <1>6, <2>3 DEF Report
    <3> QED BY <1>4, <2>1, <3>1
  <2> QED BY <2>2, <2>3
<1>7. ASSUME NEW s \in Sensors, Outage(s, dt) PROVE Goal
  <2> DEFINE lost == [adv EXCEPT !.health = "UNKNOWN", !.attack = NoChain]
  <2>1. events' = PassBys(dt)
    BY <1>7 DEF Outage
  <2>2. zones'[z] = IF SensorOf[z] = s THEN lost ELSE adv
    BY <1>7 DEF Outage
  <2> HIDE DEF adv
  <2>3. SamePresence(lost, adv) /\ lost.motion = adv.motion
    BY <1>2, AssignedSame, SilencedSound
  <2> HIDE DEF lost
  <2> QED BY <1>4, <2>1, <2>2, <2>3, SameFollows DEF adv
<1>8. ASSUME NEW on \in BOOLEAN, SetEnabled(on, dt) PROVE Goal
  BY <1>4, <1>8 DEF SetEnabled, Advance
<1>9. ASSUME NEW y \in Zones, RecordBaseline(y, dt) PROVE Goal
  <2>1. events' = PassBys(dt)
    BY <1>9 DEF RecordBaseline
  <2>2. zones'[z] = IF z = y THEN Pinned(adv) ELSE adv
    BY <1>9 DEF RecordBaseline, Advance
  <2> HIDE DEF adv
  <2>3. Follows(Pinned(adv), adv, views'[SensorOf[z]].move.at[z])
    BY <1>2, PinnedFollows
  <2> QED BY <1>4, <2>1, <2>2, <2>3 DEF adv
<1>10. ASSUME NEW s \in Sensors, StaleTimer(s, dt) PROVE Goal
  <2> DEFINE health == IF SilenceBlinds(s, Advance(dt)) THEN "UNKNOWN" ELSE adv.health
             silent == [adv EXCEPT !.health = health, !.attack = NoChain]
  <2>1. events' = PassBys(dt)
    BY <1>10 DEF StaleTimer
  <2>2. zones'[z] = IF SensorOf[z] = s THEN silent ELSE adv
    BY <1>10 DEF StaleTimer, Advance
  <2>3. health \in {"OK", "UNKNOWN"}
    BY <1>2 DEF ZoneSound, ZoneStates
  <2> HIDE DEF adv, health
  <2>4. SamePresence(silent, adv) /\ silent.motion = adv.motion
    <3>1. /\ ZoneSound(silent) /\ silent.motion = adv.motion
      BY <1>2, <2>3, SilencedSound
    <3>2. SamePresence(silent, adv)
      BY <1>2, AssignedSame
    <3> QED BY <3>1, <3>2
  <2> HIDE DEF silent
  <2> QED BY <1>4, <2>1, <2>2, <2>4, SameFollows DEF adv
<1>11. ASSUME NEW y \in Zones, MotionOffTimer(y, dt) PROVE Goal
  <2> DEFINE motion == adv.motion /\ zones[z].health # "OK"
             new == [adv EXCEPT !.motion = motion]
  <2>1. events' = PassBys(dt)
    BY <1>11 DEF MotionOffTimer
  <2>2. zones'[z] = IF z = y THEN new ELSE adv
    BY <1>11 DEF MotionOffTimer, Advance
  <2>3. adv.motion \in BOOLEAN /\ adv.health = zones[z].health
    BY <1>2 DEF ZoneSound, ZoneStates, Kept
  <2>4. motion \in BOOLEAN /\ (adv.health = "UNKNOWN" => motion = adv.motion)
    <3>1. CASE zones[z].health # "OK"
      BY <2>3, <3>1, Zenon
    <3>2. CASE zones[z].health = "OK"
      <4>1. motion = FALSE /\ adv.health # "UNKNOWN"
        BY <2>3, <3>2
      <4> QED BY <4>1
    <3> QED BY <3>1, <3>2
  <2> HIDE DEF adv, motion
  <2>5. /\ SamePresence(new, adv) /\ new.motion = motion
        /\ new.health = adv.health
    BY <1>2, AssignedSame DEF ZoneSound, ZoneStates
  <2> HIDE DEF new
  <2>6. Follows(new, adv, views'[SensorOf[z]].move.at[z])
    BY <2>4, <2>5, SameFollows
  <2> QED BY <1>4, <2>1, <2>2, <2>6 DEF adv
<1>12. ASSUME NEW y \in Zones, NEW success \in BOOLEAN,
              BaselineEndTimer(y, dt, success)
       PROVE  Goal
  <2> DEFINE new == [adv EXCEPT !.recording = FALSE]
  <2>1. PassBy(z) \in events' <=> PassBy(z) \in PassBys(dt)
    <3>1. PassBy(z) # BaselineRecorded(y, success)
      <4>1. PassBy(z).kind # BaselineRecorded(y, success).kind
        BY DEF PassBy, BaselineRecorded
      <4> QED BY <4>1
    <3> QED BY <1>12, <3>1 DEF BaselineEndTimer
  <2>2. zones'[z] = IF z = y THEN new ELSE adv
    BY <1>12 DEF BaselineEndTimer, Advance
  <2> HIDE DEF adv
  <2>3. SamePresence(new, adv) /\ new.motion = adv.motion
    BY <1>2, AssignedSame, UnpinnedSound
  <2> HIDE DEF new
  <2> QED BY <1>3, <2>1, <2>2, <2>3, SameFollows DEF adv
<1> HIDE DEF Goal
<1>13. ASSUME Call(dt) PROVE Goal
  BY <1>13, <1>6, <1>7, <1>8, <1>9, <1>10, <1>11, <1>12, Zenon DEF Call
<1>14. Goal
  BY <1>5, <1>13
<1> QED BY <1>14 DEF Goal

----------------------------------------------------------------------------
(* What a step does to the watch over a sensor                             *)

LEMMA AgedFrame ==
  ASSUME TypeOK, NEW dt \in Nat, NEW s \in Sensors
  PROVE  AgedSensors(dt)[s].frameAge <= sensors[s].frameAge + dt
<1>1. sensors[s] \in SensorStates
  BY DEF TypeOK, SensorStates
<1>2. AgedSensors(dt)[s].frameAge = Smaller(sensors[s].frameAge + dt, FrameCap)
  BY <1>1 DEF AgedSensors, SensorStates
<1> QED BY <1>1, <1>2, CapTypes DEF Smaller, SensorStates

(* A pending watchdog was started over a fresh frame or empty zones, or it *)
(* runs on while the last frame grows older.                               *)
Watches(s, dt) ==
  LET key == SensorStale(s)
  IN  key \in DOMAIN timers' =>
        \/ /\ timers'[key] = StaleAfter
           /\ \/ sensors'[s].frameAge = 0
              \/ \A z \in ZonesOf(s) : ~zones'[z].occupied
        \/ /\ key \in DOMAIN timers
           /\ timers'[key] = timers[key] - dt
           /\ sensors'[s].frameAge <= sensors[s].frameAge + dt

LEMMA RunsOn ==
  ASSUME TypeOK, NEW dt \in Nat, NEW s \in Sensors,
         SensorStale(s) \in DOMAIN timers' =>
           /\ SensorStale(s) \in DOMAIN timers
           /\ timers'[SensorStale(s)] = PassTime(timers, dt)[SensorStale(s)],
         sensors'[s].frameAge = AgedSensors(dt)[s].frameAge
  PROVE  Watches(s, dt)
BY AgedFrame DEF Watches, PassTime

LEMMA StepWatches ==
  ASSUME IInv, NEW dt, Tick(dt) \/ Call(dt), NEW s \in Sensors
  PROVE  Watches(s, dt)
<1> DEFINE key == SensorStale(s)
           passed == PassTime(timers, dt)
           aged == AgedSensors(dt)
<1>1. dt \in Nat /\ TypeOK
  BY StepElapses, ElapsedType DEF IInv
<1>2. DOMAIN passed = DOMAIN timers
  BY DEF PassTime
<1>3. /\ aged \in [Sensors -> SensorStates]
  BY <1>1, AgedSensorsType
<1>4. ASSUME timers' = passed, sensors' = aged PROVE Watches(s, dt)
  BY <1>1, <1>2, <1>4, RunsOn
<1>5. ASSUME Tick(dt) PROVE Watches(s, dt)
  BY <1>4, <1>5 DEF Tick
<1>6. ASSUME NEW t \in Sensors, NEW fresh \in SUBSET Counters,
             NEW move \in MoveViews[t], NEW still \in StillViews[t],
             Report(t, dt, fresh, move, still)
      PROVE  Watches(s, dt)
  <2> DEFINE frameAge == IF "frame" \in fresh THEN 0 ELSE aged[t].frameAge
             watched == IF "frame" \in fresh
                        THEN StartTimer(passed, SensorStale(t), StaleAfter)
                        ELSE passed
  <2>1. \A z \in Zones : key # MotionOff(z)
    BY KeysDiffer
  <2>2. \E keys : /\ key \notin keys
                  /\ timers' = StartTimers(watched, keys, MotionHold)
    <3> DEFINE keys == {MotionOff(z) : z \in Moving(t, zones', move)}
    <3>1. timers' = StartTimers(watched, keys, MotionHold)
      BY <1>6 DEF Report
    <3>2. key \notin keys
      BY <2>1 DEF Moving, ZonesOf
    <3> QED BY <3>1, <3>2
  <2>3. /\ key \in DOMAIN timers' <=> key \in DOMAIN watched
        /\ key \in DOMAIN watched => timers'[key] = watched[key]
    BY <2>2 DEF StartTimers
  <2>4. sensors'[s].frameAge = IF s = t THEN frameAge ELSE aged[s].frameAge
    <3> HIDE DEF aged
    <3>1. /\ s # t => sensors'[s] = aged[s]
          /\ sensors'[t].frameAge = frameAge
      BY <1>3, <1>6 DEF Report, SensorStates, aged
    <3> QED BY <3>1
  <2>5. CASE "frame" \in fresh /\ s = t
    <3>1. watched[key] = StaleAfter
      BY <2>5 DEF StartTimer
    <3> QED BY <2>3, <2>4, <2>5, <3>1 DEF Watches
  <2>6. CASE ~("frame" \in fresh /\ s = t)
    <3>1. /\ key \in DOMAIN watched => key \in DOMAIN timers
          /\ key \in DOMAIN watched => watched[key] = passed[key]
      BY <1>2, <2>6, KeysDiffer DEF StartTimer
    <3>2. sensors'[s].frameAge = aged[s].frameAge
      BY <2>4, <2>6
    <3> QED BY <1>1, <2>3, <3>1, <3>2, RunsOn
  <2> QED BY <2>5, <2>6
<1>7. ASSUME NEW t \in Sensors, Outage(t, dt) PROVE Watches(s, dt)
  <2>1. timers' = CancelTimer(passed, SensorStale(t))
    BY <1>7 DEF Outage
  <2>2. sensors'[s].frameAge = aged[s].frameAge
    <3> HIDE DEF aged
    <3> QED BY <1>3, <1>7 DEF Outage, SensorStates, aged
  <2> QED BY <1>1, <1>2, <2>1, <2>2, RunsOn DEF CancelTimer
<1>8. ASSUME NEW on \in BOOLEAN, SetEnabled(on, dt) PROVE Watches(s, dt)
  BY <1>4, <1>8 DEF SetEnabled
<1>9. ASSUME NEW z \in Zones, RecordBaseline(z, dt) PROVE Watches(s, dt)
  <2>1. timers' = StartTimer(CancelTimer(passed, MotionOff(z)),
                             BaselineEnd(z), BaselineDuration)
    BY <1>9 DEF RecordBaseline
  <2>2. key # MotionOff(z) /\ key # BaselineEnd(z)
    BY KeysDiffer
  <2>3. key \in DOMAIN timers' =>
          key \in DOMAIN timers /\ timers'[key] = passed[key]
    BY <1>2, <2>1, <2>2 DEF StartTimer, CancelTimer
  <2>4. sensors'[s].frameAge = aged[s].frameAge
    BY <1>9 DEF RecordBaseline
  <2> QED BY <1>1, <2>3, <2>4, RunsOn
<1>10. ASSUME NEW t \in Sensors, StaleTimer(t, dt) PROVE Watches(s, dt)
  <2> DEFINE blind == SilenceBlinds(t, Advance(dt))
             fired == CancelTimer(passed, SensorStale(t))
  <2>1. timers' = IF blind THEN fired
                  ELSE StartTimer(fired, SensorStale(t), StaleAfter)
    BY <1>10 DEF StaleTimer
  <2>2. sensors'[s].frameAge = aged[s].frameAge
    BY <1>10 DEF StaleTimer
  <2>3. key \in DOMAIN fired =>
          key \in DOMAIN timers /\ fired[key] = passed[key]
    BY <1>2 DEF CancelTimer
  <2>4. CASE ~blind /\ s = t
    <3>1. timers'[key] = StaleAfter
      BY <2>1, <2>4 DEF StartTimer
    <3>2. ASSUME NEW z \in ZonesOf(s) PROVE ~zones'[z].occupied
      <4> DEFINE adv == AdvancedZone(z, dt)
                 health == IF blind THEN "UNKNOWN" ELSE adv.health
                 silent == [adv EXCEPT !.health = health, !.attack = NoChain]
      <4>1. z \in Zones /\ SensorOf[z] = t
        BY <2>4 DEF ZonesOf
      <4>2. zones'[z] = silent
        BY <1>10, <4>1 DEF StaleTimer, Advance
      <4>3. ~adv.occupied
        BY <2>4, <4>1 DEF SilenceBlinds, Advance
      <4>4. ZoneSound(adv)
        BY <1>1, <4>1, AdvancedSound
      <4> HIDE DEF adv, health
      <4>5. SamePresence(silent, adv)
        BY <4>4, AssignedSame
      <4> HIDE DEF silent
      <4> QED BY <4>2, <4>3, <4>5 DEF SamePresence
    <3> QED BY <3>1, <3>2 DEF Watches
  <2>5. CASE blind \/ s # t
    <3>1. key \in DOMAIN timers' =>
            key \in DOMAIN timers /\ timers'[key] = passed[key]
      <4> HIDE DEF fired, passed, blind
      <4> QED BY <2>1, <2>3, <2>5, KeysDiffer DEF StartTimer
    <3> QED BY <1>1, <2>2, <3>1, RunsOn
  <2> QED BY <2>4, <2>5
<1>11. ASSUME NEW z \in Zones, MotionOffTimer(z, dt) PROVE Watches(s, dt)
  <2>1. timers' = CancelTimer(passed, MotionOff(z)) /\ sensors' = aged
    BY <1>11 DEF MotionOffTimer
  <2> QED BY <1>1, <1>2, <2>1, RunsOn DEF CancelTimer
<1>12. ASSUME NEW z \in Zones, NEW success \in BOOLEAN,
              BaselineEndTimer(z, dt, success)
       PROVE  Watches(s, dt)
  <2>1. timers' = CancelTimer(passed, BaselineEnd(z)) /\ sensors' = aged
    BY <1>12 DEF BaselineEndTimer
  <2> QED BY <1>1, <1>2, <2>1, RunsOn DEF CancelTimer
<1>13. ASSUME Call(dt) PROVE Watches(s, dt)
  BY <1>13, <1>6, <1>7, <1>8, <1>9, <1>10, <1>11, <1>12, Zenon DEF Call
<1> QED BY <1>5, <1>13

----------------------------------------------------------------------------
(* The watch, and what holds before the start                              *)

(* A watchdog is within its bounds, and an occupied zone it watches has    *)
(* seen its last frame, or its onset, after the watchdog was started.      *)
Attentive(s) ==
  LET key == SensorStale(s)
  IN  Pending(key) =>
        /\ timers[key] \in -MaxLate .. StaleAfter
        /\ \A z \in ZonesOf(s) :
             zones[z].occupied =>
               \/ sensors[s].frameAge + timers[key] <= StaleAfter
               \/ zones[z].since + timers[key] <= StaleAfter

(* Before the start nothing has been observed yet: only a sensor that saw  *)
(* somebody at the snapshot has an occupied zone, and none knows since     *)
(* when.                                                                   *)
Dormant ==
  ~started =>
    /\ \A s \in Sensors : /\ sensors[s].moveAge = ObsCap
                          /\ sensors[s].stillAge = ObsCap
                          /\ ~Pending(SensorStale(s))
    /\ \A z \in Zones : /\ zones[z].since = None
                        /\ zones[z].health = "UNKNOWN" => ~zones[z].occupied

Vigilant == IInv /\ (\A s \in Sensors : Attentive(s)) /\ Dormant

LEMMA StepAttentive ==
  ASSUME Vigilant, NEW dt, Tick(dt) \/ Call(dt), NEW s \in Sensors
  PROVE  Attentive(s)'
<1> DEFINE key == SensorStale(s)
<1>1. dt \in Nat /\ IInv /\ MayPass(timers, dt)
  BY StepElapses, ElapsedType DEF Vigilant, Elapses
<1>2. SUFFICES ASSUME Pending(key)'
               PROVE  /\ timers'[key] \in -MaxLate .. StaleAfter
                      /\ \A z \in ZonesOf(s) :
                           zones'[z].occupied =>
                             \/ sensors'[s].frameAge + timers'[key] <= StaleAfter
                             \/ zones'[z].since + timers'[key] <= StaleAfter
  BY DEF Attentive
<1>3. Watches(s, dt)
  BY <1>1, StepWatches
<1>4. StaleAfter \in Nat /\ MaxLate \in Nat
  BY EstimatorAssumption, TimersAssumption
<1>5. CASE /\ timers'[key] = StaleAfter
           /\ \/ sensors'[s].frameAge = 0
              \/ \A z \in ZonesOf(s) : ~zones'[z].occupied
  BY <1>4, <1>5
<1>6. CASE /\ key \in DOMAIN timers /\ timers'[key] = timers[key] - dt
           /\ sensors'[s].frameAge <= sensors[s].frameAge + dt
  <2> DEFINE left == timers[key]
             age == sensors[s].frameAge
  <2>1. /\ left \in -MaxLate .. StaleAfter
        /\ \A z \in ZonesOf(s) :
             zones[z].occupied =>
               age + left <= StaleAfter \/ zones[z].since + left <= StaleAfter
    BY <1>6 DEF Vigilant, Attentive, Pending
  <2>2. dt <= left + MaxLate
    BY <1>1, <1>6 DEF MayPass
  <2>3. age \in Int /\ sensors'[s].frameAge \in Int
    <3>1. TypeOK /\ TypeOK'
      <4>1. IInv'
        BY <1>1, TickKeeps, CallKeeps
      <4> QED BY <1>1, <4>1 DEF IInv
    <3> QED BY <3>1, TypeParts DEF Typed, SensorStates
  <2>4. ASSUME NEW z \in ZonesOf(s), zones'[z].occupied
        PROVE  \/ sensors'[s].frameAge + (left - dt) <= StaleAfter
               \/ zones'[z].since + (left - dt) <= StaleAfter
    <3> DEFINE adv == AdvancedZone(z, dt)
               since == zones[z].since
    <3>1. z \in Zones
      BY DEF ZonesOf
    <3>2. Follows(zones'[z], adv, views'[SensorOf[z]].move.at[z])
      BY <1>1, <3>1, StepFollows
    <3>3. /\ adv.occupied /\ ~zones[z].occupied => adv.since = 0
          /\ adv.occupied /\ zones[z].occupied => adv.since <= since + dt
      BY <1>1, <3>1, AdvancedTrace
    <3>4. /\ since \in Int /\ adv.since \in Int
      <4>1. ZoneSound(zones[z]) /\ ZoneSound(adv)
        BY <1>1, <3>1, AdvancedSound DEF IInv
      <4> QED BY <4>1 DEF ZoneSound, ZoneStates, Ages, None
    <3> HIDE DEF adv, since
    <3>5. \/ zones'[z].since = 0
          \/ /\ zones[z].occupied /\ zones'[z].since = adv.since
             /\ adv.since <= since + dt
      BY <2>4, <3>2, <3>3 DEF Follows
    <3>6. CASE zones'[z].since = 0
      BY <1>1, <1>4, <2>1, <3>6
    <3>7. CASE /\ zones[z].occupied /\ zones'[z].since = adv.since
               /\ adv.since <= since + dt
      <4>1. age + left <= StaleAfter \/ since + left <= StaleAfter
        BY <2>1, <3>7 DEF since
      <4> HIDE DEF left, age
      <4>2. left \in Int
        BY <1>4, <2>1
      <4> QED BY <1>1, <1>4, <1>6, <2>3, <3>4, <3>7, <4>1, <4>2 DEF age
    <3> QED BY <3>5, <3>6, <3>7
  <2> QED BY <1>1, <1>4, <1>6, <2>1, <2>2, <2>4
<1> QED BY <1>2, <1>3, <1>5, <1>6 DEF Watches, Pending

LEMMA StartAttentive ==
  ASSUME Vigilant, NEW dt, Start(dt), NEW s \in Sensors
  PROVE  Attentive(s)'
<1> DEFINE key == SensorStale(s)
           watching == {SensorStale(t) : t \in {r \in Sensors : sensors[r].available}}
<1>1. dt \in Nat /\ IInv /\ ~started /\ IInv'
  BY ElapsedType, StartKeeps DEF Vigilant, Start
<1>2. SUFFICES ASSUME Pending(key)' PROVE Attentive(s)'
  BY DEF Attentive
<1>3. timers' = StartTimers(PassTime(timers, dt), watching, StaleAfter)
  BY DEF Start
<1>4. CASE key \in watching
  <2>1. timers'[key] = StaleAfter
    BY <1>3, <1>4 DEF StartTimers
  <2>2. sensors'[s].frameAge = 0
    <3>1. sensors[s].available
      BY <1>4, KeysDiffer
    <3>2. AgedSensors(dt)[s] \in SensorStates
      BY <1>1, AgedSensorsType DEF IInv
    <3>3. sensors'[s] = [AgedSensors(dt)[s] EXCEPT !.frameAge = 0]
      BY <3>1 DEF Start
    <3> QED BY <3>2, <3>3 DEF SensorStates
  <2>3. StaleAfter \in Nat /\ MaxLate \in Nat
    BY EstimatorAssumption, TimersAssumption
  <2> QED BY <2>1, <2>2, <2>3 DEF Attentive
<1>5. CASE key \notin watching
  <2>1. Pending(key)
    BY <1>2, <1>3, <1>5 DEF Pending, StartTimers, PassTime
  <2> QED BY <1>1, <2>1 DEF Vigilant, Dormant
<1> QED BY <1>4, <1>5

LEMMA StartDormant == ASSUME NEW dt, Start(dt) PROVE Dormant'
BY DEF Start, Dormant

(* Before the start only the commands and their timers run. *)
LEMMA DormantStep ==
  ASSUME Vigilant, ~started, NEW dt, Tick(dt) \/ Call(dt)
  PROVE  /\ ~started' /\ sensors' = AgedSensors(dt)
         /\ \A s \in Sensors : ~Pending(SensorStale(s))'
         /\ \A z \in Zones : zones'[z].occupied => AdvancedZone(z, dt).occupied
<1> DEFINE Goal == /\ ~started' /\ sensors' = AgedSensors(dt)
                   /\ \A s \in Sensors : ~Pending(SensorStale(s))'
                   /\ \A z \in Zones :
                        zones'[z].occupied => AdvancedZone(z, dt).occupied
<1>1. /\ IInv /\ dt \in Nat
      /\ \A s \in Sensors : SensorStale(s) \notin DOMAIN timers
  BY StepElapses, ElapsedType DEF Vigilant, Dormant, Pending
<1>2. \A z \in Zones : ZoneSound(AdvancedZone(z, dt))
  BY <1>1, AdvancedSound
<1>3. ASSUME NEW on \in BOOLEAN, SetEnabled(on, dt) PROVE Goal
  BY <1>1, <1>3 DEF SetEnabled, PassTime, Pending, Advance
<1>4. ASSUME NEW y \in Zones, RecordBaseline(y, dt) PROVE Goal
  <2>1. \A z \in Zones : zones'[z] = IF z = y THEN Pinned(AdvancedZone(z, dt))
                                     ELSE AdvancedZone(z, dt)
    BY <1>4 DEF RecordBaseline, Advance
  <2>2. ~Pinned(AdvancedZone(y, dt)).occupied
    BY <1>2, PinnedSame
  <2>3. \A s \in Sensors : ~Pending(SensorStale(s))'
    <3>1. timers' = StartTimer(CancelTimer(PassTime(timers, dt), MotionOff(y)),
                               BaselineEnd(y), BaselineDuration)
      BY <1>4 DEF RecordBaseline
    <3> QED
      BY <1>1, <3>1, KeysDiffer DEF PassTime, StartTimer, CancelTimer, Pending
  <2> QED BY <1>4, <2>1, <2>2, <2>3 DEF RecordBaseline
<1>5. ASSUME NEW y \in Zones, MotionOffTimer(y, dt) PROVE Goal
  <2> DEFINE motion == AdvancedZone(y, dt).motion /\ zones[y].health # "OK"
             new == [AdvancedZone(y, dt) EXCEPT !.motion = motion]
  <2>1. \A z \in Zones : zones'[z] = IF z = y THEN new ELSE AdvancedZone(z, dt)
    BY <1>5 DEF MotionOffTimer, Advance
  <2> HIDE DEF motion
  <2>2. new.occupied = AdvancedZone(y, dt).occupied
    BY <1>2, AssignedSame DEF SamePresence
  <2> HIDE DEF new
  <2>3. \A s \in Sensors : ~Pending(SensorStale(s))'
    BY <1>1, <1>5 DEF MotionOffTimer, PassTime, CancelTimer, Pending
  <2> QED BY <1>5, <2>1, <2>2, <2>3 DEF MotionOffTimer
<1>6. ASSUME NEW y \in Zones, NEW success \in BOOLEAN,
             BaselineEndTimer(y, dt, success)
      PROVE  Goal
  <2> DEFINE new == [AdvancedZone(y, dt) EXCEPT !.recording = FALSE]
  <2>1. \A z \in Zones : zones'[z] = IF z = y THEN new ELSE AdvancedZone(z, dt)
    BY <1>6 DEF BaselineEndTimer, Advance
  <2>2. new.occupied = AdvancedZone(y, dt).occupied
    BY <1>2, AssignedSame DEF SamePresence
  <2> HIDE DEF new
  <2>3. \A s \in Sensors : ~Pending(SensorStale(s))'
    BY <1>1, <1>6 DEF BaselineEndTimer, PassTime, CancelTimer, Pending
  <2> QED BY <1>6, <2>1, <2>2, <2>3 DEF BaselineEndTimer
<1>7. ~Tick(dt)
  BY DEF Tick
<1>8. ASSUME NEW s \in Sensors, NEW fresh, NEW move, NEW still
      PROVE  ~Report(s, dt, fresh, move, still) /\ ~Outage(s, dt)
  BY DEF Report, Outage
<1>9. ASSUME NEW s \in Sensors PROVE ~StaleTimer(s, dt)
  BY <1>1 DEF StaleTimer, Fires, MayFire
<1> HIDE DEF Goal
<1>10. Goal
  BY <1>3, <1>4, <1>5, <1>6, <1>7, <1>8, <1>9, Zenon DEF Call
<1> QED BY <1>10 DEF Goal

LEMMA StepDormant ==
  ASSUME Vigilant, NEW dt, Tick(dt) \/ Call(dt)
  PROVE  Dormant'
<1>1. started' = started
  BY StepElapses
<1>2. SUFFICES ASSUME ~started PROVE Dormant'
  BY <1>1 DEF Dormant
<1>3. IInv /\ IInv' /\ dt \in Nat
  BY TickKeeps, CallKeeps, StepElapses, ElapsedType DEF Vigilant
<1>4. ASSUME NEW s \in Sensors
      PROVE  /\ sensors'[s].moveAge = ObsCap /\ sensors'[s].stillAge = ObsCap
             /\ ~Pending(SensorStale(s))'
             /\ sensors'[s].available = sensors[s].available
  <2>1. /\ sensors[s].moveAge = ObsCap /\ sensors[s].stillAge = ObsCap
        /\ sensors[s] \in SensorStates
    BY <1>2, <1>3, TypeParts DEF Vigilant, Dormant, IInv, Typed
  <2>2. Smaller(ObsCap + dt, ObsCap) = ObsCap
    BY <1>3, CapTypes DEF Smaller
  <2>3. sensors' = AgedSensors(dt) /\ ~Pending(SensorStale(s))'
    BY <1>2, DormantStep
  <2>4. sensors'[s].moveAge = ObsCap /\ sensors'[s].stillAge = ObsCap
    BY <2>1, <2>2, <2>3 DEF AgedSensors, SensorStates
  <2>5. sensors'[s].available = sensors[s].available
    BY <1>3, <2>3, AgedSensorsType DEF IInv
  <2> QED BY <2>3, <2>4, <2>5
<1>5. ASSUME NEW z \in Zones
      PROVE  /\ zones'[z].since = None
             /\ zones'[z].health = "UNKNOWN" => ~zones'[z].occupied
  <2> DEFINE adv == AdvancedZone(z, dt)
             sst == sensors[SensorOf[z]]
  <2>1. SensorOf[z] \in Sensors
    BY EstimatorAssumption
  <2>2. /\ adv.occupied /\ ~zones[z].occupied => LivePositive(zones[z], sst)
        /\ adv.occupied /\ zones[z].occupied =>
             (adv.since = None <=> zones[z].since = None)
    BY <1>3, AdvancedTrace
  <2>3. ~LivePositive(zones[z], sst)
    <3>1. sst.moveAge = ObsCap /\ sst.stillAge = ObsCap
      BY <1>2, <2>1 DEF Vigilant, Dormant
    <3>2. ~(ObsCap < ObsBudget)
      BY ZoneFilterAssumption DEF ObsCap, Larger
    <3> QED BY <3>1, <3>2 DEF LivePositive
  <2>4. /\ zones[z].since = None
        /\ zones[z].health = "UNKNOWN" => ~zones[z].occupied
    BY <1>2 DEF Vigilant, Dormant
  <2>5. zones'[z].occupied => /\ zones[z].occupied
                              /\ adv.occupied /\ adv.since = None
                              /\ zones'[z].since = adv.since
    <3>1. zones'[z].occupied => adv.occupied
      BY <1>2, DormantStep
    <3>2. Follows(zones'[z], adv, views'[SensorOf[z]].move.at[z])
      BY <1>3, StepFollows
    <3> QED BY <2>2, <2>3, <2>4, <3>1, <3>2 DEF Follows
  <2>6. ZoneSound(zones'[z]) /\ Watched(z) /\ Watched(z)' /\ ZoneSound(zones[z])
    BY <1>3 DEF IInv, Agrees
  <2>7. zones'[z].since = None
    BY <2>5, <2>6 DEF ZoneSound, OccupancyRecorded
  <2>8. zones'[z].health = zones[z].health
    <3>1. /\ zones'[z].health \in {"OK", "UNKNOWN"}
          /\ zones[z].health \in {"OK", "UNKNOWN"}
      BY <2>6 DEF ZoneSound, ZoneStates
    <3> QED BY <1>1, <1>2, <1>4, <2>1, <2>6, <3>1 DEF Watched
  <2> QED BY <2>4, <2>5, <2>7, <2>8
<1> QED BY <1>4, <1>5 DEF Dormant

LEMMA InitVigilant == Init => Vigilant
<1> SUFFICES ASSUME Init PROVE Vigilant
  OBVIOUS
<1>1. IInv
  BY InitSound
<1>2. \A s \in Sensors : ~Pending(SensorStale(s))
  BY DEF Init, NoTimers, Pending
<1>3. ASSUME NEW z \in Zones
      PROVE  /\ zones[z].since = None
             /\ zones[z].health = "UNKNOWN" => ~zones[z].occupied
  <2>1. SensorOf[z] \in Sensors
    BY EstimatorAssumption
  <2> DEFINE view == views[SensorOf[z]]
             health == IF view.available THEN "OK" ELSE "UNKNOWN"
             fresh == [health |-> health, lam |-> LamPrior, occupied |-> FALSE,
                       activity |-> "EMPTY", motion |-> FALSE,
                       recording |-> FALSE, zMove |-> 0, zStill |-> 0,
                       attack |-> NoChain, since |-> None,
                       stillDom |-> None, moveDom |-> None]
             zMove == Centered(RawStatistic(Snapshot(view.move).at[z]))
             zStill == Centered(RawStatistic(Snapshot(view.still).at[z]))
             scored == [fresh EXCEPT !.zMove = zMove, !.zStill = zStill]
             adopted == [scored EXCEPT !.lam = LamOn, !.occupied = TRUE]
  <2>2. zones[z] = SeedZone(view, z)
    BY DEF Init
  <2>3. \/ zones[z] = fresh
        \/ view.available /\ zones[z] \in {scored, adopted}
    BY <2>2 DEF SeedZone, Ingest
  <2> HIDE DEF zMove, zStill, view
  <2>4. CASE zones[z] = fresh
    BY <2>4
  <2>5. CASE view.available /\ zones[z] \in {scored, adopted}
    <3>1. /\ scored.since = None /\ scored.health = health
          /\ adopted.since = None /\ adopted.health = health
      OBVIOUS
    <3>2. health = "OK"
      BY <2>5
    <3> HIDE DEF scored, adopted, health
    <3> QED BY <2>5, <3>1, <3>2
  <2> QED BY <2>3, <2>4, <2>5
<1>4. Dormant
  BY <1>2, <1>3 DEF Dormant, Init
<1> QED BY <1>1, <1>2, <1>4 DEF Vigilant, Attentive

LEMMA StutterVigilant == Vigilant /\ UNCHANGED vars => Vigilant'
BY StutterKeeps DEF Vigilant, Attentive, Dormant, Pending, vars

(* With somebody in a zone, the last measured frame or the zone's onset is *)
(* no older than the running watchdog, and before the start nobody has been *)
(* measured: with IInv this is inductive (health.py 20-43, 70-87).         *)
THEOREM VigilantInductive == Spec => []Vigilant
<1>1. Vigilant /\ [Next]_vars => Vigilant'
  <2> SUFFICES ASSUME Vigilant, [Next]_vars PROVE Vigilant'
    OBVIOUS
  <2>1. ASSUME NEW dt, Tick(dt) \/ Call(dt) PROVE Vigilant'
    BY <2>1, TickKeeps, CallKeeps, StepAttentive, StepDormant DEF Vigilant
  <2>2. ASSUME NEW dt, Start(dt) PROVE Vigilant'
    BY <2>2, StartKeeps, StartAttentive, StartDormant DEF Vigilant
  <2>3. CASE UNCHANGED vars
    BY <2>3, StutterVigilant
  <2> QED BY <2>1, <2>2, <2>3 DEF Next
<1> QED BY <1>1, InitVigilant, PTL DEF Spec

----------------------------------------------------------------------------
(* Silence is noticed                                                      *)

(* A healthy zone is never occupied for longer than a late watchdog takes  *)
(* without a measured frame, whatever is reported, lost or commanded in    *)
(* between (health.py 70-87), where t_dwell is longer than that.           *)
THEOREM SilenceIsNoticed == Spec => []SilenceNoticed
<1>1. Vigilant => SilenceNoticed
  <2> SUFFICES ASSUME Vigilant, NEW z \in Zones, started,
                      zones[z].health = "OK", zones[z].occupied
               PROVE  \/ sensors[SensorOf[z]].frameAge <= StaleAfter + MaxLate
                      \/ zones[z].since <= StaleAfter + MaxLate
    BY DEF SilenceNoticed
  <2> DEFINE s == SensorOf[z]
             left == timers[SensorStale(s)]
  <2>1. s \in Sensors /\ z \in ZonesOf(s) /\ Pending(SensorStale(s))
    BY EstimatorAssumption DEF Vigilant, IInv, Agrees, Watched, ZonesOf
  <2>2. /\ left \in -MaxLate .. StaleAfter
        /\ \/ sensors[s].frameAge + left <= StaleAfter
           \/ zones[z].since + left <= StaleAfter
    BY <2>1 DEF Vigilant, Attentive
  <2>3. sensors[s].frameAge \in Int /\ zones[z].since \in Int
    <3>1. sensors[s] \in SensorStates /\ zones[z] \in ZoneStates
      BY <2>1, TypeParts DEF Vigilant, IInv, Typed
    <3> QED BY <3>1 DEF SensorStates, ZoneStates, Ages, None
  <2> HIDE DEF left
  <2> QED BY <2>2, <2>3, EstimatorAssumption, TimersAssumption
<1> QED BY <1>1, VigilantInductive, PTL

----------------------------------------------------------------------------
(* What a step may never do                                                *)

LEMMA FreezesBlindStep == Vigilant /\ [Next]_vars => [FreezesBlind]_vars
<1> SUFFICES ASSUME Vigilant, [Next]_vars, ~UNCHANGED vars,
                    NEW z \in Zones, zones[z].health = "UNKNOWN",
                    zones'[z].health = "UNKNOWN"
             PROVE  \/ Published(zones'[z]) = Published(zones[z])
                    \/ zones'[z].recording
                         /\ Published(zones'[z]) = Published(Pinned(zones[z]))
  BY DEF FreezesBlind
<1>1. ASSUME NEW dt, Tick(dt) \/ Call(dt)
      PROVE  \/ Published(zones'[z]) = Published(zones[z])
             \/ zones'[z].recording
                  /\ Published(zones'[z]) = Published(Pinned(zones[z]))
  <2> DEFINE adv == AdvancedZone(z, dt)
  <2>1. IInv /\ dt \in Nat
    BY <1>1, StepElapses, ElapsedType DEF Vigilant
  <2>2. Follows(zones'[z], adv, views'[SensorOf[z]].move.at[z])
    BY <1>1, <2>1, StepFollows
  <2>3. Published(adv) = Published(zones[z])
    BY <2>1, AdvancedTrace
  <2>4. Published(Pinned(adv)) = Published(Pinned(zones[z]))
    <3>1. ZoneSound(adv) /\ ZoneSound(zones[z])
      BY <2>1, AdvancedSound DEF IInv
    <3> HIDE DEF adv
    <3> QED BY <3>1, PinnedSame DEF Published
  <2> QED BY <2>2, <2>3, <2>4 DEF Follows
<1>2. ASSUME NEW dt, Start(dt)
      PROVE  Published(zones'[z]) = Published(zones[z])
  <2>1. dt \in Nat /\ ~started /\ ZoneSound(zones[z])
    BY <1>2, ElapsedType DEF Start, Vigilant, IInv
  <2>2. ~zones[z].occupied
    BY <2>1 DEF Vigilant, Dormant
  <2>3. zones'[z] = Aged(zones[z], dt)
    BY <1>2, <2>2 DEF Start
  <2>4. /\ zones'[z].lam = zones[z].lam /\ zones'[z].occupied = zones[z].occupied
        /\ zones'[z].activity = zones[z].activity
        /\ zones'[z].since = None <=> zones[z].since = None
        /\ zones'[z].motion = zones[z].motion
    BY <2>1, <2>3, AgedSame, AgedSound DEF Kept
  <2> QED BY <2>4 DEF Published
<1> QED BY <1>1, <1>2 DEF Next

(* While a zone stays blind its outputs keep what they last published,     *)
(* whatever time passes and whatever is reported or commanded elsewhere    *)
(* (rule 1.3).                                                             *)
THEOREM BlindZonesAreFrozen == Spec => BlindZonesFreeze
BY FreezesBlindStep, VigilantInductive, PTL DEF Spec, BlindZonesFreeze

LEMMA OccupiesStep == Vigilant /\ [Next]_vars => [OccupiesOnEvidence]_vars
<1> SUFFICES ASSUME Vigilant, [Next]_vars, ~UNCHANGED vars,
                    NEW z \in Zones, ~zones[z].occupied, zones'[z].occupied
             PROVE  \/ LivePositive(zones[z], sensors[SensorOf[z]])
                    \/ AttackStands(zones'[z], views'[SensorOf[z]].move.at[z])
  BY DEF OccupiesOnEvidence
<1>1. ASSUME NEW dt, Tick(dt) \/ Call(dt)
      PROVE  \/ LivePositive(zones[z], sensors[SensorOf[z]])
             \/ AttackStands(zones'[z], views'[SensorOf[z]].move.at[z])
  <2> DEFINE adv == AdvancedZone(z, dt)
  <2>1. IInv /\ dt \in Nat
    BY <1>1, StepElapses, ElapsedType DEF Vigilant
  <2>2. Follows(zones'[z], adv, views'[SensorOf[z]].move.at[z])
    BY <1>1, <2>1, StepFollows
  <2>3. adv.occupied => LivePositive(zones[z], sensors[SensorOf[z]])
    BY <2>1, AdvancedTrace
  <2> QED BY <2>2, <2>3 DEF Follows
<1>2. ASSUME NEW dt, Start(dt) PROVE FALSE
  <2>1. dt \in Nat /\ ZoneSound(zones[z])
    BY <1>2, ElapsedType DEF Start, Vigilant, IInv
  <2>2. zones'[z] = Aged(zones[z], dt)
    BY <1>2 DEF Start
  <2> QED BY <2>1, <2>2, AgedSame
<1> QED BY <1>1, <1>2 DEF Next

(* Occupancy begins on evidence that is live, or by a candidate of a       *)
(* confirmed attack that this very report shows (rules 3.8 and 4.2).       *)
THEOREM OnsetIsJustified == Spec => OnsetJustified
BY OccupiesStep, VigilantInductive, PTL DEF Spec, OnsetJustified

LEMMA AnnouncesStep == Vigilant /\ [Next]_vars => [AnnouncesTraversals]_vars
<1> SUFFICES ASSUME Vigilant, [Next]_vars, ~UNCHANGED vars
             PROVE  AnnouncesTraversals
  OBVIOUS
<1>1. ASSUME NEW dt, Tick(dt) \/ Call(dt)
      PROVE  AnnouncesTraversals
  <2> SUFFICES
        ASSUME NEW z \in Zones
        PROVE  LET passing == /\ zones[z].occupied
                              /\ zones[z].activity = "PASSING" /\ started
                   departed == ~zones'[z].occupied
               IN  /\ passing /\ enabled /\ departed /\ ~zones'[z].recording
                        => PassBy(z) \in events'
                   /\ PassBy(z) \in events'
                        => /\ passing /\ enabled /\ zones[z].health = "OK"
                           /\ departed \/ zones'[z].since = 0
    BY DEF AnnouncesTraversals
  <2> DEFINE adv == AdvancedZone(z, dt)
             old == zones[z]
             new == zones'[z]
  <2>1. IInv /\ dt \in Nat
    BY <1>1, StepElapses, ElapsedType DEF Vigilant
  <2>2. /\ Follows(new, adv, views'[SensorOf[z]].move.at[z])
        /\ PassBy(z) \in events' <=> PassBy(z) \in PassBys(dt)
    BY <1>1, <2>1, StepFollows
  <2>3. PassBy(z) \in PassBys(dt) <=> enabled /\ PassesBy(old, adv)
    <3>1. \A y \in Zones : PassBy(y) = PassBy(z) => y = z
      BY DEF PassBy
    <3> QED BY <3>1 DEF PassBys
  <2>4. /\ old.occupied /\ started => old.since # None
        /\ old.since # None => started
        /\ old.health = "UNKNOWN" => adv.occupied = old.occupied
        /\ old.health \in {"OK", "UNKNOWN"}
    <3>1. old.since # None => started
      BY DEF Vigilant, Dormant
    <3>2. old.occupied /\ started => old.since # None
      BY <2>1 DEF IInv, Stamped
    <3>3. old.health = "UNKNOWN" => adv.occupied = old.occupied
      BY <2>1, AdvancedTrace DEF Published
    <3> QED BY <2>1, <3>1, <3>2, <3>3 DEF IInv, ZoneSound, ZoneStates
  <2> HIDE DEF adv, old, new
  <2> DEFINE passing == old.occupied /\ old.activity = "PASSING" /\ started
  <2>5. /\ passing /\ ~new.occupied /\ ~new.recording => PassesBy(old, adv)
        /\ PassesBy(old, adv) => /\ passing /\ old.health = "OK"
                                 /\ ~new.occupied \/ new.since = 0
    BY <2>2, <2>4 DEF Follows, PassesBy
  <2> QED BY <2>2, <2>3, <2>5 DEF old, new
<1>2. ASSUME NEW dt, Start(dt) PROVE AnnouncesTraversals
  BY <1>2 DEF Start, AnnouncesTraversals
<1> QED BY <1>1, <1>2 DEF Next

(* Every traversal that ends while enabled is announced, and nothing else  *)
(* is (rules 5.2 and 7.2).                                                 *)
THEOREM PassByIsExact == Spec => PassByExact
BY AnnouncesStep, VigilantInductive, PTL DEF Spec, PassByExact

----------------------------------------------------------------------------
(* How often the engine is called                                          *)

LEMMA WindowsCapped == ObsBudget <= ObsCap /\ ObsHold <= ObsCap
BY ZoneFilterAssumption DEF ObsCap, Larger

(* An age saturates only where the evidence has been silent for long. *)
LEMMA TermSaturates ==
  ASSUME NEW score, NEW k, NEW age \in Nat, NEW d \in Nat, NEW n \in Nat \ {0}
  PROVE  ChannelTerm(score, k, Smaller(age + d, ObsCap) + n)
           = ChannelTerm(score, k, age + (d + n))
<1> DEFINE window == IF score - KBias > 0 THEN ObsBudget ELSE ObsHold
<1>1. window \in Nat /\ window <= ObsCap /\ ObsCap \in Nat
  BY WindowsCapped, ZoneFilterAssumption, CapTypes
<1>2. Smaller(age + d, ObsCap) + n <= window <=> age + (d + n) <= window
  <2> HIDE DEF window
  <2> QED BY <1>1 DEF Smaller
<1> HIDE DEF window
<1>3. \A a : ChannelTerm(score, k, a) = IF a <= window THEN k * (score - KBias) ELSE 0
  BY DEF ChannelTerm, window
<1> QED BY <1>2, <1>3

(* While nothing expires the evidence in force does not change. *)
LEMMA TermSteady ==
  ASSUME NEW score, NEW k, NEW age \in Nat, NEW dt \in Nat, NEW n \in 1 .. dt,
         \A window \in {ObsBudget, ObsHold} : ~(age <= window /\ window < age + dt)
  PROVE  ChannelTerm(score, k, age + n) = ChannelTerm(score, k, age + 1)
<1> DEFINE window == IF score - KBias > 0 THEN ObsBudget ELSE ObsHold
<1>1. window \in Nat /\ ~(age <= window /\ window < age + dt)
  BY ZoneFilterAssumption
<1> HIDE DEF window
<1>2. age + n <= window <=> age + 1 <= window
  BY <1>1
<1>3. \A a : ChannelTerm(score, k, a) = IF a <= window THEN k * (score - KBias) ELSE 0
  BY DEF ChannelTerm, window
<1> QED BY <1>2, <1>3

LEMMA SteadyRates ==
  ASSUME NEW zst, ZoneSound(zst), NEW sst \in SensorStates, NEW dt \in Nat,
         ~Expires(sst, dt)
  PROVE  \E v \in Int : \A n \in 1 .. dt : Rates(zst, sst)[n] = v
<1> DEFINE v == EvidenceRate(zst, sst.moveAge + 1, sst.stillAge + 1)
<1>1. /\ sst.moveAge \in Nat /\ sst.stillAge \in Nat
      /\ zst \in ZoneStates
  BY CapTypes DEF SensorStates, ZoneSound
<1>2. v \in Int
  <2>1. sst.moveAge + 1 \in Int /\ sst.stillAge + 1 \in Int
    BY <1>1
  <2> QED BY <1>1, <2>1, RateType
<1>3. ASSUME NEW n \in 1 .. dt PROVE Rates(zst, sst)[n] = v
  <2>1. \A age \in {sst.moveAge, sst.stillAge}, window \in {ObsBudget, ObsHold} :
          ~(age <= window /\ window < age + dt)
    BY DEF Expires
  <2>2. /\ ChannelTerm(zst.zMove, KMove, sst.moveAge + n)
             = ChannelTerm(zst.zMove, KMove, sst.moveAge + 1)
        /\ ChannelTerm(zst.zStill, KStill, sst.stillAge + n)
             = ChannelTerm(zst.zStill, KStill, sst.stillAge + 1)
    BY <1>1, <2>1, TermSteady
  <2> QED BY <2>2 DEF Rates, EvidenceRate
<1> HIDE DEF v
<1> QED BY <1>2, <1>3

(* A belief that crosses a threshold under a steady rate stays across it.  *)
LEMMA SteadyLatch ==
  ASSUME NEW lam \in Int, NEW mid \in Int, NEW last \in Int, NEW goal \in Int,
         mid \in Between(lam, goal), last \in Between(mid, goal),
         NEW occupied, IF occupied THEN lam > LamOff ELSE lam < LamOn
  PROVE  Switched(Switched(occupied, mid), last) <=> Switched(occupied, last)
<1>1. LamOn \in Int /\ LamOff \in Int /\ LamOff < LamOn
  BY BeliefAssumption
<1>2. CASE occupied
  BY <1>1, <1>2 DEF Between, Switched
<1>3. CASE ~occupied
  BY <1>1, <1>3 DEF Between, Switched
<1> QED BY <1>2, <1>3

LEMMA AdvanceTwice ==
  ASSUME NEW zst, ZoneSound(zst), NEW sst \in SensorStates,
         NEW d1 \in Nat, NEW d2 \in Nat
  PROVE  LET once == AdvanceZone(zst, sst, d1 + d2)
             twice == AdvanceZone(AdvanceZone(zst, sst, d1), Later(sst, d1), d2)
         IN  /\ once.lam = twice.lam
             /\ Expires(sst, d1 + d2) \/ (once.occupied <=> twice.occupied)
<1> DEFINE dt == d1 + d2
           later == Later(sst, d1)
           once == AdvanceZone(zst, sst, dt)
           mid == AdvanceZone(zst, sst, d1)
           twice == AdvanceZone(mid, later, d2)
<1>0. Observing(sst) /\ Observing(later) /\ dt \in Nat
  <2>1. sst.moveAge \in Nat /\ sst.stillAge \in Nat /\ ObsCap \in Nat
    BY CapTypes DEF SensorStates
  <2> QED BY <2>1 DEF Observing, Later, Smaller
<1>1. /\ Kept(mid, zst) /\ ZoneSound(mid)
      /\ Turned(mid, zst) /\ SameEvidence(mid, zst)
      /\ Suspended(mid) <=> Suspended(zst)
  <2>1. /\ Kept(mid, zst) /\ ZoneSound(mid)
        /\ Turned(mid, zst) /\ SameEvidence(mid, zst)
    BY <1>0, AdvanceZoneSound, AdvanceZoneTurns
  <2> HIDE DEF mid
  <2> QED BY <2>1 DEF Kept, Suspended
<1>2. CASE Suspended(zst)
  <2> HIDE DEF dt, later
  <2>1. once = zst /\ mid = zst
    BY <1>0, <1>2, AdvanceZoneTurns
  <2> HIDE DEF mid
  <2>2. twice = mid
    BY <1>0, <1>1, <1>2, AdvanceZoneTurns
  <2> QED BY <2>1, <2>2 DEF mid, dt, later
<1>3. CASE ~Suspended(zst)
  <2>0. zst \in ZoneStates /\ mid \in ZoneStates
    BY <1>1 DEF ZoneSound
  <2> DEFINE u == Rates(zst, sst)
             w == Rates(mid, later)
  <2>1. PICK f : /\ Integral(f, zst.lam, u, dt)
                 /\ IntegrateBelief(zst, sst, dt) = f[dt]
    BY <1>0, <2>0, BeliefIntegral
  <2>2. PICK g : /\ Integral(g, zst.lam, u, d1)
                 /\ IntegrateBelief(zst, sst, d1) = g[d1]
    BY <1>0, <2>0, BeliefIntegral
  <2>3. PICK h : /\ Integral(h, mid.lam, w, d2)
                 /\ IntegrateBelief(mid, later, d2) = h[d2]
    <3> HIDE DEF mid, later
    <3> QED BY <1>0, <2>0, BeliefIntegral
  <2>4. /\ once.lam = f[dt] /\ (once.occupied <=> Switched(zst.occupied, f[dt]))
        /\ mid.lam = g[d1] /\ (mid.occupied <=> Switched(zst.occupied, g[d1]))
        /\ twice.lam = h[d2] /\ (twice.occupied <=> Switched(mid.occupied, h[d2]))
    <3>1. dt \in Nat /\ ~Suspended(mid) /\ ZoneSound(mid)
      BY <1>1, <1>3
    <3> HIDE DEF dt
    <3>2. once.lam = f[dt] /\ Turned(once, zst)
      BY <1>0, <1>3, <2>1, <3>1, AdvanceZoneTurns
    <3>3. mid.lam = g[d1] /\ Turned(mid, zst)
      BY <1>0, <1>3, <2>2, AdvanceZoneTurns
    <3> HIDE DEF mid, later
    <3>4. twice.lam = h[d2] /\ Turned(twice, mid)
      BY <1>0, <2>3, <3>1, AdvanceZoneTurns
    <3> HIDE DEF once, twice
    <3> QED BY <3>2, <3>3, <3>4 DEF Turned
  <2>5. /\ sst.moveAge \in Nat /\ sst.stillAge \in Nat
        /\ later.moveAge = Smaller(sst.moveAge + d1, ObsCap)
        /\ later.stillAge = Smaller(sst.stillAge + d1, ObsCap)
    BY CapTypes DEF SensorStates, Later
  <2>6. ASSUME NEW n \in 1 .. d2 PROVE w[n] = u[d1 + n]
    <3>1. mid.zMove = zst.zMove /\ mid.zStill = zst.zStill
      BY <1>1 DEF SameEvidence
    <3> HIDE DEF mid, later
    <3>2. n \in Nat \ {0} /\ d1 + n \in Nat
      OBVIOUS
    <3>3. /\ ChannelTerm(zst.zMove, KMove, later.moveAge + n)
               = ChannelTerm(zst.zMove, KMove, sst.moveAge + (d1 + n))
          /\ ChannelTerm(zst.zStill, KStill, later.stillAge + n)
               = ChannelTerm(zst.zStill, KStill, sst.stillAge + (d1 + n))
      BY <2>5, <3>2, TermSaturates
    <3>4. /\ w[n] = EvidenceRate(mid, later.moveAge + n, later.stillAge + n)
          /\ u[d1 + n] = EvidenceRate(zst, sst.moveAge + (d1 + n),
                                      sst.stillAge + (d1 + n))
      BY <3>2 DEF Rates
    <3> QED BY <3>1, <3>3, <3>4 DEF EvidenceRate
  <2> HIDE DEF u, w, mid, later, once, twice
  <2>7. g[d1] = f[d1]
    <3>1. \A n \in 0 .. d1 : g[n] = f[0 + n]
      <4>1. f[0] = zst.lam
        BY <2>1 DEF Integral
      <4>2. \A n \in 1 .. d1 : u[n] = u[0 + n]
        OBVIOUS
      <4>3. dt \in Nat /\ 0 + d1 <= dt
        OBVIOUS
      <4> HIDE DEF dt
      <4> QED BY <2>1, <2>2, <4>1, <4>2, <4>3, IntegralSame
    <3>2. d1 \in 0 .. d1 /\ 0 + d1 = d1
      OBVIOUS
    <3> QED BY <3>1, <3>2
  <2>8. \A n \in 0 .. d2 : h[n] = f[d1 + n]
    <3>1. dt \in Nat /\ d1 + d2 <= dt
      OBVIOUS
    <3>2. f[d1] = mid.lam
      BY <2>4, <2>7
    <3> HIDE DEF dt
    <3> QED BY <2>1, <2>3, <2>6, <3>1, <3>2, IntegralSame
  <2>9. h[d2] = f[dt]
    <3>1. d2 \in 0 .. d2
      OBVIOUS
    <3> QED BY <2>8, <3>1
  <2>10. ASSUME ~Expires(sst, dt) PROVE once.occupied <=> twice.occupied
    <3>1. PICK v \in Int : \A n \in 1 .. dt : u[n] = v
      BY <2>10, SteadyRates DEF u
    <3> DEFINE goal == Clamp(LamPrior + TauDecay * v)
               lam == zst.lam
    <3>2. lam \in Lams /\ (IF zst.occupied THEN lam > LamOff ELSE lam < LamOn)
      BY DEF ZoneSound, ZoneStates, Latched
    <3>3. goal \in Lams
      BY ClampKeeps
    <3>4. g[d1] \in Between(lam, goal) /\ g[d1] \in Lams
      <4>1. \A n \in 1 .. d1 : u[n] = v
        BY <3>1
      <4>2. d1 \in 0 .. d1
        OBVIOUS
      <4> QED BY <2>2, <3>2, <4>1, <4>2, IntegralSteady, IntegralType
    <3>5. h[d2] \in Between(g[d1], goal) /\ h[d2] \in Lams
      <4>1. \A n \in 1 .. d2 : w[n] = v
        BY <2>6, <3>1
      <4>2. mid.lam = g[d1] /\ d2 \in 0 .. d2
        BY <2>4
      <4> QED BY <2>3, <3>4, <4>1, <4>2, IntegralSteady, IntegralType
    <3> HIDE DEF goal, lam
    <3>6. Switched(Switched(zst.occupied, g[d1]), h[d2])
            <=> Switched(zst.occupied, h[d2])
      BY <3>2, <3>3, <3>4, <3>5, LamsOrder, SteadyLatch
    <3>7. Switched(mid.occupied, h[d2])
            <=> Switched(Switched(zst.occupied, g[d1]), h[d2])
      BY <2>4 DEF Switched
    <3> QED BY <2>4, <2>9, <3>6, <3>7
  <2> QED BY <2>4, <2>9, <2>10 DEF once, twice, mid, later
<1> QED BY <1>2, <1>3

(* However an interval is divided between calls, the segments of each      *)
(* call, cut where an observation window ends and evaluated at their       *)
(* midpoints (filter.py 68-94), lead to the same belief.  They lead to the *)
(* same latch too unless a window ends within the interval.                *)
THEOREM CadenceIsInvariant == Spec => []CadenceInvariant
<1>1. IInv => CadenceInvariant
  <2> SUFFICES ASSUME IInv, NEW z \in Zones, NEW d1 \in 1 .. MaxDt, NEW d2 \in 1 .. MaxDt
               PROVE  LET sst == sensors[SensorOf[z]]
                          once == AdvanceZone(zones[z], sst, d1 + d2)
                          twice == AdvanceZone(AdvanceZone(zones[z], sst, d1),
                                               Later(sst, d1), d2)
                      IN  /\ once.lam = twice.lam
                          /\ Expires(sst, d1 + d2) \/ once.occupied = twice.occupied
    BY DEF CadenceInvariant, Later
  <2> DEFINE sst == sensors[SensorOf[z]]
             mid == AdvanceZone(zones[z], sst, d1)
             once == AdvanceZone(zones[z], sst, d1 + d2)
             twice == AdvanceZone(mid, Later(sst, d1), d2)
  <2>1. ZoneSound(zones[z]) /\ sst \in SensorStates /\ d1 \in Nat /\ d2 \in Nat
    <3>1. SensorOf[z] \in Sensors
      BY EstimatorAssumption
    <3> QED BY <3>1, TypeParts DEF IInv, Typed
  <2>2. /\ once.lam = twice.lam
        /\ Expires(sst, d1 + d2) \/ (once.occupied <=> twice.occupied)
    BY <2>1, AdvanceTwice
  <2>3. once.occupied \in BOOLEAN /\ twice.occupied \in BOOLEAN
    <3>1. ZoneSound(once) /\ ZoneSound(mid)
      BY <2>1, AdvanceZoneSound
    <3> HIDE DEF mid
    <3>2. ZoneSound(twice)
      BY <3>1, AdvanceZoneSound
    <3> HIDE DEF once, twice
    <3> QED BY <3>1, <3>2 DEF ZoneSound, ZoneStates
  <2> HIDE DEF mid, once, twice, sst
  <2>4. once.lam = twice.lam /\ (Expires(sst, d1 + d2) \/ once.occupied = twice.occupied)
    BY <2>2, <2>3
  <2> QED BY <2>4 DEF once, twice, mid, sst
<1> QED BY <1>1, Inductive, PTL
=============================================================================
