------------------------------ MODULE Estimator ------------------------------
(***************************************************************************)
(* The per-zone estimator: ConductorEngine (core/engine.py) with           *)
(* core/filter.py, core/activity.py and core/health.py, driven by the      *)
(* adapter's cached sensor views (controller.py) and by the engine's own   *)
(* timers.  Fusion into rooms and the home is module Engine.               *)
(*                                                                         *)
(* Time.  The engine never reads a clock: every call carries the time that *)
(* passed since the last one, here dt, and every stamp is kept as its age  *)
(* at the last advance.  dt is free within its bounds, except that no      *)
(* timer may be passed by more than MaxLate (module Timers).  A call after *)
(* dt does what a tick after dt and the call after 0 do together, so an    *)
(* instance may set CallDt to 0 and still reach the same states.           *)
(***************************************************************************)
EXTENDS ZoneFilter, Timers, Reports

CONSTANTS
  Sensors, Zones,
  SensorOf,                 \* ZoneConfig.sensor_id
  MoveViews, StillViews,    \* per sensor, the readings its radar may show
  StaleAfter, MotionHold, BaselineDuration,
  MaxDt,                    \* bound: the time between two calls
  CallDt                    \* bound: the same before a call that is no tick

Reading == [raw : Int, gated : BOOLEAN, gates : BOOLEAN]
ChannelView == [flag : BOOLEAN, at : [Zones -> Reading]]

ASSUME EstimatorAssumption ==
  /\ SensorOf \in [Zones -> Sensors]
  /\ MoveViews \in [Sensors -> SUBSET ChannelView]
  /\ StillViews \in [Sensors -> SUBSET ChannelView]
  /\ StaleAfter \in Nat \ {0}
  /\ MotionHold \in Nat
  /\ BaselineDuration \in Nat \ {0}
  /\ MaxDt \in Nat \ {0}
  /\ CallDt \in 0 .. MaxDt

VARIABLES
  started,   \* start() has run
  clocked,   \* _last_advance is set
  enabled,   \* EngineState.enabled
  views,     \* the adapter's SensorView of each sensor
  sensors,   \* EngineState.sensors
  zones,     \* EngineState.zones
  timers,    \* the pending timers, of the engine and of the adapter
  events     \* the events of the last plan

vars == <<started, clocked, enabled, views, sensors, zones, timers, events>>

ZonesOf(s) == {z \in Zones : SensorOf[z] = s}

(* An observation this old is silent in every window, as is no observation *)
ObsCap == Larger(ObsBudget, ObsHold)
(* Past the watchdog no guard tells the ages of the last frame apart.      *)
FrameCap == StaleAfter + MaxLate + 1

PassBy(z) == [kind |-> "pass_by", zone |-> z]
BaselineRecorded(z, success) ==
  [kind |-> "baseline_recorded", zone |-> z, success |-> success]

TimerKeys == {SensorStale(s) : s \in Sensors} \cup {MotionOff(z) : z \in Zones}
               \cup {BaselineEnd(z) : z \in Zones}

(* The observation counters of a view: the engine has seen them, they went *)
(* ahead during an outage, or they restarted with a rebuilt view.          *)
CounterStates == {"seen", "ahead", "rebuilt"}

TypeOK ==
  /\ started \in BOOLEAN /\ clocked \in BOOLEAN /\ enabled \in BOOLEAN
  /\ views \in [Sensors -> [available : BOOLEAN, counters : CounterStates,
                            move : ChannelView, still : ChannelView]]
  /\ sensors \in [Sensors -> [available : BOOLEAN, frameAge : 0 .. FrameCap,
                              moveAge : 0 .. ObsCap, stillAge : 0 .. ObsCap]]
  /\ zones \in [Zones -> ZoneStates]
  /\ DOMAIN timers \subseteq TimerKeys
  /\ timers \in [DOMAIN timers -> Int]
  /\ events \subseteq ({PassBy(z) : z \in Zones}
       \cup {BaselineRecorded(z, b) : z \in Zones, b \in BOOLEAN})

----------------------------------------------------------------------------
(* Seeding (rule 7.1): the snapshot, adopted without any timestamp         *)

(* At the seed the flags have no recency, so an aggregate distance gates   *)
(* only while its flag is on (gating.usable_distance with now = None).     *)
Snapshot(v) ==
  [v EXCEPT !.at = [z \in DOMAIN v.at |->
                      [v.at[z] EXCEPT !.gated = @ /\ v.flag]]]

(* A zone whose sensor plainly reports somebody in it starts occupied. *)
SeedZone(view, z) ==
  LET fresh == [health |-> IF view.available THEN "OK" ELSE "UNKNOWN",
                lam |-> LamPrior, occupied |-> FALSE, activity |-> "EMPTY",
                motion |-> FALSE, recording |-> FALSE, zMove |-> 0,
                zStill |-> 0, attack |-> NoChain, since |-> None,
                stillDom |-> None, moveDom |-> None]
      move == Snapshot(view.move).at[z]
      still == Snapshot(view.still).at[z]
      target == \/ view.move.flag /\ InGate(move)
                \/ view.still.flag /\ InGate(still)
      scored == Ingest(fresh, move, still)
  IN  CASE ~view.available -> fresh
        [] view.available /\ target ->
             [scored EXCEPT !.lam = LamOn, !.occupied = TRUE]
        [] OTHER -> scored

Init ==
  /\ started = FALSE /\ clocked = FALSE /\ enabled = TRUE
  /\ views \in [Sensors -> [available : BOOLEAN, counters : {"seen"},
                            move : UNION {MoveViews[s] : s \in Sensors},
                            still : UNION {StillViews[s] : s \in Sensors}]]
  /\ \A s \in Sensors :
       views[s].move \in MoveViews[s] /\ views[s].still \in StillViews[s]
  /\ sensors = [s \in Sensors |->
       [available |-> views[s].available, frameAge |-> FrameCap,
        moveAge |-> ObsCap, stillAge |-> ObsCap]]
  /\ zones = [z \in Zones |-> SeedZone(views[SensorOf[z]], z)]
  /\ timers = NoTimers
  /\ events = {}

----------------------------------------------------------------------------
(* The chronological advance every call begins with (engine._advance)      *)

(* How much time a call may find passed: none before the first one. *)
Elapses(dt) ==
  /\ dt \in (IF clocked THEN 0 .. MaxDt ELSE {0})
  /\ MayPass(timers, dt)

AgedSensors(dt) ==
  [s \in Sensors |->
     [sensors[s] EXCEPT !.frameAge = Smaller(@ + dt, FrameCap),
                        !.moveAge = Smaller(@ + dt, ObsCap),
                        !.stillAge = Smaller(@ + dt, ObsCap)]]

(* Zone z once its evidence in force has been integrated over dt *)
AdvancedZone(z, dt) ==
  IF dt = 0 THEN zones[z]
  ELSE TickZone(AdvanceZone(Aged(zones[z], dt), sensors[SensorOf[z]], dt))

Advance(dt) == [z \in Zones |-> AdvancedZone(z, dt)]

(* What the advance emits; a plan is filled only while enabled (7.2). *)
PassBys(dt) ==
  {PassBy(z) : z \in {y \in Zones : enabled
                        /\ PassesBy(zones[y], AdvancedZone(y, dt))}}

----------------------------------------------------------------------------
(* Start (engine.start, called by controller._on_started)                  *)

(* The adapter rebuilds its views, which tells the engine nothing, and the *)
(* observation counters of the new views restart.                          *)
Rebuilt(s) == [available : BOOLEAN, counters : {"rebuilt"},
               move : MoveViews[s], still : StillViews[s]]

Start(dt) ==
  /\ ~started /\ Elapses(dt)
  /\ started' = TRUE /\ clocked' = TRUE
  /\ views' \in [Sensors -> UNION {Rebuilt(s) : s \in Sensors}]
  /\ \A s \in Sensors : views'[s] \in Rebuilt(s)
  /\ sensors' = [s \in Sensors |->
       IF sensors[s].available
       THEN [AgedSensors(dt)[s] EXCEPT !.frameAge = 0] ELSE AgedSensors(dt)[s]]
  /\ zones' = [z \in Zones |->
       IF zones[z].occupied THEN OnOccupied(Aged(zones[z], dt))
                            ELSE Aged(zones[z], dt)]
  /\ timers' = StartTimers(PassTime(timers, dt),
       {SensorStale(s) : s \in {t \in Sensors : sensors[t].available}},
       StaleAfter)
  /\ events' = {}
  /\ UNCHANGED enabled

----------------------------------------------------------------------------
(* Sensor reports (controller._on_entity_measurement)                      *)

(* A mutant of FramedZone: motion never checks its hold. *)
FramedZoneHoldTrusted(z, dt, fresh, move, still) ==
  LET advanced == AdvancedZone(z, dt)
      recovered == IF "frame" \in fresh
                   THEN [advanced EXCEPT !.health = "OK"] ELSE advanced
      scored == Ingest(recovered, move.at[z], still.at[z])
      attacked == Attack(scored, move.at[z], "energy" \in fresh)
  IN  IF Suspended(scored) THEN scored
      ELSE [attacked EXCEPT
              !.motion = @ \/ MotionEvidence(attacked, move.at[z], move.flag)]

(* Health, evidence and filter see the frame in this order (_on_frame). *)
FramedZone(z, dt, fresh, move, still) ==
  LET advanced == AdvancedZone(z, dt)
      recovered == IF "frame" \in fresh
                   THEN [advanced EXCEPT !.health = "OK"] ELSE advanced
      scored == Ingest(recovered, move.at[z], still.at[z])
      attacked == Attack(scored, move.at[z], "energy" \in fresh)
  IN  IF Suspended(scored) THEN scored
      ELSE [attacked EXCEPT
              !.motion = \/ MotionEvidence(attacked, move.at[z], move.flag)
                         \/ @ /\ MotionOff(z) \in DOMAIN timers]

(* The zones whose motion hold the frame starts *)
Moving(s, framed, move) ==
  {z \in ZonesOf(s) : /\ ~Suspended(framed[z])
                      /\ MotionEvidence(framed[z], move.at[z], move.flag)}

(* A sensor that is back is announced by a call of its own, and its frame  *)
(* follows within the same callback (_on_entity_measurement).  But for the *)
(* flag, which no advance and no fusion reads, the announcement is a Tick; *)
(* the frame then finds no time passed.                                    *)
Report(s, dt, fresh, move, still) ==
  LET framed == [z \in Zones |->
                   IF SensorOf[z] = s
                   THEN FramedZone(z, dt, fresh, move, still)
                   ELSE AdvancedZone(z, dt)]
      watched == IF "frame" \in fresh
                 THEN StartTimer(PassTime(timers, dt), SensorStale(s), StaleAfter)
                 ELSE PassTime(timers, dt)
  IN  /\ started /\ Elapses(dt)
      /\ views[s].available \/ dt = 0
      /\ Certified(views[s], fresh, move, still)
      /\ views' = [views EXCEPT ![s] =
           [available |-> TRUE, counters |-> "seen",
            move |-> move, still |-> still]]
      /\ sensors' = [AgedSensors(dt) EXCEPT
           ![s].available = @ \/ ~views[s].available \/ "frame" \in fresh,
           ![s].frameAge = IF "frame" \in fresh THEN 0 ELSE @,
           ![s].moveAge = IF "move" \in fresh THEN 0 ELSE @,
           ![s].stillAge = IF "still" \in fresh THEN 0 ELSE @]
      /\ zones' = framed
      /\ timers' = StartTimers(watched,
           {MotionOff(z) : z \in Moving(s, framed, move)}, MotionHold)
      /\ events' = PassBys(dt)
      /\ UNCHANGED <<started, clocked, enabled>>

(* A required entity is lost (health.on_availability): no frame follows. *)
Outage(s, dt) ==
  /\ started /\ Elapses(dt) /\ views[s].available
  /\ views' = [views EXCEPT ![s].available = FALSE,
                             ![s].counters = IF @ = "seen" THEN "ahead" ELSE @]
  /\ sensors' = [AgedSensors(dt) EXCEPT ![s].available = FALSE]
  /\ zones' = [z \in Zones |->
       IF SensorOf[z] = s
       THEN [AdvancedZone(z, dt) EXCEPT !.health = "UNKNOWN", !.attack = NoChain]
       ELSE AdvancedZone(z, dt)]
  /\ timers' = CancelTimer(PassTime(timers, dt), SensorStale(s))
  /\ events' = PassBys(dt)
  /\ UNCHANGED <<started, clocked, enabled>>

----------------------------------------------------------------------------
(* The tick and the commands (engine.submit)                               *)

Tick(dt) ==
  /\ started /\ Elapses(dt)
  /\ sensors' = AgedSensors(dt)
  /\ zones' = Advance(dt)
  /\ timers' = PassTime(timers, dt)
  /\ events' = PassBys(dt)
  /\ UNCHANGED <<started, clocked, enabled, views>>

(* The switch may be set before the start: it is restored by then. *)
SetEnabled(on, dt) ==
  /\ Elapses(dt)
  /\ clocked' = TRUE
  /\ enabled' = on
  /\ sensors' = AgedSensors(dt)
  /\ zones' = Advance(dt)
  /\ timers' = PassTime(timers, dt)
  /\ events' = PassBys(dt)
  /\ UNCHANGED <<started, views>>

RecordBaseline(z, dt) ==
  /\ Elapses(dt)
  /\ clocked' = TRUE
  /\ sensors' = AgedSensors(dt)
  /\ zones' = [Advance(dt) EXCEPT ![z] = Pinned(@)]
  /\ timers' = StartTimer(CancelTimer(PassTime(timers, dt), MotionOff(z)),
                          BaselineEnd(z), BaselineDuration)
  /\ events' = PassBys(dt)
  /\ UNCHANGED <<started, enabled, views>>

----------------------------------------------------------------------------
(* Timer callbacks (engine.on_timer)                                       *)

Fires(key, dt) == Elapses(dt) /\ MayFire(timers, key, dt)

(* A mutant of SilenceBlinds: who has settled may be silent. *)
SilenceBlindsUnlessSettled(s, advanced) ==
  \E z \in ZonesOf(s) :
    advanced[z].occupied /\ advanced[z].activity # "SETTLED"

(* Silence while occupied is blindness; an empty room may be silent. *)
SilenceBlinds(s, advanced) == \E z \in ZonesOf(s) : advanced[z].occupied

StaleTimer(s, dt) ==
  LET advanced == Advance(dt)
      blind == SilenceBlinds(s, advanced)
      fired == CancelTimer(PassTime(timers, dt), SensorStale(s))
  IN  /\ Fires(SensorStale(s), dt)
      /\ sensors' = AgedSensors(dt)
      /\ zones' = [z \in Zones |->
           IF SensorOf[z] = s
           THEN [advanced[z] EXCEPT !.health = IF blind THEN "UNKNOWN" ELSE @,
                                    !.attack = NoChain]
           ELSE advanced[z]]
      /\ timers' = IF blind THEN fired
                   ELSE StartTimer(fired, SensorStale(s), StaleAfter)
      /\ events' = PassBys(dt)
      /\ UNCHANGED <<started, clocked, enabled, views>>

MotionOffTimer(z, dt) ==
  /\ Fires(MotionOff(z), dt)
  /\ sensors' = AgedSensors(dt)
  /\ zones' = [Advance(dt) EXCEPT ![z].motion = @ /\ zones[z].health # "OK"]
  /\ timers' = CancelTimer(PassTime(timers, dt), MotionOff(z))
  /\ events' = PassBys(dt)
  /\ UNCHANGED <<started, clocked, enabled, views>>

(* A committed window gives its zone new floors: the next frame scores the *)
(* cached values of its sensor anew, what they gate is as it was.          *)
Rescored(z, v, w) ==
  /\ w.flag = v.flag
  /\ \A y \in Zones : /\ w.at[y].gated = v.at[y].gated
                      /\ y # z => w.at[y] = v.at[y]

Rescoring(z) ==
  LET s == SensorOf[z]
  IN  \E move \in MoveViews[s], still \in StillViews[s] :
        /\ Rescored(z, views[s].move, move) /\ Rescored(z, views[s].still, still)
        /\ views' = [views EXCEPT ![s].move = move, ![s].still = still]

(* A mutant of BaselineEndTimer: it gives up on an unavailable sensor. *)
BaselineEndTimerGivesUp(z, dt, success) ==
  /\ Fires(BaselineEnd(z), dt)
  /\ success => sensors[SensorOf[z]].available
  /\ sensors' = AgedSensors(dt)
  /\ zones' = [Advance(dt) EXCEPT
       ![z].recording = ~sensors[SensorOf[z]].available]
  /\ timers' = CancelTimer(PassTime(timers, dt), BaselineEnd(z))
  /\ events' = PassBys(dt) \cup {BaselineRecorded(z, success)}
  /\ UNCHANGED <<started, clocked, enabled, views>>

(* Whether a window commits depends on its rows; never while the sensor is *)
(* unavailable (evidence.on_baseline_end 748).                             *)
BaselineEndTimer(z, dt, success) ==
  /\ Fires(BaselineEnd(z), dt)
  /\ success => sensors[SensorOf[z]].available
  /\ IF success THEN Rescoring(z) ELSE views' = views
  /\ sensors' = AgedSensors(dt)
  /\ zones' = [Advance(dt) EXCEPT ![z].recording = FALSE]
  /\ timers' = CancelTimer(PassTime(timers, dt), BaselineEnd(z))
  /\ events' = PassBys(dt) \cup {BaselineRecorded(z, success)}
  /\ UNCHANGED <<started, clocked, enabled>>

----------------------------------------------------------------------------
(* Every call but the start, which does not advance, and the tick *)
Call(dt) ==
  \/ \E s \in Sensors, fresh \in SUBSET Counters :
       \E move \in MoveViews[s], still \in StillViews[s] :
         Report(s, dt, fresh, move, still)
  \/ \E s \in Sensors : Outage(s, dt)
  \/ \E on \in BOOLEAN : SetEnabled(on, dt)
  \/ \E z \in Zones : RecordBaseline(z, dt)
  \/ \E s \in Sensors : StaleTimer(s, dt)
  \/ \E z \in Zones : MotionOffTimer(z, dt)
  \/ \E z \in Zones, success \in BOOLEAN : BaselineEndTimer(z, dt, success)

Next ==
  \/ \E dt \in 0 .. MaxDt : Tick(dt)
  \/ \E dt \in 0 .. CallDt : Start(dt) \/ Call(dt)

Spec == Init /\ [][Next]_vars

----------------------------------------------------------------------------
(* Properties                                                              *)

(* A sensor that feeds a healthy zone is under watch: its zones are healthy *)
(* or blind together, an unavailable one is blind, and from the start on   *)
(* exactly the healthy ones have a watchdog that will notice their silence *)
(* (health.py; rule 1.3).                                                  *)
BlindOrWatched ==
  \A z \in Zones :
    LET s == SensorOf[z]
        ok == zones[z].health = "OK"
    IN  /\ \A y \in ZonesOf(s) : zones[y].health = zones[z].health
        /\ ok => sensors[s].available
        /\ started => (ok <=> SensorStale(s) \in DOMAIN timers)

(* A healthy zone is never occupied for longer than a late watchdog takes  *)
(* without a measured frame: silence while occupied is blindness, even for *)
(* an occupancy that bloomed after the watchdog was re-armed (health.py    *)
(* 70-87).  The age of an occupancy is kept up to TDwell, so this says     *)
(* something where t_dwell is longer than a late watchdog takes, as it is  *)
(* by default (45 s against 30 s).                                         *)
SilenceNoticed ==
  \A z \in Zones :
    started /\ zones[z].health = "OK" /\ zones[z].occupied
      => \/ sensors[SensorOf[z]].frameAge <= StaleAfter + MaxLate
         \/ zones[z].since <= StaleAfter + MaxLate

(* Motion of a healthy zone is on exactly while its hold is pending, also  *)
(* after a hold that ran out unseen while the zone was blind (filter.py    *)
(* 178-198).  A pending hold always belongs to a zone in motion.           *)
MotionHeld ==
  \A z \in Zones :
    /\ MotionOff(z) \in DOMAIN timers => zones[z].motion
    /\ zones[z].health = "OK" /\ zones[z].motion
         => MotionOff(z) \in DOMAIN timers

(* A zone records exactly while its window's timer is pending, and is then *)
(* pinned to the asserted emptiness whatever it is reported: at the prior, *)
(* unoccupied, without motion, scores or an attack chain (rule 3.3).       *)
CalibrationPinned ==
  \A z \in Zones :
    /\ zones[z].recording <=> BaselineEnd(z) \in DOMAIN timers
    /\ zones[z].recording =>
         /\ zones[z].lam = LamPrior
         /\ ~zones[z].occupied /\ zones[z].activity = "EMPTY"
         /\ ~zones[z].motion /\ MotionOff(z) \notin DOMAIN timers
         /\ zones[z].zMove = 0 /\ zones[z].zStill = 0
         /\ zones[z].attack = NoChain

(* The latch and the belief never contradict each other, so no event finds *)
(* a zone that should have switched earlier (rule 4.3).                    *)
HysteresisHolds ==
  \A z \in Zones : IF zones[z].occupied THEN zones[z].lam > LamOff
                                        ELSE zones[z].lam < LamOn

(* Where an interval is cut decides nothing about the belief (filter.py    *)
(* 62-64, 84-94): one long advance, with a midpoint per segment, and two   *)
(* short ones leave the same belief, also where observation windows end in *)
(* between or the belief rides a bound.  They leave the same latch as well *)
(* unless a window ends: CadenceDecidesNothing is about that case.         *)
Expires(sst, dt) ==
  \E age \in {sst.moveAge, sst.stillAge}, window \in {ObsBudget, ObsHold} :
    age <= window /\ window < age + dt

(* What d units more leave of a sensor's recency *)
Later(sst, d) == [sst EXCEPT !.moveAge = Smaller(@ + d, ObsCap),
                             !.stillAge = Smaller(@ + d, ObsCap)]

CadenceInvariant ==
  \A z \in Zones, d1, d2 \in 1 .. MaxDt :
    LET sst == sensors[SensorOf[z]]
        once == AdvanceZone(zones[z], sst, d1 + d2)
        twice == AdvanceZone(AdvanceZone(zones[z], sst, d1), Later(sst, d1), d2)
    IN  /\ once.lam = twice.lam
        /\ Expires(sst, d1 + d2) \/ once.occupied = twice.occupied

(* From the start on the three records of an occupancy agree: the latch,   *)
(* the activity and its starting time.  The dominance clocks exclude each  *)
(* other and run only within an occupancy (rules 5.1 and 5.4).             *)
ActivityConsistent ==
  \A z \in Zones :
    LET zst == zones[z]
    IN  /\ started => /\ zst.occupied <=> zst.activity # "EMPTY"
                      /\ zst.occupied <=> zst.since # None
        /\ zst.stillDom = None \/ zst.moveDom = None
        /\ zst.since = None => zst.stillDom = None /\ zst.moveDom = None

(* A confirmation chain lives only where its measurements do: in a healthy *)
(* zone that is not recording, under the path its candidates came from and *)
(* with the time of the last one (rule 4.2).                               *)
ChainGrounded ==
  \A z \in Zones :
    LET chain == zones[z].attack
    IN  /\ chain.count > 0 => ~Suspended(zones[z])
        /\ chain.count = 0 <=> chain = NoChain
        /\ chain.count = 0 <=> chain.age = None

(* While a zone stays blind its outputs keep what they last published; the *)
(* one exception is the operator's assertion of emptiness (rule 1.3).      *)
Published(zst) ==
  [lam |-> zst.lam, occupied |-> zst.occupied, activity |-> zst.activity,
   motion |-> zst.motion, since |-> IF zst.since = None THEN None ELSE 0]

FreezesBlind ==
  \A z \in Zones :
    zones[z].health = "UNKNOWN" /\ zones'[z].health = "UNKNOWN"
      => \/ Published(zones'[z]) = Published(zones[z])
         \/ zones'[z].recording
              /\ Published(zones'[z]) = Published(Pinned(zones[z]))

BlindZonesFreeze == [][FreezesBlind]_vars

(* Occupancy begins on live evidence only: a channel's positive score that *)
(* was still within its budget when the interval began (3.8), or a         *)
(* candidate that this very report shows and that completes a confirmed    *)
(* attack chain, or follows its last candidate within one burst (4.2).     *)
LivePositive(zst, sst) ==
  \/ zst.zMove > KBias /\ sst.moveAge < ObsBudget
  \/ zst.zStill > KBias /\ sst.stillAge < ObsBudget

AttackStands(zst, seen) ==
  /\ AttackCandidate(seen)
  /\ zst.attack.count = AttackConfirm
  /\ zst.attack.age < GapMin(EvidencePath(seen))

OccupiesOnEvidence ==
  \A z \in Zones :
    ~zones[z].occupied /\ zones'[z].occupied
      => \/ LivePositive(zones[z], sensors[SensorOf[z]])
         \/ AttackStands(zones'[z], views'[SensorOf[z]].move.at[z])

OnsetJustified == [][OccupiesOnEvidence]_vars

(* Every traversal that ends while enabled is announced once: a departure  *)
(* that never got past PASSING and that the operator did not void emits a  *)
(* pass-by.  Nothing else does: not a departure of a disabled engine, of a *)
(* blind zone, or before the start, and not somebody who is still there,   *)
(* unless the same report began a new occupancy (rules 5.2 and 7.2).       *)
AnnouncesTraversals ==
  \A z \in Zones :
    LET passing == /\ zones[z].occupied
                   /\ zones[z].activity = "PASSING" /\ started
        departed == ~zones'[z].occupied
    IN  /\ passing /\ enabled /\ departed /\ ~zones'[z].recording
             => PassBy(z) \in events'
        /\ PassBy(z) \in events'
             => /\ passing /\ enabled /\ zones[z].health = "OK"
                /\ departed \/ zones'[z].since = 0

PassByExact == [][AnnouncesTraversals]_vars

----------------------------------------------------------------------------
(* What comments of the code say and the code does not do                  *)

(* "One dominant frame followed by silence must not mature into a takeover *)
(* t_settle later" (activity.py 60-61): a zone settles only while its      *)
(* still channel is not yet silent.                                        *)
SettledOnLiveStill ==
  [][\A z \in Zones :
       zones[z].activity # "SETTLED" /\ zones'[z].activity = "SETTLED"
         => sensors[SensorOf[z]].stillAge < ObsCap]_vars

(* "Every event advances time chronologically (4.1), so results are        *)
(* invariant to tick cadence and scheduler pauses" (ENGINE_SPEC.md 61-63): *)
(* a tick between two calls changes neither what a zone publishes after    *)
(* the second nor whether a pass-by is announced (filter.py 65-95).        *)
CadenceDecidesNothing ==
  started => \A z \in Zones, d1, d2 \in 1 .. MaxDt :
    LET sst == sensors[SensorOf[z]]
        After(zst, s, d) == TickZone(AdvanceZone(Aged(zst, d), s, d))
        once == After(zones[z], sst, d1 + d2)
        mid == After(zones[z], sst, d1)
        twice == After(mid, Later(sst, d1), d2)
    IN  MayPass(timers, d1 + d2) =>
          /\ Published(once) = Published(twice)
          /\ PassesBy(zones[z], once)
               <=> PassesBy(zones[z], mid) \/ PassesBy(mid, twice)

(* "Entities unavailable -> UNKNOWN immediately, whether or not any zone   *)
(* is occupied: the sensor is plainly blind" (health.py 52-53).            *)
UnavailableIsBlind ==
  started => \A z \in Zones :
    ~views[SensorOf[z]].available => zones[z].health = "UNKNOWN"
=============================================================================
