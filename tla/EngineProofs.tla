---------------------------- MODULE EngineProofs ----------------------------
(***************************************************************************)
(* The engine as a whole, for any radars, zones, rooms, readings,          *)
(* thresholds and timings: it implements home presence over promised       *)
(* zones, and what it publishes of one place agrees.                       *)
(*                                                                         *)
(* EngineInv adds to the estimator's inductive invariant that no time      *)
(* passes before a first call, and that the home is never less convinced   *)
(* than a healthy zone that holds somebody.                                *)
(***************************************************************************)
EXTENDS Engine, AttackLog, EstimatorProofs

(* Nothing runs or waits before a call has set the clock. *)
Clocked == started \/ DOMAIN timers # {} => clocked

EngineInv == IInv /\ Clocked /\ home \in Homes /\ HomeCoversZones

----------------------------------------------------------------------------
(* Every call runs the clock.  It is a tick, a start or another call, and  *)
(* ends in one refresh of the home.                                        *)
Steps(dt) == Tick(dt) \/ Start(dt) \/ Call(dt)

LEMMA StepClocks ==
  ASSUME Clocked, NEW dt, Steps(dt)
  PROVE  clocked'
<1>1. CASE Tick(dt)
  BY <1>1 DEF Tick, Clocked
<1>2. CASE Start(dt)
  BY <1>2 DEF Start
<1>3. CASE Call(dt)
  <2>1. ASSUME NEW s, NEW fresh, NEW move, NEW still,
               Report(s, dt, fresh, move, still)
        PROVE  clocked'
    BY <2>1 DEF Report, Clocked
  <2>2. ASSUME NEW s, Outage(s, dt) PROVE clocked'
    BY <2>2 DEF Outage, Clocked
  <2>3. ASSUME NEW on, SetEnabled(on, dt) PROVE clocked'
    BY <2>3 DEF SetEnabled
  <2>4. ASSUME NEW z, RecordBaseline(z, dt) PROVE clocked'
    BY <2>4 DEF RecordBaseline
  <2>5. ASSUME NEW s, StaleTimer(s, dt) PROVE clocked'
    BY <2>5 DEF StaleTimer, Fires, MayFire, Clocked
  <2>6. ASSUME NEW z, MotionOffTimer(z, dt) PROVE clocked'
    BY <2>6 DEF MotionOffTimer, Fires, MayFire, Clocked
  <2>7. ASSUME NEW z, NEW success, BaselineEndTimer(z, dt, success)
        PROVE  clocked'
    BY <2>7 DEF BaselineEndTimer, Fires, MayFire, Clocked
  <2> QED
    BY <1>3, <2>1, <2>2, <2>3, <2>4, <2>5, <2>6, <2>7, Zenon DEF Call
<1> QED BY <1>1, <1>2, <1>3 DEF Steps

LEMMA RefreshedZones ==
  ASSUME IInv', home \in Homes, NEW dt \in Nat, Refresh(dt)
  PROVE  home' \in Homes /\ HomeCoversZones'
<1>1. \A z \in DOMAIN zones' : zones'[z].lam \in Lams
  BY DEF IInv, TypeOK, ZoneStates
<1>2. home' = RefreshHome(home, zones', dt)
  BY DEF Refresh
<1>3. /\ home' \in Homes
      /\ Healthy(zones') # {} => home'.on = HomeLatch(home.on, home'.lam)
      /\ \A z \in HealthyOccupied(zones') : home'.lam >= zones'[z].lam
  BY <1>1, <1>2, Refreshed
<1>4. ASSUME NEW z \in HealthyOccupied(zones'), zones'[z].lam >= LamHomeOn
      PROVE  home'.on
  <2>1. Healthy(zones') # {} /\ z \in DOMAIN zones'
    BY DEF HealthyOccupied, Healthy
  <2> DEFINE mine == zones'[z].lam
             lam == home'.lam
  <2>2. mine \in Int /\ lam \in Int /\ lam >= mine /\ mine >= LamHomeOn
    BY <1>1, <1>3, <1>4, <2>1 DEF Homes, Lams
  <2> HIDE DEF mine, lam
  <2>3. lam >= LamHomeOn /\ lam > LamHomeOff
    BY <2>2, FusionAssumption DEF Lams
  <2>4. HomeLatch(home.on, lam)
    BY <2>3 DEF HomeLatch
  <2> QED BY <1>3, <2>1, <2>4 DEF lam
<1> QED BY <1>3, <1>4 DEF HomeCoversZones

LEMMA StepEngineInv ==
  ASSUME EngineInv, NEW dt, Steps(dt), NEW passed \in Nat, Refresh(passed)
  PROVE  EngineInv'
<1>1. IInv'
  BY TickKeeps, StartKeeps, CallKeeps DEF Steps, EngineInv
<1>2. clocked'
  BY StepClocks DEF EngineInv
<1> QED BY <1>1, <1>2, RefreshedZones DEF EngineInv, Clocked

LEMMA InitEngineInv == EngineInit => EngineInv
<1> SUFFICES ASSUME EngineInit PROVE EngineInv
  OBVIOUS
<1>1. IInv /\ ~clocked /\ Clocked
  BY InitSound DEF EngineInit, Init, NoTimers, Clocked
<1>2. home \in Homes
  BY LamsOrder DEF EngineInit, NobodyHome, Homes
<1> QED BY <1>1, <1>2 DEF EngineInv, HomeCoversZones

(* What every step of the engine is *)
LEMMA EngineSteps ==
  ASSUME EngineNext
  PROVE  \E dt, passed \in 0 .. MaxDt : Steps(dt) /\ Refresh(passed)
<1>1. 0 .. CallDt \subseteq 0 .. MaxDt /\ 0 \in 0 .. MaxDt
  BY EstimatorAssumption
<1> QED BY <1>1 DEF EngineNext, Steps

LEMMA NextEngineInv == EngineInv /\ [EngineNext]_engineVars => EngineInv'
<1> SUFFICES ASSUME EngineInv, [EngineNext]_engineVars PROVE EngineInv'
  OBVIOUS
<1>1. CASE EngineNext
  <2>1. PICK dt, passed \in 0 .. MaxDt : Steps(dt) /\ Refresh(passed)
    BY <1>1, EngineSteps
  <2>2. passed \in Nat
    BY EstimatorAssumption
  <2> QED BY <2>1, <2>2, StepEngineInv
<1>2. CASE UNCHANGED engineVars
  <2>1. UNCHANGED vars /\ home' = home /\ IInv
    BY <1>2 DEF engineVars, EngineInv
  <2>2. IInv'
    BY <2>1, StutterKeeps
  <2> QED BY <2>1, <2>2 DEF EngineInv, Clocked, HomeCoversZones, vars
<1> QED BY <1>1, <1>2

(* EngineInv is an inductive invariant of the engine, whose zones are the  *)
(* estimator's and whose home is refreshed at the end of every call        *)
(* (engine.py 226-293, fusion.py 21-28).                                   *)
THEOREM EngineInductive == EngineSpec => []EngineInv
BY InitEngineInv, NextEngineInv, PTL DEF EngineSpec

(* After every call the home is as convinced as its most convinced healthy *)
(* occupied zone, and on if that zone reaches the home's threshold: no     *)
(* fading while a zone was blind outlasts its recovery (fusion.py 77-94).  *)
THEOREM HomeIsCovered == EngineSpec => []HomeCoversZones
BY EngineInductive, PTL DEF EngineInv

----------------------------------------------------------------------------
(* What a room says *)

LEMMA SeverityRank ==
  ASSUME NEW activity \in Activities
  PROVE  /\ Severity(activity) \in 0 .. 3
         /\ Severity(activity) > 0 <=> activity # "EMPTY"
<1>1. CASE activity = "EMPTY"
  BY <1>1 DEF Severity
<1>2. CASE activity = "PASSING"
  BY <1>2 DEF Severity
<1>3. CASE activity = "ACTIVE"
  BY <1>3 DEF Severity
<1>4. CASE activity = "SETTLED"
  BY <1>4 DEF Severity
<1> QED BY <1>1, <1>2, <1>3, <1>4 DEF Activities

LEMMA RoomAgrees ==
  ASSUME NEW r, RoomState(r).known, ActivityConsistent, started,
         zones \in [Zones -> ZoneStates]
  PROVE  LET healthy == Healthy(zones) \cap {z \in Zones : RoomOf[z] = r}
         IN  /\ healthy # {} /\ healthy \subseteq Healthy(zones)
             /\ RoomState(r).occupied <=> \E z \in healthy : zones[z].occupied
             /\ RoomState(r).occupied <=> RoomState(r).severity > 0
             /\ RoomState(r).settled => RoomState(r).occupied
<1> DEFINE healthy == Healthy(zones) \cap {z \in Zones : RoomOf[z] = r}
           severities == {Severity(zones[z].activity) : z \in healthy}
           room == [known    |-> TRUE,
                    occupied |-> \E z \in healthy : zones[z].occupied,
                    motion   |-> \E z \in healthy : zones[z].motion,
                    lam      |-> Max({zones[z].lam : z \in healthy}),
                    severity |-> Max(severities),
                    settled  |-> \E z \in healthy : zones[z].activity = "SETTLED"]
<1>1. RoomState(r) = IF healthy = {} THEN Unknown ELSE room
  BY DEF RoomState, Room
<1>2. healthy # {} /\ RoomState(r) = room
  BY <1>1 DEF Unknown
<1>3. /\ room.occupied <=> \E z \in healthy : zones[z].occupied
      /\ room.severity = Max(severities)
      /\ room.settled <=> \E z \in healthy : zones[z].activity = "SETTLED"
  OBVIOUS
<1>4. \A z \in healthy : /\ z \in Zones /\ zones[z].activity \in Activities
                         /\ zones[z].occupied <=> zones[z].activity # "EMPTY"
  BY DEF ZoneStates, ActivityConsistent
<1> HIDE DEF room
<1>5. Max(severities) \in severities /\ \A x \in severities : x <= Max(severities)
  <2>1. severities \subseteq 0 .. 3 /\ severities # {}
    BY <1>2, <1>4, SeverityRank
  <2> HIDE DEF severities
  <2> DEFINE top == 3
  <2>2. /\ severities \subseteq Int /\ severities # {} /\ top \in Int
        /\ \A x \in severities : x <= top
    BY <2>1
  <2> HIDE DEF top
  <2> QED BY <2>2, LargestOf
<1>6. (\E z \in healthy : zones[z].occupied) <=> Max(severities) > 0
  <2>1. ASSUME NEW z \in healthy, zones[z].occupied PROVE Max(severities) > 0
    <3> DEFINE mine == Severity(zones[z].activity)
    <3>1. mine \in severities
      OBVIOUS
    <3>2. mine \in 0 .. 3 /\ mine > 0
      BY <1>4, <2>1, SeverityRank
    <3>3. Max(severities) \in Int
      <4>1. PICK y \in healthy : Max(severities) = Severity(zones[y].activity)
        BY <1>5
      <4> QED BY <1>4, <4>1, SeverityRank
    <3>4. mine <= Max(severities)
      BY <1>5, <3>1
    <3> HIDE DEF mine, severities
    <3> QED BY <3>2, <3>3, <3>4
  <2>2. ASSUME Max(severities) > 0 PROVE \E z \in healthy : zones[z].occupied
    <3>1. PICK z \in healthy : Max(severities) = Severity(zones[z].activity)
      BY <1>5
    <3> QED BY <1>4, <2>2, <3>1, SeverityRank
  <2> QED BY <2>1, <2>2
<1>7. (\E z \in healthy : zones[z].activity = "SETTLED")
        => \E z \in healthy : zones[z].occupied
  BY <1>4
<1> HIDE DEF severities
<1> QED BY <1>2, <1>3, <1>6, <1>7

(* What a room and the home publish agrees, and rests on the members under *)
(* watch alone, whatever the health of the others: known exactly with one  *)
(* of them, occupied only with one that holds somebody and has convinced   *)
(* the home as much, in motion exactly with a pending hold of one          *)
(* (fusion.py 31-97, health.py 30-110, filter.py 149-198).                 *)
THEOREM RoomsRestOnTheWatched == EngineSpec => []RoomsShowTheWatched
<1>1. EngineInv => RoomsShowTheWatched
  <2> SUFFICES ASSUME EngineInv, started PROVE RoomsShowTheWatched
    BY DEF RoomsShowTheWatched
  <2>1. /\ ActivityConsistent /\ BlindOrWatched /\ MotionHeld
        /\ zones \in [Zones -> ZoneStates] /\ clocked /\ HomeCoversZones
    <3>1. ActivityConsistent
      BY DEF EngineInv, IInv, ZoneSound, ClocksExclude, OccupancyRecorded,
        Stamped, ActivityConsistent
    <3>2. BlindOrWatched
      BY HealthWatched DEF EngineInv
    <3>3. MotionHeld
      BY DEF EngineInv, IInv, Agrees, Holding, Pending, MotionHeld
    <3> QED BY <3>1, <3>2, <3>3, TypeParts DEF EngineInv, IInv, Typed, Clocked
  <2>2. ASSUME NEW r \in Rooms
        PROVE  LET room == RoomState(r)
                   watched == {z \in Zones :
                     RoomOf[z] = r /\ SensorStale(SensorOf[z]) \in DOMAIN timers}
               IN  /\ room.known <=> watched # {}
                   /\ room.known =>
                        /\ room.occupied <=> room.severity > 0
                        /\ room.settled => room.occupied
                        /\ room.occupied => \E z \in watched :
                             zones[z].since # None /\ home.lam >= zones[z].lam
                        /\ room.motion <=>
                             \E z \in watched : MotionOff(z) \in DOMAIN timers
    <3> DEFINE watched == {z \in Zones :
                 RoomOf[z] = r /\ SensorStale(SensorOf[z]) \in DOMAIN timers}
               members == {z \in Zones : RoomOf[z] = r}
               healthy == Healthy(zones) \cap members
    <3>1. healthy = watched
      BY <2>1 DEF BlindOrWatched, Healthy
    <3>2. RoomState(r).known <=> healthy # {}
      BY DEF RoomState, Room, Unknown
    <3>3. ASSUME RoomState(r).known
          PROVE  /\ RoomState(r).occupied <=> RoomState(r).severity > 0
                 /\ RoomState(r).settled => RoomState(r).occupied
                 /\ RoomState(r).occupied <=> \E z \in healthy : zones[z].occupied
                 /\ RoomState(r).motion <=> \E z \in healthy : zones[z].motion
      <4>1. RoomState(r).motion <=> \E z \in healthy : zones[z].motion
        BY <3>2, <3>3 DEF RoomState, Room
      <4> QED BY <2>1, <3>3, <4>1, RoomAgrees
    <3>4. ASSUME NEW z \in healthy
          PROVE  /\ zones[z].motion <=> MotionOff(z) \in DOMAIN timers
                 /\ zones[z].occupied => /\ zones[z].since # None
                                         /\ home.lam >= zones[z].lam
      <4>1. z \in Zones /\ zones[z].health = "OK"
        BY <2>1 DEF Healthy
      <4>2. zones[z].occupied => z \in HealthyOccupied(zones)
        BY <2>1, <4>1 DEF Healthy, HealthyOccupied
      <4> QED BY <2>1, <4>1, <4>2 DEF MotionHeld, ActivityConsistent, HomeCoversZones
    <3> HIDE DEF healthy
    <3> QED BY <3>1, <3>2, <3>3, <3>4
  <2>3. AnyoneHome(home, zones).known <=> \E r \in Rooms : RoomState(r).known
    <3>1. AnyoneHome(home, zones).known <=> Healthy(zones) # {}
      BY DEF AnyoneHome, Unknown
    <3>2. ASSUME NEW z \in Healthy(zones)
          PROVE  RoomOf[z] \in Rooms /\ RoomState(RoomOf[z]).known
      <4>1. z \in Zones
        BY <2>1 DEF Healthy
      <4>2. z \in Healthy(zones) \cap {y \in Zones : RoomOf[y] = RoomOf[z]}
        BY <4>1
      <4> QED BY <4>1, <4>2 DEF Rooms, RoomState, Room
    <3>3. ASSUME NEW r \in Rooms, RoomState(r).known PROVE Healthy(zones) # {}
      BY <2>1, <3>3, RoomAgrees
    <3> QED BY <3>1, <3>2, <3>3
  <2> QED BY <2>2, <2>3 DEF RoomsShowTheWatched
<1> QED BY <1>1, EngineInductive, PTL

----------------------------------------------------------------------------
(* The refinement of Home: the operators of the instance are the engine's, *)
(* and fusion reads of a zone what it shows and nothing else.              *)

LEMMA PromisedOperators ==
  /\ Promised!Lams = Lams
  /\ Promised!NobodyHome = NobodyHome
  /\ \A x : Promised!Clamp(x) = Clamp(x)
  /\ \A a, b : Promised!Larger(a, b) = Larger(a, b)
  /\ \A occupied, lam : Promised!Latch(occupied, lam) = Switched(occupied, lam)
BY DEF Promised!Lams, Lams, Promised!NobodyHome, NobodyHome, Promised!Clamp,
  Clamp, Promised!Larger, Larger, Promised!Smaller, Smaller, Promised!Latch,
  Switched

LEMMA PromisedFusion ==
  ASSUME NEW h, NEW sh, NEW dt
  PROVE  Promised!RefreshHome(h, sh, dt) = RefreshHome(h, sh, dt)
<1>1. Promised!Healthy(sh) = Healthy(sh)
      /\ Promised!HealthyOccupied(sh) = HealthyOccupied(sh)
  BY DEF Promised!Healthy, Healthy, Promised!HealthyOccupied, HealthyOccupied
<1>2. \A S : Promised!Max(S) = Max(S)
  BY DEF Promised!Max, Max
<1>0. \A lam, target, tau :
        Promised!RelaxOnce(lam, target, tau) = RelaxOnce(lam, target, tau)
  BY DEF Promised!RelaxOnce, RelaxOnce, Promised!AwayFromZero, AwayFromZero
<1>3. \A lam, target, tau :
        Promised!DecayToward(lam, target, dt, tau) = DecayToward(lam, target, dt, tau)
  BY <1>0 DEF Promised!DecayToward, DecayToward
<1>4. \A lam : Promised!Faded(lam, dt) = Faded(lam, dt)
  BY <1>3 DEF Promised!Faded, Faded
<1>5. \A on, lam : Promised!HomeLatch(on, lam) = HomeLatch(on, lam)
  BY DEF Promised!HomeLatch, HomeLatch
<1> QED
  BY <1>1, <1>2, <1>4, <1>5, PromisedOperators
    DEF Promised!RefreshHome, RefreshHome

LEMMA ShowsEnough ==
  ASSUME NEW zst \in [Zones -> ZoneStates], NEW h, NEW dt
  PROVE  LET sh == [z \in Zones |-> [health |-> zst[z].health,
                                     occupied |-> zst[z].occupied,
                                     lam |-> zst[z].lam]]
         IN  /\ sh \in [Zones -> Promised!Shown]
             /\ Promised!RefreshHome(h, sh, dt) = RefreshHome(h, zst, dt)
<1> DEFINE sh == [z \in Zones |-> [health |-> zst[z].health,
                                   occupied |-> zst[z].occupied,
                                   lam |-> zst[z].lam]]
<1>1. sh \in [Zones -> Promised!Shown]
  BY PromisedOperators DEF ZoneStates, Promised!Shown
<1>2. Healthy(sh) = Healthy(zst) /\ HealthyOccupied(sh) = HealthyOccupied(zst)
  BY DEF Healthy, HealthyOccupied
<1>3. \A z \in HealthyOccupied(zst) : sh[z].lam = zst[z].lam
  BY DEF Healthy, HealthyOccupied
<1> HIDE DEF sh
<1>4. {sh[z].lam : z \in HealthyOccupied(sh)} = {zst[z].lam : z \in HealthyOccupied(zst)}
  BY <1>2, <1>3
<1>5. RefreshHome(h, sh, dt) = RefreshHome(h, zst, dt)
  BY <1>2, <1>4 DEF RefreshHome
<1>6. sh \in [Zones -> Promised!Shown] /\ Promised!RefreshHome(h, sh, dt) = RefreshHome(h, zst, dt)
  BY <1>1, <1>5, PromisedFusion
<1> QED BY <1>6 DEF sh

(* What the advance does to a zone, and what a handler may then do to it,  *)
(* is what is promised of it.                                              *)
LEMMA PromiseKept ==
  ASSUME NEW old \in Promised!Shown, NEW new \in Promised!Shown,
         NEW adv, adv.lam \in Lams, adv.occupied \in BOOLEAN,
         adv.health = old.health,
         adv.occupied <=> Switched(old.occupied, adv.lam),
         old.health # "OK" => adv.lam = old.lam /\ adv.occupied = old.occupied,
         \/ new.lam = adv.lam /\ new.occupied = adv.occupied
         \/ new.health = "OK" /\ Lifted(new, adv)
         \/ new.health = adv.health /\ new.lam = LamPrior /\ ~new.occupied
  PROVE  Promised!ZoneStep(old, new)
<1> DEFINE advanced == [old EXCEPT !.lam = adv.lam,
                                   !.occupied = Promised!Latch(@, adv.lam)]
<1>1. /\ old.health \in {"OK", "UNKNOWN"} /\ old.occupied \in BOOLEAN
      /\ new.occupied \in BOOLEAN /\ old.lam \in Lams /\ new.lam \in Lams
  BY PromisedOperators DEF Promised!Shown
<1>2. \A on \in BOOLEAN, lam \in Lams : Switched(on, lam) \in BOOLEAN
  <2> TAKE on \in BOOLEAN, lam \in Lams
  <2>1. lam \in Int /\ LamOff \in Int /\ LamOn \in Int
    BY LamsOrder
  <2>2. Switched(on, lam) = TRUE \/ Switched(on, lam) = FALSE
    BY <2>1 DEF Switched
  <2> QED BY <2>2
<1>3. advanced.lam = adv.lam /\ advanced.occupied = adv.occupied
  <2>1. Promised!Latch(old.occupied, adv.lam) = adv.occupied
    BY <1>1, <1>2, PromisedOperators
  <2> QED BY <2>1 DEF Promised!Shown
<1>4. ASSUME NEW base, base.lam = adv.lam, base.occupied = adv.occupied,
             new.health = "OK", Lifted(new, adv)
      PROVE  Promised!Attacks(base, new)
  <2>1. new.occupied = Switched(adv.occupied, new.lam)
    BY <1>1, <1>2, <1>4 DEF Lifted
  <2>2. new.lam = Promised!Clamp(Promised!Larger(base.lam, LamAttack))
    BY <1>4, PromisedOperators DEF Lifted
  <2>3. new.occupied = Promised!Latch(base.occupied, new.lam)
    BY <1>4, <2>1, PromisedOperators
  <2> QED BY <1>4, <2>2, <2>3 DEF Promised!Attacks
<1> HIDE DEF advanced
<1>5. CASE \/ new.lam = adv.lam /\ new.occupied = adv.occupied
           \/ new.health = "OK" /\ Lifted(new, adv)
  <2>1. CASE old.health = "OK"
    <3>1. \/ new.lam = advanced.lam /\ new.occupied = advanced.occupied
          \/ Promised!Attacks(advanced, new)
      BY <1>3, <1>4, <1>5
    <3>2. adv.lam \in Promised!Lams
      BY PromisedOperators
    <3>3. Promised!Estimates(old, new)
      BY <2>1, <3>1, <3>2 DEF Promised!Estimates, advanced
    <3> QED BY <3>3 DEF Promised!ZoneStep
  <2>2. CASE old.health = "UNKNOWN"
    <3>1. \/ new.lam = old.lam /\ new.occupied = old.occupied
          \/ Promised!Attacks(old, new)
      BY <1>4, <1>5, <2>2
    <3> QED BY <2>2, <3>1 DEF Promised!Holds, Promised!ZoneStep
  <2> QED BY <1>1, <2>1, <2>2
<1>6. CASE new.health = adv.health /\ new.lam = LamPrior /\ ~new.occupied
  BY <1>6 DEF Promised!Voids, Promised!ZoneStep
<1> QED BY <1>5, <1>6

LEMMA StepPromised ==
  ASSUME EngineInv, EngineInv', NEW dt, Steps(dt), NEW z \in Zones
  PROVE  Promised!ZoneStep(ShownZone(z), ShownZone(z)')
<1> DEFINE old == ShownZone(z)
           new == ShownZone(z)'
<1>1. zones \in [Zones -> ZoneStates] /\ zones' \in [Zones -> ZoneStates]
      /\ IInv /\ ZoneSound(zones[z])
  BY TypeParts DEF EngineInv, IInv, Typed
<1>2. /\ old \in Promised!Shown /\ new \in Promised!Shown
      /\ old.health = zones[z].health /\ old.lam = zones[z].lam
      /\ old.occupied = zones[z].occupied
      /\ new.health = zones'[z].health /\ new.lam = zones'[z].lam
      /\ new.occupied = zones'[z].occupied
  BY <1>1, PromisedOperators DEF ShownZone, Promised!Shown, ZoneStates
<1> HIDE DEF old, new
<1>3. ASSUME Tick(dt) \/ Call(dt) PROVE Promised!ZoneStep(old, new)
  <2> DEFINE adv == AdvancedZone(z, dt)
  <2>1. dt \in Nat
    BY <1>3, StepElapses, ElapsedType
  <2>2. /\ adv.occupied <=> Switched(zones[z].occupied, adv.lam)
        /\ zones[z].health = "UNKNOWN" => Published(adv) = Published(zones[z])
    BY <1>1, <2>1, AdvancedTrace
  <2>3. ZoneSound(adv) /\ adv.health = zones[z].health
    BY <1>1, <2>1, AdvancedSound DEF Kept
  <2>4. Follows(zones'[z], adv, views'[SensorOf[z]].move.at[z])
    BY <1>1, <1>3, StepFollows
  <2> HIDE DEF adv
  <2>5. old.health # "OK" => adv.lam = old.lam /\ adv.occupied = old.occupied
    BY <1>1, <1>2, <2>2 DEF Published, ZoneSound, ZoneStates
  <2>6. adv.lam \in Lams /\ adv.occupied \in BOOLEAN
    BY <2>3 DEF ZoneSound, ZoneStates
  <2>7. \/ new.lam = adv.lam /\ new.occupied = adv.occupied
        \/ new.health = "OK" /\ Lifted(new, adv)
        \/ new.health = adv.health /\ new.lam = LamPrior /\ ~new.occupied
    BY <1>2, <2>4 DEF Follows, Lifted
  <2> QED BY <1>2, <2>2, <2>3, <2>5, <2>6, <2>7, PromiseKept
<1>4. ASSUME Start(dt) PROVE Promised!ZoneStep(old, new)
  <2> DEFINE aged == Aged(zones[z], dt)
  <2>1. dt \in Nat
    BY <1>4, ElapsedType DEF Start
  <2>2. ZoneSound(aged) /\ Kept(aged, zones[z])
        /\ aged.lam = zones[z].lam /\ aged.occupied = zones[z].occupied
    BY <1>1, <2>1, AgedSound, AgedSame
  <2>3. zones'[z] = IF zones[z].occupied THEN OnOccupied(aged) ELSE aged
    BY <1>4 DEF Start
  <2> HIDE DEF aged
  <2>4. OnOccupied(aged).lam = aged.lam /\ OnOccupied(aged).occupied = aged.occupied
    BY <2>2 DEF OnOccupied, ZoneSound, ZoneStates
  <2>5. zones'[z].lam = zones[z].lam /\ zones'[z].occupied = zones[z].occupied
    BY <2>2, <2>3, <2>4
  <2>6. zones[z].occupied <=> Switched(zones[z].occupied, zones[z].lam)
    BY <1>1, TurnedSelf DEF Turned
  <2>7. zones[z].lam \in Lams /\ zones[z].occupied \in BOOLEAN
    BY <1>1 DEF ZoneStates
  <2> DEFINE adv == zones[z]
  <2> HIDE DEF adv
  <2> QED BY <1>2, <2>5, <2>6, <2>7, PromiseKept DEF adv
<1> QED BY <1>3, <1>4 DEF Steps, old, new

LEMMA InitPromised == EngineInit => Promised!HomeInit
<1> SUFFICES ASSUME EngineInit PROVE Promised!HomeInit
  OBVIOUS
<1>1. zones \in [Zones -> ZoneStates] /\ Init
  BY InitSound, TypeParts DEF EngineInit, IInv, Typed
<1>2. [z \in Zones |-> ShownZone(z)] \in [Zones -> Promised!Shown]
  BY <1>1, ShowsEnough DEF ShownZone
<1>3. ASSUME NEW z \in Zones
      PROVE  \/ zones[z].lam = LamPrior /\ ~zones[z].occupied
             \/ zones[z].lam = LamOn /\ zones[z].occupied /\ zones[z].health = "OK"
  <2> DEFINE view == views[SensorOf[z]]
             health == IF view.available THEN "OK" ELSE "UNKNOWN"
             fresh == [health |-> health, lam |-> LamPrior, occupied |-> FALSE,
                       activity |-> "EMPTY", motion |-> FALSE,
                       recording |-> FALSE, zMove |-> 0, zStill |-> 0,
                       attack |-> NoChain, since |-> None,
                       stillDom |-> None, moveDom |-> None]
             zMove == Centered(RawStatistic(Snapshot(view.move).at[z]))
             zStill == Centered(RawStatistic(Snapshot(view.still).at[z]))
             scored == [fresh EXCEPT !.zMove = zMove, !.zStill = zStill]
             adopted == [scored EXCEPT !.lam = LamOn, !.occupied = TRUE]
  <2>1. zones[z] = SeedZone(view, z)
    BY <1>1 DEF Init
  <2>2. \/ zones[z] = fresh
        \/ view.available /\ zones[z] \in {scored, adopted}
    BY <2>1 DEF SeedZone, Ingest
  <2> HIDE DEF zMove, zStill, view
  <2>3. /\ fresh.lam = LamPrior /\ ~fresh.occupied
        /\ scored.lam = LamPrior /\ ~scored.occupied
        /\ adopted.lam = LamOn /\ adopted.occupied /\ adopted.health = health
    OBVIOUS
  <2>4. view.available => health = "OK"
    OBVIOUS
  <2> HIDE DEF fresh, scored, adopted, health
  <2> QED BY <2>2, <2>3, <2>4
<1>4. Promised!PromiseInit
  BY <1>2, <1>3 DEF Promised!PromiseInit, ShownZone
<1>5. home = Promised!NobodyHome /\ clocked = FALSE
  BY <1>1, PromisedOperators DEF EngineInit, Init
<1> QED BY <1>4, <1>5 DEF Promised!HomeInit

LEMMA NextPromised ==
  EngineInv /\ EngineInv' /\ [EngineNext]_engineVars
    => [Promised!HomeNext]_(Promised!homeVars)
<1> SUFFICES ASSUME EngineInv, EngineInv', [EngineNext]_engineVars
             PROVE  [Promised!HomeNext]_(Promised!homeVars)
  OBVIOUS
<1>1. CASE EngineNext
  <2>1. PICK dt, passed \in 0 .. MaxDt : Steps(dt) /\ Refresh(passed)
    BY <1>1, EngineSteps
  <2>2. zones' \in [Zones -> ZoneStates]
    BY TypeParts DEF EngineInv, IInv, Typed
  <2>3. /\ [z \in Zones |-> ShownZone(z)'] \in [Zones -> Promised!Shown]
        /\ home' = Promised!RefreshHome(home, [z \in Zones |-> ShownZone(z)'], passed)
    BY <2>1, <2>2, ShowsEnough DEF Refresh, ShownZone
  <2>4. \A z \in Zones : Promised!ZoneStep(ShownZone(z), ShownZone(z)')
    BY <2>1, StepPromised
  <2>5. Promised!PromiseNext
    BY <2>3, <2>4 DEF Promised!PromiseNext
  <2>6. clocked' = TRUE
    BY <2>1, StepClocks DEF EngineInv, IInv, TypeOK
  <2>7. Promised!HomeStep(passed)
    BY <2>3, <2>5, <2>6 DEF Promised!HomeStep
  <2> QED BY <2>7 DEF Promised!HomeNext
<1>2. CASE UNCHANGED engineVars
  BY <1>2 DEF engineVars, vars, Promised!homeVars, ShownZone
<1> QED BY <1>1, <1>2

(* The engine implements home presence over promised zones: every call is  *)
(* one step of Home, whatever else its zones remember                      *)
(* (filter.py 25-174, evidence.py 462, fusion.py 67-97).                   *)
THEOREM EngineImplementsHome == EngineSpec => ImplementsHome
<1>1. EngineInv /\ EngineInv' /\ [EngineNext]_engineVars
        => [Promised!HomeNext]_(Promised!homeVars)
  BY NextPromised
<1> QED
  BY <1>1, InitPromised, EngineInductive, PTL
    DEF EngineSpec, ImplementsHome, Promised!HomeSpec

----------------------------------------------------------------------------
(* How the home is left                                                    *)

LEMMA EngineHomeSteps ==
  EngineInv /\ EngineInv' /\ [EngineNext]_engineVars
    => [LeavesByAbsence /\ FadesInSight]_engineVars
<1> SUFFICES ASSUME EngineInv, EngineInv', EngineNext
             PROVE  LeavesByAbsence /\ FadesInSight
  OBVIOUS
<1>1. PICK dt, passed \in 0 .. MaxDt : Steps(dt) /\ Refresh(passed)
  BY EngineSteps
<1>2. /\ home \in Homes /\ passed \in Nat
      /\ home' = RefreshHome(home, zones', passed)
      /\ \A z \in DOMAIN zones' : zones'[z].lam \in Lams
  BY <1>1, EstimatorAssumption DEF EngineInv, IInv, TypeOK, ZoneStates, Refresh
<1>3. /\ home' \in Homes
      /\ Healthy(zones') = {} => home' = home
      /\ Healthy(zones') # {} => home'.on = HomeLatch(home.on, home'.lam)
      /\ \A z \in HealthyOccupied(zones') : home'.lam >= zones'[z].lam
      /\ home'.lam < home.lam => /\ Healthy(zones') # {} /\ HealthyOccupied(zones') = {}
                                 /\ home'.lam >= LamPrior
  BY <1>2, Refreshed
<1>4. FadesInSight
  BY <1>3 DEF FadesInSight
<1>5. ASSUME home.on, ~home'.on
      PROVE  /\ Healthy(zones') # {}
             /\ \A z \in HealthyOccupied(zones') : zones'[z].lam <= LamHomeOff
  <2>1. Healthy(zones') # {} /\ ~(home'.lam > LamHomeOff)
    BY <1>3, <1>5 DEF HomeLatch
  <2>2. ASSUME NEW z \in HealthyOccupied(zones') PROVE zones'[z].lam <= LamHomeOff
    <3>1. home'.lam \in Int /\ LamHomeOff \in Int
      BY <1>3, FusionAssumption DEF Homes, Lams
    <3>2. zones'[z].lam \in Int /\ home'.lam >= zones'[z].lam
      BY <1>2, <1>3, LamsOrder DEF HealthyOccupied, Healthy, Lams
    <3> QED BY <2>1, <3>1, <3>2
  <2> QED BY <2>1, <2>2
<1> QED BY <1>4, <1>5 DEF LeavesByAbsence

(* The engine's home is left by absence alone: never in a call after which *)
(* no zone sees, and never beside a healthy occupied zone whose belief is  *)
(* above the home's own threshold (fusion.py 74-91).                       *)
THEOREM HomeIsLeftByAbsence == EngineSpec => HomeLeftOnlyByAbsence
<1>1. EngineInv /\ EngineInv' /\ [EngineNext]_engineVars
        => [LeavesByAbsence]_engineVars
  BY EngineHomeSteps
<1> QED BY <1>1, EngineInductive, PTL DEF EngineSpec, HomeLeftOnlyByAbsence

(* A blind home is held, and one the engine sees empty fades to the prior  *)
(* at most, however long the call has been waited for (fusion.py 71-84).   *)
THEOREM HomeFadesToPrior == EngineSpec => HomeFadesOnlyInSight
<1>1. EngineInv /\ EngineInv' /\ [EngineNext]_engineVars
        => [FadesInSight]_engineVars
  BY EngineHomeSteps
<1> QED BY <1>1, EngineInductive, PTL DEF EngineSpec, HomeFadesOnlyInSight

----------------------------------------------------------------------------
(* The fast attack, judged from the log                                    *)
(*                                                                         *)
(* A live chain of count candidates stands on count logged ones, linked by *)
(* their spacing; how far back they reach is bounded, so no logged age in  *)
(* use has saturated.                                                      *)

Reach == GapCap - 1

Links(chain, candidates, ages) ==
  /\ ages \in [1 .. chain.count -> {c.age : c \in candidates}]
  /\ ages[chain.count] = chain.age
  /\ \A i \in 1 .. chain.count - 1 :
       /\ ages[i] - ages[i + 1] >= GapMin(chain.path)
       /\ ages[i] - ages[i + 1] <= GapMax(chain.path)
  /\ \A i \in 1 .. chain.count :
       ages[i] <= chain.age + (chain.count - i) * Reach

Earned(chain, candidates) ==
  /\ \A c \in candidates : c.age \in 0 .. LogCap
  /\ chain.count = 0 => candidates = {}
  /\ chain.count > 0 =>
       /\ chain.path \in {"agg", "gate"}
       /\ \A c \in candidates : c.path = chain.path
       /\ chain.age < GapCap => \E ages : Links(chain, candidates, ages)

LEMMA GapTypes ==
  /\ GapCap \in Nat \ {0} /\ Reach \in Nat /\ LogCap \in Nat
  /\ \A path \in {"agg", "gate"} :
       GapMin(path) \in Nat /\ GapMax(path) \in Nat /\ GapMax(path) <= Reach
<1>1. ConfiguredGapMin \in Nat
  BY ZoneFilterAssumption DEF ConfiguredGapMin, Larger
<1>2. ASSUME NEW path \in {"agg", "gate"}
      PROVE  GapMin(path) \in Nat /\ GapMax(path) \in Nat
  <2>1. GapMin(path) \in Nat
    BY <1>1, ZoneFilterAssumption DEF GapMin, Larger
  <2> QED BY <1>1, <2>1, ZoneFilterAssumption DEF GapMax
<1>3. GapMax("agg") \in Nat /\ GapMax("gate") \in Nat
  BY <1>2
<1>4. GapCap \in Nat \ {0} /\ GapMax("agg") < GapCap /\ GapMax("gate") < GapCap
  BY <1>3 DEF GapCap, Larger
<1>5. LogCap \in Nat
  <2>1. AttackConfirm \in Nat
    BY ZoneFilterAssumption
  <2> QED BY <1>4, <2>1 DEF LogCap
<1> QED BY <1>2, <1>3, <1>4, <1>5 DEF Reach

(* A whole chain is shorter than the log is kept. *)
LEMMA ReachLogged ==
  ASSUME NEW n \in 1 .. AttackConfirm, NEW i \in 1 .. n
  PROVE  Reach + (n - i) * Reach <= LogCap
<1>1. AttackConfirm \in Nat /\ Reach \in Nat /\ GapCap \in Nat /\ Reach <= GapCap
  BY GapTypes, ZoneFilterAssumption DEF Reach
<1> DEFINE m == n - i + 1
           confirm == AttackConfirm
           reach == Reach
           cap == GapCap
<1>2. /\ m \in Nat /\ m <= confirm /\ confirm \in Nat
      /\ reach \in Nat /\ cap \in Nat /\ reach <= cap
  BY <1>1
<1>3. reach + (n - i) * reach = m * reach
  BY <1>2
<1> HIDE DEF m, confirm, reach, cap
<1>4. m * reach <= confirm * reach
  BY <1>2
<1>5. confirm * reach <= confirm * cap
  BY <1>2
<1>6. m * reach <= confirm * cap
  BY <1>2, <1>4, <1>5
<1> QED BY <1>3, <1>6 DEF confirm, reach, cap, LogCap

AgedAttack(chain, dt) == [chain EXCEPT !.age = Older(@, dt, GapCap)]

LEMMA RecordedAges ==
  ASSUME NEW candidates, \A c \in candidates : c.age \in 0 .. LogCap,
         NEW dt \in Nat
  PROVE  /\ \A c \in Recorded(candidates, dt) :
              /\ c.age \in 0 .. LogCap
              /\ \E d \in candidates : c.path = d.path
         /\ \A a \in {c.age : c \in candidates} : a + dt <= LogCap =>
              a + dt \in {c.age : c \in Recorded(candidates, dt)}
<1>1. ASSUME NEW d \in candidates
      PROVE  /\ Smaller(d.age + dt, LogCap) \in 0 .. LogCap
             /\ d.age + dt <= LogCap => Smaller(d.age + dt, LogCap) = d.age + dt
  BY GapTypes DEF Smaller
<1>2. \A a, path : Candidate(a, path).age = a /\ Candidate(a, path).path = path
  BY DEF Candidate
<1>3. ASSUME NEW c \in Recorded(candidates, dt)
      PROVE  /\ c.age \in 0 .. LogCap
             /\ \E d \in candidates : c.path = d.path
  <2>1. PICK d \in candidates : c = Candidate(Smaller(d.age + dt, LogCap), d.path)
    BY DEF Recorded
  <2> QED BY <1>1, <1>2, <2>1
<1>4. ASSUME NEW d \in candidates, d.age + dt <= LogCap
      PROVE  d.age + dt \in {c.age : c \in Recorded(candidates, dt)}
  <2> DEFINE e == Candidate(Smaller(d.age + dt, LogCap), d.path)
  <2>1. e \in Recorded(candidates, dt)
    BY DEF Recorded
  <2>2. e.age = d.age + dt
    BY <1>1, <1>2, <1>4
  <2> HIDE DEF e
  <2> QED BY <2>1, <2>2
<1> QED BY <1>3, <1>4

(* A chain and its candidates grow older together. *)
LEMMA AgedEarned ==
  ASSUME NEW chain \in Chains, ChainForm(chain), NEW candidates,
         Earned(chain, candidates), NEW dt \in Nat
  PROVE  Earned(AgedAttack(chain, dt), Recorded(candidates, dt))
<1> DEFINE aged == AgedAttack(chain, dt)
           older == Recorded(candidates, dt)
<1>1. /\ aged.count = chain.count /\ aged.path = chain.path
      /\ aged.age = Older(chain.age, dt, GapCap)
  BY DEF AgedAttack, Chains
<1>2. \A c \in candidates : c.age \in 0 .. LogCap
  BY DEF Earned
<1>3. \A c \in older : /\ c.age \in 0 .. LogCap
                       /\ \E d \in candidates : c.path = d.path
  BY <1>2, RecordedAges
<1> HIDE DEF aged, older
<1>4. chain.count = 0 => older = {}
  BY <1>3 DEF Earned
<1>5. ASSUME chain.count > 0
      PROVE  /\ aged.path \in {"agg", "gate"}
             /\ \A c \in older : c.path = aged.path
  BY <1>1, <1>3, <1>5 DEF Earned
<1>6. ASSUME chain.count > 0, aged.age < GapCap
      PROVE  \E ages : Links(aged, older, ages)
  <2> DEFINE n == chain.count
             age == chain.age
             path == chain.path
  <2>1. n \in 1 .. AttackConfirm /\ age \in 0 .. GapCap /\ GapCap \in Nat
        /\ age # None
    BY <1>6, GapTypes, ZoneFilterAssumption DEF Chains, ChainForm, Ages
  <2>2. aged.age = age + dt /\ age + dt <= Reach /\ age < GapCap
    BY <1>1, <1>6, <2>1 DEF Older, Smaller, Reach
  <2>3. PICK ages : Links(chain, candidates, ages)
    BY <1>6, <2>2 DEF Earned
  <2> DEFINE later == [i \in 1 .. n |-> ages[i] + dt]
  <2>4. ASSUME NEW i \in 1 .. n
        PROVE  /\ ages[i] \in Int /\ later[i] = ages[i] + dt
               /\ ages[i] \in {c.age : c \in candidates}
               /\ later[i] <= aged.age + (n - i) * Reach
               /\ later[i] <= LogCap
    <3>1. ages[i] \in {c.age : c \in candidates} /\ ages[i] <= age + (n - i) * Reach
      BY <2>3 DEF Links
    <3>2. ages[i] \in 0 .. LogCap
      BY <1>2, <3>1
    <3>3. Reach + (n - i) * Reach <= LogCap
      BY <2>1, ReachLogged
    <3> DEFINE back == (n - i) * Reach
    <3>4. back \in Int /\ Reach \in Nat /\ LogCap \in Nat
      BY <2>1, GapTypes
    <3> HIDE DEF back
    <3>5. ages[i] + dt <= aged.age + back /\ ages[i] + dt <= LogCap
      BY <2>1, <2>2, <3>1, <3>2, <3>3, <3>4 DEF back
    <3> QED BY <3>1, <3>2, <3>5 DEF back
  <2>5. later \in [1 .. n -> {c.age : c \in older}]
    <3>1. ASSUME NEW i \in 1 .. n PROVE later[i] \in {c.age : c \in older}
      BY <1>2, <2>4, RecordedAges DEF older
    <3> QED BY <3>1
  <2>6. later[n] = aged.age
    BY <2>1, <2>2, <2>3, <2>4 DEF Links
  <2>7. ASSUME NEW i \in 1 .. n - 1
        PROVE  /\ later[i] - later[i + 1] >= GapMin(path)
               /\ later[i] - later[i + 1] <= GapMax(path)
    <3>1. i \in 1 .. n /\ i + 1 \in 1 .. n
      BY <2>1
    <3>2. /\ ages[i] - ages[i + 1] >= GapMin(path)
          /\ ages[i] - ages[i + 1] <= GapMax(path)
      BY <2>3 DEF Links
    <3>3. ages[i] \in Int /\ ages[i + 1] \in Int
          /\ later[i] = ages[i] + dt /\ later[i + 1] = ages[i + 1] + dt
      BY <2>4, <3>1
    <3>4. later[i] - later[i + 1] = ages[i] - ages[i + 1]
      BY <3>3
    <3> QED BY <3>2, <3>4
  <2> HIDE DEF later
  <2>8. Links(aged, older, later)
    BY <1>1, <2>4, <2>5, <2>6, <2>7 DEF Links
  <2> QED BY <2>8
<1> QED BY <1>1, <1>3, <1>4, <1>5, <1>6 DEF Earned, aged, older

LEMMA NoChainEarned == Earned(NoChain, {})
BY DEF Earned, NoChain

(* A frame keeps the chain's candidates on its own path, or drops both. *)
SamePath(candidates, path) ==
  IF {c \in candidates : c.path = path} = candidates THEN candidates ELSE {}

LEMMA KeptEarned ==
  ASSUME NEW chain \in Chains, ChainForm(chain), NEW candidates,
         Earned(chain, candidates), NEW path \in {"agg", "gate"}
  PROVE  LET kept == OnPath(chain, path)
         IN  /\ Earned(kept, SamePath(candidates, path))
             /\ kept \in Chains /\ ChainForm(kept)
             /\ kept.count > 0 => kept.path = path
             /\ \A c \in SamePath(candidates, path) : c.path = path
<1>1. \A c \in SamePath(candidates, path) : c.path = path
  BY DEF SamePath
<1>2. NoChain.count = 0 /\ NoChain.path = "none"
  BY DEF NoChain
<1>3. chain.count \in Nat
  BY DEF Chains
<1>4. CASE chain.count = 0
  <2>1. chain = NoChain /\ candidates = {}
    BY <1>4 DEF ChainForm, Earned
  <2>2. OnPath(chain, path) = NoChain /\ SamePath(candidates, path) = {}
    BY <1>2, <2>1 DEF OnPath, SamePath
  <2> QED BY <1>2, <2>2, NoChainEarned, NoChainSound
<1>5. CASE chain.count > 0 /\ chain.path = path
  <2>1. \A c \in candidates : c.path = path
    BY <1>5 DEF Earned
  <2>2. OnPath(chain, path) = chain /\ SamePath(candidates, path) = candidates
    BY <1>5, <2>1 DEF OnPath, SamePath
  <2> QED BY <1>5, <2>1, <2>2
<1>6. CASE chain.count > 0 /\ chain.path # path
  <2>1. chain.path # "none" /\ \A c \in candidates : c.path # path
    BY <1>6 DEF Earned
  <2>2. OnPath(chain, path) = NoChain /\ SamePath(candidates, path) = {}
    BY <1>6, <2>1 DEF OnPath, SamePath
  <2> QED BY <1>2, <2>2, NoChainEarned, NoChainSound
<1> QED BY <1>3, <1>4, <1>5, <1>6

(* One more candidate at its spacing: the chain lengthens, or lets go of   *)
(* its first.                                                              *)
LEMMA LengthenedEarned ==
  ASSUME NEW chain \in Chains, NEW candidates, Earned(chain, candidates),
         chain.count > 0, chain.age \in Nat,
         chain.age >= GapMin(chain.path), chain.age <= GapMax(chain.path)
  PROVE  Earned([chain EXCEPT !.count = Smaller(@ + 1, AttackConfirm), !.age = 0],
                candidates \cup {Candidate(0, chain.path)})
<1> DEFINE n == chain.count
           path == chain.path
           count == Smaller(n + 1, AttackConfirm)
           longer == [chain EXCEPT !.count = count, !.age = 0]
           more == candidates \cup {Candidate(0, path)}
           gone == n + 1 - count
<1>1. n \in 1 .. AttackConfirm /\ AttackConfirm \in Nat
  BY ZoneFilterAssumption DEF Chains
<1>2. count \in 1 .. AttackConfirm /\ gone \in {0, 1} /\ count + gone = n + 1
  BY <1>1 DEF Smaller
<1> HIDE DEF count
<1>3. longer.count = count /\ longer.age = 0 /\ longer.path = path
  BY DEF Chains
<1>4. path \in {"agg", "gate"} /\ (\A c \in candidates : c.path = path)
      /\ \A c \in candidates : c.age \in 0 .. LogCap
  BY DEF Earned
<1>5. Candidate(0, path).age = 0 /\ Candidate(0, path).path = path
  BY DEF Candidate
<1>6. /\ \A c \in more : c.path = path /\ c.age \in 0 .. LogCap
      /\ {c.age : c \in candidates} \subseteq {c.age : c \in more}
      /\ 0 \in {c.age : c \in more}
  BY <1>4, <1>5, GapTypes
<1>7. chain.age <= Reach /\ chain.age < GapCap
  BY <1>4, GapTypes DEF Reach
<1>8. PICK ages : Links(chain, candidates, ages)
  BY <1>7 DEF Earned
<1>9. \A i \in 1 .. n : /\ ages[i] \in {c.age : c \in candidates}
                        /\ ages[i] \in 0 .. LogCap
  BY <1>4, <1>8 DEF Links
<1> DEFINE later == [i \in 1 .. count |-> IF i = count THEN 0 ELSE ages[i + gone]]
<1>10. ASSUME NEW i \in 1 .. count - 1
       PROVE  i + gone \in 1 .. n /\ i \in 1 .. count /\ i + 1 \in 1 .. count
              /\ (i + 1 = count <=> i + gone = n)
              /\ (i + 1 # count => i + gone \in 1 .. n - 1)
  BY <1>1, <1>2
<1> HIDE DEF gone
<1>11. later \in [1 .. count -> {c.age : c \in more}]
  <2>1. ASSUME NEW i \in 1 .. count PROVE later[i] \in {c.age : c \in more}
    <3>1. CASE i = count
      BY <1>6, <3>1
    <3>2. CASE i # count
      <4>1. i \in 1 .. count - 1 /\ later[i] = ages[i + gone]
        BY <1>2, <3>2
      <4>2. ages[i + gone] \in {c.age : c \in candidates}
        BY <1>9, <1>10, <4>1
      <4> QED BY <1>6, <4>1, <4>2
    <3> QED BY <3>1, <3>2
  <2> QED BY <2>1
<1>12. later[count] = 0
  BY <1>2
<1>13. ASSUME NEW i \in 1 .. count - 1
       PROVE  /\ later[i] - later[i + 1] >= GapMin(path)
              /\ later[i] - later[i + 1] <= GapMax(path)
  <2>1. later[i] = ages[i + gone]
    BY <1>2, <1>10
  <2>2. CASE i + 1 = count
    <3>1. later[i] = chain.age /\ later[i + 1] = 0
      BY <1>8, <1>10, <1>12, <2>1, <2>2 DEF Links
    <3> QED BY <3>1
  <2>3. CASE i + 1 # count
    <3>1. later[i + 1] = ages[(i + gone) + 1]
      <4>1. (i + gone) + 1 = (i + 1) + gone
        BY <1>2
      <4> QED BY <1>10, <2>3, <4>1
    <3> QED BY <1>8, <1>10, <2>1, <2>3, <3>1 DEF Links
  <2> QED BY <2>2, <2>3
<1>14. ASSUME NEW i \in 1 .. count
       PROVE  later[i] <= 0 + (count - i) * Reach
  <2>1. CASE i = count
    BY <1>12, <2>1, <1>2, GapTypes
  <2>2. CASE i # count
    <3> DEFINE j == i + gone
    <3>1. i \in 1 .. count - 1
      BY <1>2, <2>2
    <3>2. later[i] = ages[j] /\ j \in 1 .. n /\ ages[j] \in Int
      BY <1>2, <1>9, <1>10, <3>1
    <3>3. ages[j] <= chain.age + (n - j) * Reach
      BY <1>8, <3>2 DEF Links
    <3>4. (count - i) = (n - j) + 1
      BY <1>1, <1>2
    <3>5. (count - i) * Reach = (n - j) * Reach + Reach
      BY <1>1, <3>2, <3>4, GapTypes
    <3> DEFINE back == (n - j) * Reach
    <3>6. back \in Int /\ Reach \in Int
      BY <1>1, <3>2, GapTypes
    <3>7. ages[j] <= back + Reach
      <4> DEFINE mine == ages[j]
      <4> HIDE DEF back, mine
      <4>1. mine <= chain.age + back /\ mine \in Int
        BY <3>2, <3>3 DEF back, mine
      <4>2. mine <= back + Reach
        BY <1>7, <3>6, <4>1
      <4> QED BY <4>2 DEF mine
    <3> DEFINE mine == later[i]
               product == (count - i) * Reach
    <3>8. mine = ages[j] /\ mine \in Int /\ product = back + Reach
      BY <3>2, <3>5
    <3> HIDE DEF back, mine, product
    <3>9. mine <= back + Reach
      BY <3>7, <3>8
    <3>10. mine <= 0 + product
      BY <3>6, <3>8, <3>9
    <3> QED BY <3>10 DEF mine, product
  <2> QED BY <2>1, <2>2
<1> HIDE DEF later, longer, more
<1>15. Links(longer, more, later)
  BY <1>3, <1>11, <1>12, <1>13, <1>14 DEF Links
<1>16. Earned(longer, more)
  <2>1. ~(count = 0)
    BY <1>2
  <2> QED BY <1>3, <1>4, <1>6, <1>15, <2>1 DEF Earned
<1> QED BY <1>16 DEF longer, more, count

(* What a frame of an undisturbed zone does to the chain and to its log *)
FramedChain(chain, r, fresh) ==
  LET kept == OnPath(chain, EvidencePath(r))
  IN  IF "energy" \in fresh THEN ExtendChain(kept, r) ELSE kept

LEMMA HeardEarned ==
  ASSUME NEW chain \in Chains, ChainForm(chain), NEW candidates,
         Earned(chain, candidates), NEW r, NEW fresh
  PROVE  Earned(FramedChain(chain, r, fresh),
                Heard(candidates, r, "energy" \in fresh))
<1> DEFINE path == EvidencePath(r)
           kept == OnPath(chain, path)
           known == SamePath(candidates, path)
           more == known \cup {Candidate(0, path)}
           new == ExtendChain(kept, r)
<1>1. path \in {"agg", "gate"}
  BY DEF EvidencePath
<1>2. /\ Earned(kept, known) /\ kept \in Chains /\ ChainForm(kept)
      /\ kept.count > 0 => kept.path = path
      /\ \A c \in known : c.path = path
  BY <1>1, KeptEarned
<1>3. Heard(candidates, r, "energy" \in fresh)
        = IF ~("energy" \in fresh) THEN known ELSE IF AttackCandidate(r) THEN more ELSE {}
  BY DEF Heard, SamePath
<1> HIDE DEF kept, known
<1>4. CASE ~AttackCandidate(r)
  <2>1. new = NoChain
    BY <1>4 DEF ExtendChain
  <2> QED BY <1>2, <1>3, <1>4, <2>1, NoChainEarned DEF kept, FramedChain
<1>5. ASSUME AttackCandidate(r) PROVE Earned(new, more)
  <2>1. /\ GapMin(path) \in Nat /\ GapMax(path) \in Nat
        /\ kept.age \in Int /\ kept.count \in Nat
        /\ kept.age # None => kept.age \in Nat
        /\ kept.age = None <=> kept.count = 0
        /\ GapMax(path) < GapCap
    <3>1. kept.age \in Int /\ kept.count \in Nat /\ (kept.age # None => kept.age \in Nat)
      BY <1>2, GapTypes, ZoneFilterAssumption DEF Chains, Ages, None
    <3> QED BY <1>1, <1>2, <3>1, GapTypes DEF ChainForm, Reach
  <2>2. /\ \A c \in known : c.age \in 0 .. LogCap
        /\ \A c \in more : c.age \in 0 .. LogCap /\ c.path = path
        /\ {c.age : c \in known} \subseteq {c.age : c \in more}
        /\ 0 \in {c.age : c \in more}
    <3>1. Candidate(0, path).age = 0 /\ Candidate(0, path).path = path
      BY DEF Candidate
    <3> QED BY <1>2, <3>1, GapTypes DEF Earned
  <2>3. CASE kept.age = None \/ kept.age > GapMax(path)
    <3> DEFINE one == [count |-> 1, age |-> 0, path |-> path]
               ages == [i \in 1 .. 1 |-> 0]
    <3>1. new = one
      BY <1>5, <2>1, <2>3 DEF ExtendChain
    <3>2. Links(one, more, ages)
      <4> HIDE DEF more
      <4>1. ages \in [1 .. 1 -> {c.age : c \in more}]
        BY <2>2
      <4>2. \A i \in 1 .. 1 : i = 1 /\ ages[i] = 0
        OBVIOUS
      <4>3. (1 - 1) * Reach = 0
        BY GapTypes
      <4> HIDE DEF ages
      <4>4. ages[1] <= 0 + (1 - 1) * Reach
        BY <4>2, <4>3
      <4> QED BY <4>1, <4>2, <4>4 DEF Links
    <3> HIDE DEF more, ages
    <3> QED BY <1>1, <2>2, <3>1, <3>2 DEF Earned
  <2>4. CASE /\ kept.age # None /\ kept.age <= GapMax(path)
             /\ kept.age >= GapMin(path)
    <3>1. new = [kept EXCEPT !.count = Smaller(@ + 1, AttackConfirm), !.age = 0]
      BY <1>5, <2>1, <2>4 DEF ExtendChain
    <3>2. kept.count > 0 /\ kept.path = path /\ kept.age \in Nat
      BY <1>2, <2>1, <2>4
    <3> HIDE DEF new
    <3> QED BY <1>2, <2>4, <3>1, <3>2, LengthenedEarned
  <2>5. CASE /\ kept.age # None /\ kept.age <= GapMax(path)
             /\ ~(kept.age >= GapMin(path))
    <3>1. new = kept
      BY <1>5, <2>1, <2>5 DEF ExtendChain
    <3>2. kept.count > 0 /\ kept.path = path /\ kept.age < GapCap
      BY <1>2, <2>1, <2>5, GapTypes
    <3>3. PICK ages : Links(kept, known, ages)
      BY <1>2, <3>2 DEF Earned
    <3> HIDE DEF new, more
    <3>4. Links(kept, more, ages)
      BY <2>2, <3>3 DEF Links
    <3> QED BY <1>1, <2>2, <3>1, <3>2, <3>4 DEF Earned
  <2> QED BY <2>1, <2>3, <2>4, <2>5
<1>6. FramedChain(chain, r, fresh) = IF "energy" \in fresh THEN new ELSE kept
  BY DEF FramedChain, kept
<1> HIDE DEF new, more
<1> QED BY <1>2, <1>3, <1>4, <1>5, <1>6

(* An advance only ages the chain. *)
LEMMA AdvancedAttack ==
  ASSUME IInv, NEW dt \in Nat, NEW z \in Zones
  PROVE  AdvancedZone(z, dt).attack = AgedAttack(zones[z].attack, dt)
<1> DEFINE chain == zones[z].attack
<1>1. ZoneSound(zones[z]) /\ chain \in Chains
  BY DEF IInv, ZoneSound, ZoneStates
<1>2. CASE dt = 0
  <2>1. Older(chain.age, 0, GapCap) = chain.age
    BY <1>1, GapTypes DEF Older, Smaller, Chains, Ages, None
  <2> HIDE DEF chain
  <2>2. AgedAttack(chain, 0) = chain
    BY <1>1, <2>1 DEF AgedAttack, Chains
  <2> QED BY <1>2, <2>2 DEF AdvancedZone, chain
<1>3. CASE dt # 0
  <2> DEFINE aged == Aged(zones[z], dt)
             sst == sensors[SensorOf[z]]
             filtered == AdvanceZone(aged, sst, dt)
  <2>1. aged.attack = AgedAttack(chain, dt) /\ ZoneSound(aged)
    <3>1. aged.attack = AgedAttack(chain, dt)
      BY <1>1 DEF Aged, AgedAttack, ZoneSound, ZoneStates
    <3> QED BY <1>1, <3>1, AgedSound
  <2>2. AdvancedZone(z, dt) = TickZone(filtered)
    BY <1>3 DEF AdvancedZone
  <2> HIDE DEF aged, sst
  <2>3. filtered.attack = aged.attack
    BY <2>1, SetLambdaTurns DEF AdvanceZone, SameEvidence, ZoneSound
  <2>4. ZoneSound(filtered)
    BY <2>1, AdvanceZoneSound
  <2> HIDE DEF filtered
  <2>5. TickZone(filtered).attack = filtered.attack
    BY <2>4, TickZoneSame DEF SameEvidence
  <2> QED BY <2>1, <2>2, <2>3, <2>5
<1> QED BY <1>2, <1>3

(* A frame hands the filter the aged chain. *)
LEMMA FramedAttack ==
  ASSUME IInv, NEW dt \in Nat, NEW z \in Zones, NEW fresh,
         NEW move \in ChannelView, NEW still \in ChannelView
  PROVE  LET new == FramedZone(z, dt, fresh, move, still)
             aged == AdvancedZone(z, dt).attack
         IN  /\ Suspended(new) => new.attack = aged
             /\ ~Suspended(new) =>
                  new.attack = FramedChain(aged, move.at[z], fresh)
<1> DEFINE adv == AdvancedZone(z, dt)
           recovered == IF "frame" \in fresh
                        THEN [adv EXCEPT !.health = "OK"] ELSE adv
           scored == Ingest(recovered, move.at[z], still.at[z])
           attacked == Attack(scored, move.at[z], "energy" \in fresh)
           motion == \/ MotionEvidence(attacked, move.at[z], move.flag)
                     \/ attacked.motion /\ MotionOff(z) \in DOMAIN timers
           framed == [attacked EXCEPT !.motion = motion]
           new == FramedZone(z, dt, fresh, move, still)
           kept == OnPath(adv.attack, EvidencePath(move.at[z]))
           chain == IF "energy" \in fresh
                    THEN ExtendChain(kept, move.at[z]) ELSE kept
<1>1. ZoneSound(adv)
  BY AdvancedSound
<1>2. new = IF Suspended(scored) THEN scored ELSE framed
  BY DEF FramedZone
<1> HIDE DEF adv, new
<1>3. ZoneSound(recovered) /\ recovered.attack = adv.attack
  <2>1. [adv EXCEPT !.health = "OK"].attack = adv.attack
    BY <1>1 DEF ZoneSound, ZoneStates
  <2> QED BY <1>1, <2>1, RecoveredSound
<1> HIDE DEF recovered
<1>4. ZoneSound(scored) /\ scored.attack = adv.attack
  <2>1. move.at[z].raw \in Int /\ still.at[z].raw \in Int
    BY DEF ChannelView, Reading
  <2> QED BY <1>3, <2>1, IngestSound, IngestSame
<1> HIDE DEF scored
<1>5. CASE Suspended(scored)
  BY <1>2, <1>4, <1>5 DEF adv, new
<1>6. CASE ~Suspended(scored)
  <2>1. ZoneSound(attacked) /\ Kept(attacked, scored)
    BY <1>4, <1>6, AttackSound
  <2>2. attacked.attack = chain
    <3> DEFINE chained == [scored EXCEPT !.attack = chain]
               lam == Larger(scored.lam, LamAttack)
    <3>1. attacked \in {SetLambda(chained, lam), chained}
      BY <1>4 DEF Attack
    <3>2. kept \in Chains /\ ChainForm(kept)
      BY <1>1, NoChainSound DEF OnPath, ZoneSound, ZoneStates, ChainSound
    <3> HIDE DEF kept
    <3>3. chain \in Chains /\ ChainForm(chain)
      BY <3>2, ExtendChainSound
    <3> HIDE DEF chain
    <3>4. ZoneSound(chained)
      BY <1>4, <1>6, <3>3, ChainedSound
    <3>5. chained.attack = chain
      BY <1>4 DEF ZoneSound, ZoneStates
    <3> HIDE DEF chained, lam, attacked
    <3>6. SetLambda(chained, lam).attack = chain
      BY <3>4, <3>5, SetLambdaTurns DEF SameEvidence, ZoneSound
    <3> QED BY <3>1, <3>5, <3>6
  <2> HIDE DEF attacked, chain
  <2>3. framed.attack = attacked.attack /\ framed.health = attacked.health
        /\ framed.recording = attacked.recording
    BY <2>1 DEF ZoneSound, ZoneStates
  <2> HIDE DEF framed
  <2>4. ~Suspended(framed)
    BY <1>6, <2>1, <2>3 DEF Kept, Suspended
  <2>5. chain = FramedChain(adv.attack, move.at[z], fresh)
    BY DEF chain, kept, FramedChain
  <2> QED BY <1>2, <1>6, <2>2, <2>3, <2>4, <2>5 DEF adv, new
<1> QED BY <1>5, <1>6

ChainsEarned == \A z \in Zones : Earned(zones[z].attack, log[z])

(* A call that leaves a zone its aged chain or clears it, and treats its   *)
(* log alike                                                               *)
LEMMA LoggedEarned ==
  ASSUME IInv, ChainsEarned, NEW dt, Elapses(dt), NEW z \in Zones,
         NEW interrupted, LogInterrupted(dt, interrupted),
         zones'[z].attack = IF z \in interrupted THEN NoChain
                            ELSE AdvancedZone(z, dt).attack
  PROVE  Earned(zones'[z].attack, log'[z])
<1>1. dt \in Nat
  BY ElapsedType
<1>2. zones[z].attack \in Chains /\ ChainForm(zones[z].attack)
  BY DEF IInv, ZoneSound, ZoneStates, ChainSound
<1>3. Earned(AdvancedZone(z, dt).attack, Recorded(log[z], dt))
  BY <1>1, <1>2, AgedEarned, AdvancedAttack DEF ChainsEarned
<1>4. log'[z] = IF z \in interrupted THEN {} ELSE Recorded(log[z], dt)
  BY DEF LogInterrupted
<1> QED BY <1>3, <1>4, NoChainEarned

LEMMA LogReportEarned ==
  ASSUME IInv, ChainsEarned, NEW dt, NEW s \in Sensors, NEW fresh,
         NEW move \in MoveViews[s], NEW still \in StillViews[s],
         LogReport(s, dt, fresh, move, still), NEW z \in Zones
  PROVE  Earned(zones'[z].attack, log'[z])
<1> DEFINE r == move.at[z]
           aged == AdvancedZone(z, dt).attack
           known == Recorded(log[z], dt)
<1>1. Report(s, dt, fresh, move, still) /\ Elapses(dt) /\ dt \in Nat
  BY ElapsedType DEF LogReport, Report
<1>2. log'[z] = IF SensorOf[z] = s /\ ~Suspended(zones'[z])
                THEN Heard(known, r, "energy" \in fresh) ELSE known
  BY DEF LogReport
<1>3. /\ aged \in Chains /\ ChainForm(aged)
      /\ Earned(aged, known)
  <2>1. zones[z].attack \in Chains /\ ChainForm(zones[z].attack)
    BY DEF IInv, ZoneSound, ZoneStates, ChainSound
  <2>2. aged \in Chains /\ ChainForm(aged)
    BY <1>1, AdvancedSound DEF ZoneSound, ZoneStates, ChainSound
  <2> QED BY <1>1, <2>1, <2>2, AgedEarned, AdvancedAttack DEF ChainsEarned
<1>4. CASE SensorOf[z] = s
  <2>1. zones'[z] = FramedZone(z, dt, fresh, move, still)
    BY <1>1, <1>4 DEF Report
  <2>2. move \in ChannelView /\ still \in ChannelView
    BY EstimatorAssumption
  <2>3. /\ Suspended(zones'[z]) => zones'[z].attack = aged
        /\ ~Suspended(zones'[z]) =>
             zones'[z].attack = FramedChain(aged, r, fresh)
    BY <1>1, <2>1, <2>2, FramedAttack
  <2> HIDE DEF aged, known, r
  <2>5. Earned(FramedChain(aged, r, fresh),
               Heard(known, r, "energy" \in fresh))
    BY <1>3, HeardEarned
  <2>6. CASE Suspended(zones'[z])
    BY <1>2, <1>3, <2>3, <2>6
  <2>7. CASE ~Suspended(zones'[z])
    <3>1. log'[z] = Heard(known, r, "energy" \in fresh)
      BY <1>2, <1>4, <2>7
    <3> QED BY <2>3, <2>5, <2>7, <3>1
  <2> QED BY <2>6, <2>7
<1>5. CASE SensorOf[z] # s
  <2>1. zones'[z].attack = aged
    BY <1>1, <1>5 DEF Report
  <2> QED BY <1>2, <1>3, <1>5, <2>1
<1> QED BY <1>4, <1>5

LEMMA LogStepEarned ==
  ASSUME IInv, ChainsEarned, LogNext
  PROVE  ChainsEarned'
<1> SUFFICES ASSUME NEW z \in Zones
             PROVE  Earned(zones'[z].attack, log'[z])
  BY DEF ChainsEarned
<1> DEFINE Goal == Earned(zones'[z].attack, log'[z])
           adv(dt) == AdvancedZone(z, dt)
<1>1. \A dt : Elapses(dt) => ZoneSound(adv(dt)) /\ ZoneSound(zones[z])
  BY ElapsedType, AdvancedSound DEF IInv
<1>2. ASSUME NEW dt, LogTick(dt) PROVE Goal
  <2>1. zones'[z] = adv(dt) /\ Elapses(dt) /\ LogInterrupted(dt, {})
    BY <1>2 DEF LogTick, Tick, Advance
  <2> QED BY <2>1, LoggedEarned
<1>3. ASSUME NEW dt, LogStart(dt) PROVE Goal
  <2> DEFINE aged == Aged(zones[z], dt)
             chain == AgedAttack(zones[z].attack, dt)
  <2>1. /\ Elapses(dt) /\ LogInterrupted(dt, {})
        /\ zones'[z] = IF zones[z].occupied THEN OnOccupied(aged) ELSE aged
    BY <1>3 DEF LogStart, Start
  <2>2. dt \in Nat /\ ZoneSound(zones[z])
    BY <1>1, <2>1, ElapsedType
  <2>3. ZoneSound(aged) /\ aged.attack = chain
    BY <2>2, AgedSound DEF Aged, AgedAttack, ZoneSound, ZoneStates
  <2>4. AdvancedZone(z, dt).attack = chain
    BY <2>2, AdvancedAttack
  <2> HIDE DEF aged, chain
  <2>5. OnOccupied(aged).attack = chain
    BY <2>3 DEF OnOccupied, ZoneSound, ZoneStates
  <2>6. zones'[z].attack = AdvancedZone(z, dt).attack
    BY <2>1, <2>3, <2>4, <2>5
  <2> QED BY <2>1, <2>6, LoggedEarned
<1>4. ASSUME NEW dt, NEW s \in Sensors, LogOutage(s, dt) PROVE Goal
  <2> DEFINE lost == [adv(dt) EXCEPT !.health = "UNKNOWN", !.attack = NoChain]
  <2>1. /\ Elapses(dt) /\ LogInterrupted(dt, ZonesOf(s))
        /\ zones'[z] = IF SensorOf[z] = s THEN lost ELSE adv(dt)
    BY <1>4 DEF LogOutage, Outage
  <2>2. lost.attack = NoChain
    BY <1>1, <2>1 DEF ZoneSound, ZoneStates
  <2> HIDE DEF adv, lost
  <2>3. zones'[z].attack = IF z \in ZonesOf(s) THEN NoChain ELSE adv(dt).attack
    BY <2>1, <2>2 DEF ZonesOf
  <2> QED BY <2>1, <2>3, LoggedEarned DEF adv
<1>5. ASSUME NEW dt, NEW s \in Sensors, LogStaleTimer(s, dt) PROVE Goal
  <2> DEFINE health == IF SilenceBlinds(s, Advance(dt)) THEN "UNKNOWN"
                       ELSE adv(dt).health
             silent == [adv(dt) EXCEPT !.health = health, !.attack = NoChain]
  <2>1. /\ Elapses(dt) /\ LogInterrupted(dt, ZonesOf(s))
        /\ zones'[z] = IF SensorOf[z] = s THEN silent ELSE adv(dt)
    BY <1>5 DEF LogStaleTimer, StaleTimer, Fires, Advance
  <2> HIDE DEF health
  <2>2. silent.attack = NoChain
    BY <1>1, <2>1 DEF ZoneSound, ZoneStates
  <2> HIDE DEF adv, silent
  <2>3. zones'[z].attack = IF z \in ZonesOf(s) THEN NoChain ELSE adv(dt).attack
    BY <2>1, <2>2 DEF ZonesOf
  <2> QED BY <2>1, <2>3, LoggedEarned DEF adv
<1>6. ASSUME NEW dt, NEW on, LogSetEnabled(on, dt) PROVE Goal
  <2>1. zones'[z] = adv(dt) /\ Elapses(dt) /\ LogInterrupted(dt, {})
    BY <1>6 DEF LogSetEnabled, SetEnabled, Advance
  <2> QED BY <2>1, LoggedEarned
<1>7. ASSUME NEW dt, NEW y \in Zones, LogRecordBaseline(y, dt) PROVE Goal
  <2>1. /\ Elapses(dt) /\ LogInterrupted(dt, {y})
        /\ zones'[z] = IF z = y THEN Pinned(adv(dt)) ELSE adv(dt)
    BY <1>7 DEF LogRecordBaseline, RecordBaseline, Advance
  <2>2. Pinned(adv(dt)).attack = NoChain
    BY <1>1, <2>1 DEF Pinned, ZoneSound, ZoneStates
  <2> HIDE DEF adv
  <2>3. zones'[z].attack = IF z \in {y} THEN NoChain ELSE adv(dt).attack
    BY <2>1, <2>2
  <2> QED BY <2>1, <2>3, LoggedEarned DEF adv
<1>8. ASSUME NEW dt, NEW y \in Zones, LogMotionOffTimer(y, dt) PROVE Goal
  <2> DEFINE motion == adv(dt).motion /\ zones[z].health # "OK"
             new == [adv(dt) EXCEPT !.motion = motion]
  <2>1. /\ Elapses(dt) /\ LogInterrupted(dt, {})
        /\ zones'[z] = IF z = y THEN new ELSE adv(dt)
    BY <1>8 DEF LogMotionOffTimer, MotionOffTimer, Fires, Advance
  <2> HIDE DEF motion
  <2>2. new.attack = adv(dt).attack
    BY <1>1, <2>1 DEF ZoneSound, ZoneStates
  <2> HIDE DEF adv, new
  <2>3. zones'[z].attack = adv(dt).attack
    BY <2>1, <2>2
  <2> QED BY <2>1, <2>3, LoggedEarned DEF adv
<1>9. ASSUME NEW dt, NEW y \in Zones, NEW success,
             LogBaselineEndTimer(y, dt, success)
      PROVE  Goal
  <2> DEFINE new == [adv(dt) EXCEPT !.recording = FALSE]
  <2>1. /\ Elapses(dt) /\ LogInterrupted(dt, {})
        /\ zones'[z] = IF z = y THEN new ELSE adv(dt)
    BY <1>9 DEF LogBaselineEndTimer, BaselineEndTimer, Fires, Advance
  <2>2. new.attack = adv(dt).attack
    BY <1>1, <2>1 DEF ZoneSound, ZoneStates
  <2> HIDE DEF adv, new
  <2>3. zones'[z].attack = adv(dt).attack
    BY <2>1, <2>2
  <2> QED BY <2>1, <2>3, LoggedEarned DEF adv
<1>10. ASSUME NEW dt, NEW s \in Sensors, NEW fresh, NEW move \in MoveViews[s],
              NEW still \in StillViews[s], LogReport(s, dt, fresh, move, still)
       PROVE  Goal
  BY <1>10, LogReportEarned
<1> HIDE DEF Goal
<1>11. Goal
  BY <1>2, <1>3, <1>4, <1>5, <1>6, <1>7, <1>8, <1>9, <1>10, ZenonT(30) DEF LogNext
<1> QED BY <1>11 DEF Goal

(* The log watches the estimator and never acts on it. *)
LEMMA LogNextIsNext == LogNext => Next
BY DEF LogNext, Next, Call, LogTick, LogStart, LogReport, LogOutage,
  LogStaleTimer, LogSetEnabled, LogRecordBaseline, LogMotionOffTimer,
  LogBaselineEndTimer

LEMMA EarnedInductive == LogSpec => [](IInv /\ ChainsEarned)
<1>1. LogInit => Init /\ ChainsEarned
  <2> SUFFICES ASSUME LogInit, NEW z \in Zones
               PROVE  Init /\ Earned(zones[z].attack, log[z])
    BY DEF LogInit, ChainsEarned
  <2>1. zones[z].attack = NoChain
    BY DEF LogInit, Init, SeedZone, Ingest
  <2> QED BY <2>1, NoChainEarned DEF LogInit
<1>2. ASSUME IInv, ChainsEarned, [LogNext]_logVars
      PROVE  ChainsEarned'
  <2>1. CASE LogNext
    BY <1>2, <2>1, LogStepEarned
  <2>2. CASE UNCHANGED logVars
    BY <1>2, <2>2 DEF logVars, vars, ChainsEarned
  <2> QED BY <1>2, <2>1, <2>2
<1>3. [LogNext]_logVars => [Next]_vars
  BY LogNextIsNext DEF logVars
<1> QED BY <1>1, <1>2, <1>3, Inductive, PTL DEF LogSpec, Spec

(* A confirmed chain stands on AttackConfirm logged candidates of its own  *)
(* path, each spaced from the one before as rule 4.2 demands, whatever     *)
(* was blind, calibrated, quiet or on another path before them (filter.py  *)
(* 115-174).                                                               *)
THEOREM AttackIsEarned == LogSpec => []ConfirmedBySpacedCandidates
<1>1. ASSUME IInv, ChainsEarned PROVE ConfirmedBySpacedCandidates
  <2> SUFFICES ASSUME NEW z \in Zones, zones[z].attack.count = AttackConfirm,
                      zones[z].attack.age = 0
               PROVE  /\ \E ages \in [1 .. AttackConfirm -> {c.age : c \in log[z]}] :
                           /\ ages[AttackConfirm] = 0
                           /\ Spaced(ages, zones[z].attack.path)
                      /\ \A c \in log[z] : c.path = zones[z].attack.path
    BY DEF ConfirmedBySpacedCandidates
  <2>1. Earned(zones[z].attack, log[z])
    BY <1>1 DEF ChainsEarned
  <2>2. AttackConfirm > 0 /\ 0 < GapCap
    BY ZoneFilterAssumption, GapTypes
  <2>3. PICK ages : Links(zones[z].attack, log[z], ages)
    BY <2>1, <2>2 DEF Earned
  <2>4. /\ ages \in [1 .. AttackConfirm -> {c.age : c \in log[z]}]
        /\ ages[AttackConfirm] = 0
        /\ Spaced(ages, zones[z].attack.path)
    BY <2>3 DEF Links, Spaced
  <2>5. \A c \in log[z] : c.path = zones[z].attack.path
    BY <2>1, <2>2 DEF Earned
  <2> QED BY <2>4, <2>5
<1> QED BY <1>1, EarnedInductive, PTL
=============================================================================
