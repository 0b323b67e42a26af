------------------------------- MODULE Engine -------------------------------
(***************************************************************************)
(* ConductorEngine as a whole: the estimator and, at the end of every      *)
(* call, the fusion of its zones into rooms and the home (fusion.refresh). *)
(***************************************************************************)
EXTENDS Estimator, Fusion

CONSTANT RoomOf             \* ZoneConfig.room_id

VARIABLE home               \* lam_home and the latch _home_on

engineVars == <<vars, home>>

(* The time the start finds passed is not integrated. *)
Refresh(dt) == home' = RefreshHome(home, zones', dt)

EngineInit == Init /\ home = NobodyHome

EngineNext ==
  \/ \E dt \in 0 .. MaxDt : Tick(dt) /\ Refresh(dt)
  \/ \E dt \in 0 .. CallDt : Start(dt) /\ Refresh(0)
  \/ \E dt \in 0 .. CallDt : Call(dt) /\ Refresh(dt)

EngineSpec == EngineInit /\ [][EngineNext]_engineVars

(* Home Assistant gets to the start, runs the tick clock (controller.py    *)
(* 201-211), and calls a pending timer back when it is due.  Nothing is    *)
(* assumed of the radars, the operator or the switch.                      *)
Fairness ==
  /\ WF_engineVars(\E dt \in 0 .. CallDt : Start(dt) /\ Refresh(0))
  /\ WF_engineVars(\E dt \in 1 .. MaxDt : Tick(dt) /\ Refresh(dt))
  /\ \A s \in Sensors : WF_engineVars(
       \E dt \in 0 .. CallDt : StaleTimer(s, dt) /\ Refresh(dt))
  /\ \A z \in Zones : WF_engineVars(
       \E dt \in 0 .. CallDt : MotionOffTimer(z, dt) /\ Refresh(dt))
  /\ \A z \in Zones : WF_engineVars(
       \E dt \in 0 .. CallDt, success \in BOOLEAN :
         BaselineEndTimer(z, dt, success) /\ Refresh(dt))

FairEngineSpec == EngineSpec /\ Fairness

----------------------------------------------------------------------------
(* Rooms are recomputed by every call and remember nothing. *)
Rooms == {RoomOf[z] : z \in Zones}
RoomState(r) == Room(zones, {z \in Zones : RoomOf[z] = r})

(* What the outputs say of one place agrees from the start on, and rests   *)
(* on the members under watch alone: blind ones are left out of a room     *)
(* whose other members see, and nobody in it goes unnoticed by the home    *)
(* (rules 5.3, 6.1-6.3 and 6.5; fusion.py 31-97).                          *)
RoomsShowTheWatched ==
  started =>
    /\ \A r \in Rooms :
         LET room == RoomState(r)
             watched == {z \in Zones : /\ RoomOf[z] = r
                                      /\ SensorStale(SensorOf[z]) \in DOMAIN timers}
         IN  /\ room.known <=> watched # {}
             /\ room.known =>
                  /\ room.occupied <=> room.severity > 0
                  /\ room.settled => room.occupied
                  /\ room.occupied => \E z \in watched :
                       zones[z].since # None /\ home.lam >= zones[z].lam
                  /\ room.motion <=> \E z \in watched : MotionOff(z) \in DOMAIN timers
    /\ AnyoneHome(home, zones).known <=> \E r \in Rooms : RoomState(r).known

(* The home is never less convinced than a healthy zone that holds         *)
(* somebody, and is on when that zone reaches the home's own threshold,    *)
(* whatever the home faded to while the zone was blind (fusion.py 77-94).  *)
HomeCoversZones ==
  clocked => \A z \in HealthyOccupied(zones) :
    /\ home.lam >= zones[z].lam
    /\ zones[z].lam >= LamHomeOn => home.on

(* Only absence turns the home off: never a call that still finds somebody *)
(* in a healthy zone whose belief is above the home's own threshold, and   *)
(* never blindness (rules 6.3 and 6.5).                                    *)
LeavesByAbsence ==
  home.on /\ ~home'.on =>
    /\ Healthy(zones') # {}
    /\ \A z \in HealthyOccupied(zones') : zones'[z].lam <= LamHomeOff

HomeLeftOnlyByAbsence == [][LeavesByAbsence]_engineVars

(* Blindness is no knowledge: while no zone is healthy the home keeps its  *)
(* belief and its latch and publishes unknown; and however long the home   *)
(* is seen empty, its belief fades towards the prior, never past it.       *)
FadesInSight ==
  /\ Healthy(zones') = {} => home' = home
  /\ home'.lam < home.lam =>
       /\ Healthy(zones') # {} /\ HealthyOccupied(zones') = {}
       /\ home'.lam >= LamPrior

HomeFadesOnlyInSight == [][FadesInSight]_engineVars

(* Once live positive evidence of a zone stops coming, for good, the zone  *)
(* does not stay occupied and trusted: it vacates, or its radar's silence  *)
(* is noticed, again and again.  There is no fixed timeout behind this,    *)
(* only decay and the watchdog (rules 1.3, 3.8, 4.1).                      *)
DepartureNoticed ==
  \A z \in Zones :
    <>[]~LivePositive(zones[z], sensors[SensorOf[z]])
      => []<>(~zones[z].occupied \/ zones[z].health = "UNKNOWN")

(* Motion of a zone that stays healthy ends when its evidence does, across *)
(* every restart of the hold and every hold lost in blindness (rule 4.4).  *)
MotionEnds ==
  \A z \in Zones :
    LET move == views[SensorOf[z]].move
    IN  <>[](/\ zones[z].health = "OK" /\ zones[z].zMove < ZMotion
             /\ ~move.flag)
          => <>[]~zones[z].motion

(* A calibration window closes and reports, unless the operator keeps      *)
(* opening it anew: no outage, silence or disabling holds it (rule 3.3).   *)
CalibrationCloses ==
  \A z \in Zones :
    []<>\/ ~zones[z].recording
        \/ /\ BaselineEnd(z) \in DOMAIN timers
           /\ timers[BaselineEnd(z)] = BaselineDuration

(* A home seen empty for good is published empty (rule 6.5). *)
HomeEmpties ==
  <>[](Healthy(zones) # {} /\ HealthyOccupied(zones) = {}) => <>[]~home.on

----------------------------------------------------------------------------
(* The engine implements home presence over promised zones: every call is  *)
(* one step of Home under the mapping that forgets what no fusion reads.   *)
ShownZone(z) == [health |-> zones[z].health, occupied |-> zones[z].occupied,
                 lam |-> zones[z].lam]

Promised == INSTANCE Home WITH shown <- [z \in Zones |-> ShownZone(z)]

ImplementsHome == Promised!HomeSpec
=============================================================================
