------------------------------ MODULE Background ------------------------------
(***************************************************************************)
(* When background adaptation steps the noise floors and by how much time  *)
(* (rule 3.4; evidence.py 317-397), beside the estimator that drives it.   *)
(* A floor's value is data; a step is the time it is weighted with, since  *)
(* alpha = 1 - exp(-dt / tau_background) grows with nothing else.  Two     *)
(* histories tell how much of that time the zone spent suspended.          *)
(***************************************************************************)
EXTENDS Estimator

CONSTANTS
  LamBackground,    \* logit(p_background), no more than LamAttack
  TBackground,      \* t_background
  ClockCap          \* bound, above TBackground: the clocks stop counting here

VARIABLE clocks   \* per zone: below_since, last_adapt_at and two histories:
                  \* blind, the time since last_adapt_at in which the zone
                  \* was suspended, and weighed, how much such time the step
                  \* of the last call was weighted with

bgVars == <<vars, clocks>>

Quiet(zst) == zst.lam < LamBackground

(* evidence.update_background_clock *)
BackgroundClock(c, zst) ==
  IF Quiet(zst) THEN [c EXCEPT !.below = IF @ = None THEN 0 ELSE @]
                ELSE [c EXCEPT !.below = None, !.adapt = None]

AgedClock(z, dt) ==
  [below   |-> Older(clocks[z].below, dt, ClockCap),
   adapt   |-> Older(clocks[z].adapt, dt, ClockCap),
   blind   |-> IF Suspended(zones[z]) THEN Smaller(clocks[z].blind + dt, ClockCap)
               ELSE clocks[z].blind,
   weighed |-> 0]

(* The clocks of a zone after the advance, which assigns the belief of     *)
(* every zone that is not suspended (filter.set_lambda 45)                 *)
AdvancedClock(z, dt) ==
  IF dt > 0 /\ ~Suspended(zones[z])
  THEN BackgroundClock(AgedClock(z, dt), AdvancedZone(z, dt))
  ELSE AgedClock(z, dt)

(* evidence._adapt_background for one zone, no sibling being elevated      *)
Adapted(c) ==
  CASE c.below = None \/ c.below < TBackground -> c
    [] c.below >= TBackground /\ c.adapt = None ->
         [c EXCEPT !.adapt = 0, !.blind = 0]
    [] OTHER -> [c EXCEPT !.adapt = 0, !.blind = 0, !.weighed = c.blind]

(* apply_frame adapts after health has seen the frame and before the fast  *)
(* attack, which raises the belief past p_background if it fires.          *)
FramedClock(z, dt, fresh, framed) ==
  LET s == SensorOf[z]
      c == AdvancedClock(z, dt)
      blind == "frame" \notin fresh /\ zones[z].health # "OK"
      elevated == \E y \in ZonesOf(s) : ~Quiet(AdvancedZone(y, dt))
      adapted == IF elevated \/ blind \/ zones[z].recording THEN c ELSE Adapted(c)
  IN  IF Quiet(framed) THEN adapted
      ELSE [adapted EXCEPT !.below = None, !.adapt = None]

BgInit ==
  /\ Init
  /\ clocks = [z \in Zones |->
       [below |-> None, adapt |-> None, blind |-> 0, weighed |-> 0]]

Clocked(dt) == clocks' = [z \in Zones |-> AdvancedClock(z, dt)]

BgStart(dt) ==
  /\ Start(dt)
  /\ clocks' = [z \in Zones |-> BackgroundClock(AgedClock(z, dt), zones[z])]

BgReport(s, dt, fresh, move, still) ==
  /\ Report(s, dt, fresh, move, still)
  /\ clocks' = [z \in Zones |->
       IF SensorOf[z] = s THEN FramedClock(z, dt, fresh, zones'[z])
                          ELSE AdvancedClock(z, dt)]

(* A committed window re-anchors the adaptation (on_baseline_end 799). *)
BgBaselineEndTimer(z, dt, success) ==
  /\ BaselineEndTimer(z, dt, success)
  /\ clocks' = [y \in Zones |->
       IF y = z /\ success THEN [AdvancedClock(y, dt) EXCEPT !.adapt = None]
                           ELSE AdvancedClock(y, dt)]

(* The calls that leave the adaptation to the advance *)
BgTick(dt) == Tick(dt) /\ Clocked(dt)
BgOutage(s, dt) == Outage(s, dt) /\ Clocked(dt)
BgStaleTimer(s, dt) == StaleTimer(s, dt) /\ Clocked(dt)
BgSetEnabled(on, dt) == SetEnabled(on, dt) /\ Clocked(dt)
BgRecordBaseline(z, dt) == RecordBaseline(z, dt) /\ Clocked(dt)
BgMotionOffTimer(z, dt) == MotionOffTimer(z, dt) /\ Clocked(dt)

BgNext ==
  \/ \E dt \in 0 .. MaxDt : BgTick(dt)
  \/ \E dt \in 0 .. CallDt :
       \/ BgStart(dt)
       \/ \E s \in Sensors, fresh \in SUBSET Counters :
            \E move \in MoveViews[s], still \in StillViews[s] :
              BgReport(s, dt, fresh, move, still)
       \/ \E s \in Sensors : BgOutage(s, dt) \/ BgStaleTimer(s, dt)
       \/ \E on \in BOOLEAN : BgSetEnabled(on, dt)
       \/ \E z \in Zones : BgRecordBaseline(z, dt) \/ BgMotionOffTimer(z, dt)
       \/ \E z \in Zones, success \in BOOLEAN : BgBaselineEndTimer(z, dt, success)

BgSpec == BgInit /\ [][BgNext]_bgVars

(* "It stops while unavailable, occupied, or explicitly calibrating"       *)
(* (docs/ENGINE_SPEC.md 152-153; "blind or actively calibrating: hold the  *)
(* floor", evidence.py 374): a step is weighted with no time in which the  *)
(* zone was blind or recording.                                            *)
StopsWhileBlind == \A z \in Zones : clocks[z].weighed = 0
=============================================================================
