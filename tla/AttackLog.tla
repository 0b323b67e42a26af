------------------------------ MODULE AttackLog ------------------------------
(***************************************************************************)
(* What a fast attack has to rest on (rule 4.2), judged from outside: a    *)
(* history variable logs every attack candidate the engine was given since *)
(* the zone's measurements were last interrupted, and the property reads   *)
(* the log, never the chain the engine keeps in its place.                 *)
(***************************************************************************)
EXTENDS Estimator

VARIABLE log    \* per zone, the candidates since the last interruption

logVars == <<vars, log>>

(* Candidates older than a whole chain can span are of no use. *)
LogCap == AttackConfirm * GapCap

Candidate(age, path) == [age |-> age, path |-> path]

Recorded(candidates, dt) ==
  {Candidate(Smaller(c.age + dt, LogCap), c.path) : c \in candidates}

(* A fresh reading that is no candidate interrupts, and so does any frame  *)
(* on another evidence path; a frame without fresh move energy adds none.  *)
Heard(candidates, r, energyFresh) ==
  LET path == EvidencePath(r)
      same == {c \in candidates : c.path = path}
      kept == IF same = candidates THEN candidates ELSE {}
  IN  IF ~energyFresh THEN kept
      ELSE IF AttackCandidate(r) THEN kept \cup {Candidate(0, path)} ELSE {}

LogReport(s, dt, fresh, move, still) ==
  /\ Report(s, dt, fresh, move, still)
  /\ log' = [z \in Zones |->
       IF SensorOf[z] = s /\ ~Suspended(zones'[z])
       THEN Heard(Recorded(log[z], dt), move.at[z], "energy" \in fresh)
       ELSE Recorded(log[z], dt)]

LogInterrupted(dt, interrupted) ==
  log' = [z \in Zones |-> IF z \in interrupted THEN {} ELSE Recorded(log[z], dt)]

LogInit == Init /\ log = [z \in Zones |-> {}]

LogTick(dt) == Tick(dt) /\ LogInterrupted(dt, {})
LogStart(dt) == Start(dt) /\ LogInterrupted(dt, {})
LogOutage(s, dt) == Outage(s, dt) /\ LogInterrupted(dt, ZonesOf(s))
LogStaleTimer(s, dt) == StaleTimer(s, dt) /\ LogInterrupted(dt, ZonesOf(s))
LogRecordBaseline(z, dt) == RecordBaseline(z, dt) /\ LogInterrupted(dt, {z})
LogSetEnabled(on, dt) == SetEnabled(on, dt) /\ LogInterrupted(dt, {})
LogMotionOffTimer(z, dt) == MotionOffTimer(z, dt) /\ LogInterrupted(dt, {})
LogBaselineEndTimer(z, dt, success) ==
  BaselineEndTimer(z, dt, success) /\ LogInterrupted(dt, {})

LogNext ==
  \/ \E dt \in 0 .. MaxDt : LogTick(dt)
  \/ \E dt \in 0 .. CallDt :
       \/ LogStart(dt)
       \/ \E s \in Sensors, fresh \in SUBSET Counters :
            \E move \in MoveViews[s], still \in StillViews[s] :
              LogReport(s, dt, fresh, move, still)
       \/ \E s \in Sensors : LogOutage(s, dt) \/ LogStaleTimer(s, dt)
       \/ \E on \in BOOLEAN : LogSetEnabled(on, dt)
       \/ \E z \in Zones : LogRecordBaseline(z, dt) \/ LogMotionOffTimer(z, dt)
       \/ \E z \in Zones, success \in BOOLEAN : LogBaselineEndTimer(z, dt, success)

LogSpec == LogInit /\ [][LogNext]_logVars

(* A zone's chain is confirmed only over AttackConfirm candidates of one   *)
(* path, none interrupted by a blind interval, a quiet measurement, a path *)
(* switch or a calibration, each at least GapMin and at most GapMax after  *)
(* the one before (filter.py 115-174; rule 4.2).                           *)
Spaced(ages, path) ==
  \A i \in 1 .. AttackConfirm - 1 :
    /\ ages[i] - ages[i + 1] >= GapMin(path)
    /\ ages[i] - ages[i + 1] <= GapMax(path)

ConfirmedBySpacedCandidates ==
  \A z \in Zones :
    LET chain == zones[z].attack
    IN  chain.count = AttackConfirm /\ chain.age = 0 =>
          \E ages \in [1 .. AttackConfirm -> {c.age : c \in log[z]}] :
            /\ ages[AttackConfirm] = 0
            /\ Spaced(ages, chain.path)
            /\ \A c \in log[z] : c.path = chain.path
=============================================================================
