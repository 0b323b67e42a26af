----------------------------- MODULE ZoneFilter -----------------------------
(***************************************************************************)
(* What the engine does to the state of one zone: core/filter.py,          *)
(* core/activity.py and the scoring half of core/evidence.py, as operators *)
(* on the record ZoneState.  Estimator says when they run.                 *)
(*                                                                         *)
(* A timestamp of the code is kept as its age, the time since it was       *)
(* stamped, saturated where no guard can tell larger ages apart; None is   *)
(* Python's None.                                                          *)
(***************************************************************************)
EXTENDS Belief, FiniteSetsExt

CONSTANTS
  KMove, KStill, KBias, UCap,     \* evidence rate (rule 3.2)
  ObsBudget, ObsHold,             \* how long an observation is live (3.8)
  ScoreMean, ZCap, ZNegCap,       \* centering of a raw statistic (3.2)
  AttackTail,                     \* raw threshold of a candidate (4.2)
  AttackConfirm,                  \* candidates that confirm an attack (4.2)
  AttackGapMin, AttackGapMax,     \* their configured spacing (4.2)
  LeastGap, DefaultGapWidth,      \* the code's 0.1 s and 2.7 s (4.2)
  Decorrelation,                  \* measured spacing per path, 0 if none
  ZMotion,                        \* motion trigger (4.4)
  TDwell, TSettle                 \* activity timing (5.1)

ASSUME ZoneFilterAssumption ==
  /\ KMove \in Nat /\ KStill \in Nat
  /\ {KBias, UCap, ScoreMean, ZCap, ZNegCap} \subseteq Int
  /\ ObsBudget \in Nat /\ ObsHold \in Nat
  /\ AttackTail \in Int /\ ZMotion \in Int
  /\ AttackConfirm \in Nat \ {0}
  /\ AttackGapMin \in Nat /\ AttackGapMax \in Nat
  /\ LeastGap \in Nat \ {0} /\ DefaultGapWidth \in Nat \ {0}
  /\ Decorrelation \in [{"agg", "gate"} -> Nat]
  /\ TDwell \in Nat /\ TSettle \in Nat

None == -1

Older(age, dt, cap) == IF age = None THEN None ELSE Smaller(age + dt, cap)

Activities == {"EMPTY", "PASSING", "ACTIVE", "SETTLED"}

----------------------------------------------------------------------------
(* Scores and the evidence rate                                            *)

(* evidence.centered: the raw statistic against its empty-room mean,       *)
(* clamped on both sides; the scale and the clamped mean are folded into   *)
(* the unit of the score.                                                  *)
Centered(raw) == Smaller(ZCap, Larger(-ZNegCap, raw - ScoreMean))

(* A zone's reading of one channel: its raw statistic, whether the channel *)
(* is gated to the zone by distance, and whether gate energies cover it.   *)
(* An ungated aggregate reading scores 0 (ingest_frame 249-262).           *)
RawStatistic(r) == IF r.gates \/ r.gated THEN r.raw ELSE 0
InGate(r) == IF r.gates THEN r.raw > 0 ELSE r.gated
EvidencePath(r) == IF r.gates THEN "gate" ELSE "agg"
AttackCandidate(r) == RawStatistic(r) >= AttackTail

(* A mutant of ChannelTerm: held evidence never expires. *)
ChannelTermNoExpiry(z, k, age) == k * (z - KBias)

(* evidence._channel_term for an observation of the given age: positive    *)
(* evidence is live for ObsBudget, the rest for ObsHold, then silence.     *)
ChannelTerm(z, k, age) ==
  LET shifted == z - KBias
      window == IF shifted > 0 THEN ObsBudget ELSE ObsHold
  IN  IF age <= window THEN k * shifted ELSE 0

EvidenceRate(zst, moveAge, stillAge) ==
  Smaller(UCap, ChannelTerm(zst.zMove, KMove, moveAge)
                  + ChannelTerm(zst.zStill, KStill, stillAge))

----------------------------------------------------------------------------
(* The activity state machine                                              *)

(* activity.on_occupied *)
OnOccupied(zst) ==
  [zst EXCEPT !.activity = "PASSING", !.since = 0,
              !.stillDom = None, !.moveDom = None]

(* A mutant of OnVacated: the dominance clocks run on. *)
OnVacatedClocksRun(zst) == [zst EXCEPT !.activity = "EMPTY", !.since = None]

(* activity.on_vacated; PassesBy says whether it emits the event *)
OnVacated(zst) ==
  [zst EXCEPT !.activity = "EMPTY", !.since = None,
              !.stillDom = None, !.moveDom = None]

(* A mutant of PassesBy: a departure of somebody who stayed counts as well. *)
PassesByAnyDeparture(before, after) ==
  before.occupied /\ ~after.occupied /\ before.since # None

PassesBy(before, after) ==
  /\ before.occupied /\ ~after.occupied
  /\ before.activity = "PASSING" /\ before.since # None

(* activity.tick_zone, the dominance clocks (66-74): the channel whose     *)
(* positive score leads keeps or starts its clock, the other one stops.    *)
Dominance(zst) ==
  LET move == KMove * Larger(0, zst.zMove)
      still == KStill * Larger(0, zst.zStill)
      Running(clock) == IF clock = None THEN 0 ELSE clock
  IN  [zst EXCEPT
         !.stillDom = IF still > move THEN Running(@) ELSE None,
         !.moveDom  = IF move > still THEN Running(@) ELSE None]

(* The state machine on up-to-date clocks (76-98) *)
NextActivity(zst) ==
  LET stillTakeover == zst.stillDom # None /\ zst.stillDom >= TSettle
      moveTakeover == zst.moveDom # None /\ zst.moveDom >= TSettle
  IN  CASE zst.activity \in {"PASSING", "ACTIVE"} /\ stillTakeover -> "SETTLED"
        [] zst.activity = "PASSING" /\ ~stillTakeover
             /\ zst.since >= TDwell -> "ACTIVE"
        [] zst.activity = "SETTLED" /\ moveTakeover -> "ACTIVE"
        [] OTHER -> zst.activity

TickZone(zst) ==
  IF zst.health = "OK" /\ zst.occupied /\ zst.since # None
  THEN LET led == Dominance(zst)
       IN  [led EXCEPT !.activity = NextActivity(led)]
  ELSE zst

----------------------------------------------------------------------------
(* The occupancy filter                                                    *)

(* A mutant of SetLambda: the lower threshold is strict. *)
SetLambdaStrict(zst, lam) ==
  LET set == [zst EXCEPT !.lam = Clamp(lam)]
  IN  IF ~zst.occupied /\ set.lam >= LamOn
      THEN OnOccupied([set EXCEPT !.occupied = TRUE])
      ELSE IF zst.occupied /\ set.lam < LamOff
           THEN OnVacated([set EXCEPT !.occupied = FALSE]) ELSE set

(* filter.set_lambda: assign the belief and run the hysteresis *)
SetLambda(zst, lam) ==
  LET set == [zst EXCEPT !.lam = Clamp(lam)]
  IN  CASE ~zst.occupied /\ set.lam >= LamOn ->
             OnOccupied([set EXCEPT !.occupied = TRUE])
        [] zst.occupied /\ set.lam <= LamOff ->
             OnVacated([set EXCEPT !.occupied = FALSE])
        [] OTHER -> set

(* A mutant of Cuts: a call integrates all the time passed at once. *)
CutsNowhere(sst, dt) == {0, dt}

(* The rate is constant between the instants at which a window of an       *)
(* observation ends (3.8).  Of an interval of dt units, given by how long  *)
(* after its start they are, these are the ones the code cuts it at.       *)
Cuts(sst, dt) ==
  {0, dt} \cup {cut \in 1 .. dt - 1 :
     \E age \in {sst.moveAge, sst.stillAge}, window \in {ObsBudget, ObsHold} :
       age + cut = window}

(* The rate in force at the midpoint of a segment.  Windows are whole, so  *)
(* the midpoint can be rounded up without passing the end of one.          *)
MidRate(zst, sst, start, end) ==
  LET mid == (start + end + 1) \div 2
  IN  EvidenceRate(zst, sst.moveAge + mid, sst.stillAge + mid)

(* The belief after dt units under the evidence in force (filter 68-94):   *)
(* each segment is integrated exactly and clamped at its end.              *)
IntegrateBelief(zst, sst, dt) ==
  LET cuts == Cuts(sst, dt)
      lam[end \in cuts] ==
        IF end = 0 THEN zst.lam
        ELSE LET start == Max({cut \in cuts : cut < end})
             IN  Clamp(AdvanceBelief(lam[start], MidRate(zst, sst, start, end),
                                     end - start))
  IN  lam[dt]

Suspended(zst) == zst.health # "OK" \/ zst.recording

(* A mutant of AdvanceZone: it integrates through blindness as well. *)
AdvanceZoneBlind(zst, sst, dt) ==
  IF zst.recording THEN zst ELSE SetLambda(zst, IntegrateBelief(zst, sst, dt))

(* filter.advance_zone *)
AdvanceZone(zst, sst, dt) ==
  IF Suspended(zst) THEN zst ELSE SetLambda(zst, IntegrateBelief(zst, sst, dt))

----------------------------------------------------------------------------
(* The fast-attack chain                                                   *)

NoChain == [count |-> 0, age |-> None, path |-> "none"]

(* filter.on_frame 138-154: the spacing two candidates must have on a path *)
ConfiguredGapMin == Larger(LeastGap, AttackGapMin)
GapMin(path) == Larger(ConfiguredGapMin, Decorrelation[path])
GapMax(path) ==
  GapMin(path) + (IF AttackGapMax > ConfiguredGapMin
                  THEN AttackGapMax - ConfiguredGapMin ELSE DefaultGapWidth)
GapCap == Larger(GapMax("agg"), GapMax("gate")) + 1

(* 115-121: another evidence path cannot confirm the chain *)
OnPath(chain, path) ==
  IF chain.path \in {"none", path} THEN chain ELSE NoChain

(* A mutant of ExtendChain: it counts every candidate of one burst. *)
ExtendChainBurst(chain, r) ==
  CASE ~AttackCandidate(r) -> NoChain
    [] AttackCandidate(r) /\ chain.age = None ->
         [count |-> 1, age |-> 0, path |-> EvidencePath(r)]
    [] OTHER ->
         [chain EXCEPT !.count = Smaller(@ + 1, AttackConfirm), !.age = 0]

(* 129-174: one fresh move-energy observation *)
ExtendChain(chain, r) ==
  LET path == EvidencePath(r)
  IN  CASE ~AttackCandidate(r) -> NoChain
        [] AttackCandidate(r)
             /\ (chain.age = None \/ chain.age > GapMax(path)) ->
             [count |-> 1, age |-> 0, path |-> path]
        [] AttackCandidate(r) /\ chain.age # None
             /\ chain.age <= GapMax(path) /\ chain.age >= GapMin(path) ->
             [chain EXCEPT !.count = Smaller(@ + 1, AttackConfirm), !.age = 0]
        [] OTHER -> chain       \* within one radar burst

(* filter.on_frame 110-174 for a zone that is not suspended *)
Attack(zst, r, energyFresh) ==
  LET kept == OnPath(zst.attack, EvidencePath(r))
      chain == IF energyFresh THEN ExtendChain(kept, r) ELSE kept
      chained == [zst EXCEPT !.attack = chain]
  IN  IF energyFresh /\ AttackCandidate(r) /\ chain.count >= AttackConfirm
      THEN SetLambda(chained, Larger(zst.lam, LamAttack))
      ELSE chained

(* filter.on_frame 178-180 *)
MotionEvidence(zst, r, flag) ==
  InGate(r) /\ (zst.zMove >= ZMotion \/ (flag /\ ~r.gates))

----------------------------------------------------------------------------
(* A mutant of Ingest: frames are scored while recording as well. *)
IngestRecording(zst, move, still) ==
  [zst EXCEPT !.zMove = Centered(RawStatistic(move)),
              !.zStill = Centered(RawStatistic(still))]

(* evidence.ingest_frame: score a frame, unless the zone is recording      *)
Ingest(zst, move, still) ==
  IF zst.recording THEN zst
  ELSE [zst EXCEPT !.zMove = Centered(RawStatistic(move)),
                   !.zStill = Centered(RawStatistic(still))]

(* A mutant of Pinned: the attack chain survives. *)
PinnedChainKept(zst) ==
  [zst EXCEPT !.recording = TRUE, !.lam = LamPrior, !.occupied = FALSE,
              !.activity = "EMPTY", !.since = None, !.stillDom = None,
              !.moveDom = None, !.motion = FALSE, !.zMove = 0, !.zStill = 0]

(* evidence.on_record_baseline: pin the zone at the empty prior *)
Pinned(zst) ==
  [zst EXCEPT !.recording = TRUE, !.lam = LamPrior, !.occupied = FALSE,
              !.activity = "EMPTY", !.since = None, !.stillDom = None,
              !.moveDom = None, !.motion = FALSE, !.zMove = 0, !.zStill = 0,
              !.attack = NoChain]

(* Every stamp of the zone grows older. *)
Aged(zst, dt) ==
  [zst EXCEPT !.since = Older(@, dt, TDwell),
              !.stillDom = Older(@, dt, TSettle),
              !.moveDom = Older(@, dt, TSettle),
              !.attack.age = Older(@, dt, GapCap)]

----------------------------------------------------------------------------
Ages(cap) == {None} \cup (0 .. cap)

Chains == [count : 0 .. AttackConfirm, age : Ages(GapCap),
           path : {"none", "agg", "gate"}]

ZoneStates ==
  [health : {"OK", "UNKNOWN"}, lam : Lams, occupied : BOOLEAN,
   activity : Activities, motion : BOOLEAN, recording : BOOLEAN,
   zMove : Int, zStill : Int, attack : Chains, since : Ages(TDwell),
   stillDom : Ages(TSettle), moveDom : Ages(TSettle)]
=============================================================================
