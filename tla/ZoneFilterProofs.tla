-------------------------- MODULE ZoneFilterProofs --------------------------
(***************************************************************************)
(* What every operation of ZoneFilter preserves of a zone, for all values  *)
(* of the constants: ZoneSound, the part of the estimator's inductive      *)
(* invariant that speaks of one zone alone.                                *)
(***************************************************************************)
EXTENDS ZoneFilter, BeliefProofs

Latched(zst) == IF zst.occupied THEN zst.lam > LamOff ELSE zst.lam < LamOn

ClocksExclude(zst) ==
  /\ zst.stillDom = None \/ zst.moveDom = None
  /\ zst.since = None => zst.stillDom = None /\ zst.moveDom = None

(* An adopted zone is occupied without a starting time until the start. *)
OccupancyRecorded(zst) ==
  /\ ~zst.occupied => zst.since = None
  /\ zst.activity = "EMPTY" <=> zst.since = None

ChainForm(chain) ==
  /\ chain.count = 0 <=> chain = NoChain
  /\ chain.count = 0 <=> chain.age = None

ChainSound(zst) ==
  /\ ChainForm(zst.attack)
  /\ zst.attack.count > 0 => zst.health = "OK"

RecordingPinned(zst) ==
  zst.recording => /\ zst.lam = LamPrior /\ ~zst.occupied /\ ~zst.motion
                   /\ zst.zMove = 0 /\ zst.zStill = 0 /\ zst.attack = NoChain

ZoneSound(zst) ==
  /\ zst \in ZoneStates
  /\ Latched(zst)
  /\ ClocksExclude(zst)
  /\ OccupancyRecorded(zst)
  /\ ChainSound(zst)
  /\ RecordingPinned(zst)

(* The fields no advance touches *)
Kept(new, old) ==
  /\ new.health = old.health /\ new.motion = old.motion
  /\ new.recording = old.recording

(* After the start an occupied zone knows since when. *)
Stamped(zst) == zst.occupied => zst.since # None

(* An age grows within its cap and is None only if it was. *)
LEMMA OlderType ==
  ASSUME NEW cap \in Nat, NEW age \in Ages(cap), NEW dt \in Nat
  PROVE  /\ Older(age, dt, cap) \in Ages(cap)
         /\ Older(age, dt, cap) = None <=> age = None
BY DEF Older, Ages, Smaller, None

(* The values the operations assign are of the fields' types. *)
LEMMA FieldTypes ==
  /\ 0 \in Ages(TDwell) /\ None \in Ages(TDwell)
  /\ 0 \in Ages(TSettle) /\ None \in Ages(TSettle)
  /\ Activities = {"EMPTY", "PASSING", "ACTIVE", "SETTLED"}
  /\ 0 # None
BY ZoneFilterAssumption DEF Ages, Activities, None

LEMMA GapCapType == GapCap \in Nat
<1>1. GapMin("agg") \in Nat /\ GapMin("gate") \in Nat
  BY ZoneFilterAssumption DEF GapMin, ConfiguredGapMin, Larger
<1>2. GapMax("agg") \in Nat /\ GapMax("gate") \in Nat
  BY <1>1, ZoneFilterAssumption DEF GapMax, ConfiguredGapMin, Larger
<1> QED BY <1>2 DEF GapCap, Larger

(* The hysteresis leaves latch and belief in agreement. *)
LEMMA SetLambdaSound ==
  ASSUME NEW zst, ZoneSound(zst), ~zst.recording, NEW lam
  PROVE  /\ ZoneSound(SetLambda(zst, lam))
         /\ Kept(SetLambda(zst, lam), zst)
         /\ Stamped(zst) => Stamped(SetLambda(zst, lam))
<1> DEFINE set == [zst EXCEPT !.lam = Clamp(lam)]
           on == OnOccupied([set EXCEPT !.occupied = TRUE])
           off == OnVacated([set EXCEPT !.occupied = FALSE])
<1>1. set.lam \in Lams /\ set = [zst EXCEPT !.lam = set.lam]
  BY ClampKeeps DEF ZoneSound, ZoneStates
<1>2. CASE ~set.occupied /\ set.lam >= LamOn
  <2>1. SetLambda(zst, lam) = on
    BY <1>2 DEF SetLambda
  <2>2. on.lam = set.lam /\ on.occupied
    BY DEF OnOccupied, ZoneSound, ZoneStates
  <2>3. on \in ZoneStates
    BY <1>1, FieldTypes, ZenonT(30) DEF ZoneSound, ZoneStates, OnOccupied
  <2>4. Latched(on)
    BY <2>2, <1>1, <1>2, BeliefAssumption DEF Latched, Lams
  <2> QED
    BY <2>1, <2>3, <2>4, FieldTypes DEF ZoneSound, ZoneStates, OnOccupied, OnVacated, ClocksExclude,
      OccupancyRecorded, ChainSound, RecordingPinned, Kept, Stamped
<1>3. CASE set.occupied /\ set.lam <= LamOff
  <2>1. SetLambda(zst, lam) = off
    BY <1>3 DEF SetLambda
  <2>2. off.lam = set.lam /\ ~off.occupied
    BY DEF OnVacated, ZoneSound, ZoneStates
  <2>3. off \in ZoneStates
    BY <1>1, FieldTypes, ZenonT(30) DEF ZoneSound, ZoneStates, OnVacated
  <2>4. Latched(off)
    BY <2>2, <1>1, <1>3, BeliefAssumption DEF Latched, Lams
  <2> QED
    BY <2>1, <2>3, <2>4, FieldTypes DEF ZoneSound, ZoneStates, OnOccupied, OnVacated, ClocksExclude,
      OccupancyRecorded, ChainSound, RecordingPinned, Kept, Stamped
<1>4. CASE /\ ~(~set.occupied /\ set.lam >= LamOn)
           /\ ~(set.occupied /\ set.lam <= LamOff)
  <2>1. SetLambda(zst, lam) = set
    BY <1>4 DEF SetLambda
  <2>2. set \in ZoneStates
    BY <1>1 DEF ZoneSound, ZoneStates
  <2>3. Latched(set)
    BY <1>1, <1>4, BeliefAssumption DEF Latched, Lams, ZoneSound, ZoneStates
  <2> QED
    BY <2>1, <2>2, <2>3 DEF ZoneSound, ZoneStates, ClocksExclude,
      OccupancyRecorded, ChainSound, RecordingPinned, Kept, Stamped
<1> QED BY <1>2, <1>3, <1>4

----------------------------------------------------------------------------
LEMMA AdvanceZoneSound ==
  ASSUME NEW zst, ZoneSound(zst), NEW sst, NEW dt
  PROVE  /\ ZoneSound(AdvanceZone(zst, sst, dt))
         /\ Kept(AdvanceZone(zst, sst, dt), zst)
         /\ Stamped(zst) => Stamped(AdvanceZone(zst, sst, dt))
<1>1. CASE Suspended(zst)
  BY <1>1 DEF AdvanceZone, Kept
<1>2. CASE ~Suspended(zst)
  <2>1. ~zst.recording
    BY <1>2 DEF Suspended
  <2> QED BY <1>2, <2>1, SetLambdaSound DEF AdvanceZone
<1> QED BY <1>1, <1>2

(* A chain keeps its form while it ages. *)
LEMMA AgedChain ==
  ASSUME NEW chain \in Chains, ChainForm(chain), NEW dt \in Nat
  PROVE  LET aged == [chain EXCEPT !.age = Older(@, dt, GapCap)]
         IN  /\ aged \in Chains /\ ChainForm(aged) /\ aged.count = chain.count
             /\ chain = NoChain => aged = NoChain
<1> DEFINE age == Older(chain.age, dt, GapCap)
           aged == [chain EXCEPT !.age = age]
<1>1. age \in Ages(GapCap) /\ (age = None <=> chain.age = None)
  BY OlderType, GapCapType DEF Chains
<1>2. aged \in Chains /\ aged.count = chain.count /\ aged.age = age
  BY <1>1, Zenon DEF Chains
<1>3. chain = NoChain => aged = NoChain
  <2> SUFFICES ASSUME chain = NoChain PROVE aged = NoChain
    OBVIOUS
  <2>1. age = None
    BY <1>1 DEF NoChain
  <2> QED BY <2>1 DEF NoChain
<1>4. aged = NoChain => aged.count = 0
  BY DEF NoChain
<1> QED BY <1>1, <1>2, <1>3, <1>4 DEF ChainForm

(* Growing older changes the stamps alone. *)
LEMMA AgedSound ==
  ASSUME NEW zst, ZoneSound(zst), NEW dt \in Nat
  PROVE  /\ ZoneSound(Aged(zst, dt)) /\ Kept(Aged(zst, dt), zst)
         /\ Aged(zst, dt).occupied = zst.occupied
         /\ Stamped(zst) => Stamped(Aged(zst, dt))
<1> DEFINE since == Older(zst.since, dt, TDwell)
           still == Older(zst.stillDom, dt, TSettle)
           move == Older(zst.moveDom, dt, TSettle)
           attack == [zst.attack EXCEPT !.age = Older(@, dt, GapCap)]
           aged == [zst EXCEPT !.since = since, !.stillDom = still,
                               !.moveDom = move, !.attack = attack]
<1>1. /\ since \in Ages(TDwell) /\ (since = None <=> zst.since = None)
      /\ still \in Ages(TSettle) /\ (still = None <=> zst.stillDom = None)
      /\ move \in Ages(TSettle) /\ (move = None <=> zst.moveDom = None)
  BY OlderType, ZoneFilterAssumption DEF ZoneSound, ZoneStates
<1>2. /\ attack \in Chains /\ ChainForm(attack)
      /\ attack.count = zst.attack.count
      /\ zst.attack = NoChain => attack = NoChain
  BY AgedChain DEF ZoneSound, ZoneStates, ChainSound
<1>3. Aged(zst, dt) = aged
  BY DEF Aged, ZoneSound, ZoneStates
<1>4. aged \in ZoneStates
  BY <1>1, <1>2, ZenonT(30) DEF ZoneSound, ZoneStates
<1>5. /\ aged.since = since /\ aged.stillDom = still
      /\ aged.moveDom = move /\ aged.attack = attack
      /\ aged.lam = zst.lam /\ aged.occupied = zst.occupied
      /\ aged.activity = zst.activity /\ aged.motion = zst.motion
      /\ aged.recording = zst.recording /\ aged.health = zst.health
      /\ aged.zMove = zst.zMove /\ aged.zStill = zst.zStill
  BY DEF ZoneSound, ZoneStates
<1> HIDE DEF aged, since, still, move, attack
<1> QED
  BY <1>1, <1>2, <1>3, <1>4, <1>5 DEF ZoneSound, Latched, ClocksExclude,
    OccupancyRecorded, ChainSound, RecordingPinned, Kept, Stamped

----------------------------------------------------------------------------
(* The activity machine never leads an occupied zone back to EMPTY. *)
LEMMA NextActivityType ==
  ASSUME NEW zst, zst.activity \in Activities
  PROVE  /\ NextActivity(zst) \in Activities
         /\ NextActivity(zst) = "EMPTY" <=> zst.activity = "EMPTY"
BY DEF NextActivity, Activities

LEMMA DominanceSound ==
  ASSUME NEW zst, ZoneSound(zst), zst.since # None
  PROVE  LET led == Dominance(zst)
         IN  /\ led.stillDom \in Ages(TSettle) /\ led.moveDom \in Ages(TSettle)
             /\ led.stillDom = None \/ led.moveDom = None
             /\ led = [zst EXCEPT !.stillDom = led.stillDom,
                                  !.moveDom = led.moveDom]
<1> DEFINE move == KMove * Larger(0, zst.zMove)
           still == KStill * Larger(0, zst.zStill)
           Running(clock) == IF clock = None THEN 0 ELSE clock
           stillDom == IF still > move THEN Running(zst.stillDom) ELSE None
           moveDom == IF move > still THEN Running(zst.moveDom) ELSE None
<1>1. move \in Int /\ still \in Int
  <2>1. Larger(0, zst.zMove) \in Int /\ Larger(0, zst.zStill) \in Int
    BY DEF Larger, ZoneSound, ZoneStates
  <2>2. KMove \in Int /\ KStill \in Int
    BY ZoneFilterAssumption
  <2> QED BY <2>1, <2>2
<1>2. stillDom = None \/ moveDom = None
  <2>1. ~(still > move /\ move > still)
    BY <1>1
  <2> QED BY <2>1
<1>3. stillDom \in Ages(TSettle) /\ moveDom \in Ages(TSettle)
  BY FieldTypes DEF ZoneSound, ZoneStates
<1>4. Dominance(zst) = [zst EXCEPT !.stillDom = stillDom, !.moveDom = moveDom]
  BY DEF Dominance, ZoneSound, ZoneStates
<1>5. Dominance(zst).stillDom = stillDom /\ Dominance(zst).moveDom = moveDom
  <2> HIDE DEF stillDom, moveDom
  <2> QED BY <1>4 DEF ZoneSound, ZoneStates
<1> QED BY <1>2, <1>3, <1>4, <1>5

LEMMA TickZoneSound ==
  ASSUME NEW zst, ZoneSound(zst)
  PROVE  /\ ZoneSound(TickZone(zst)) /\ Kept(TickZone(zst), zst)
         /\ Stamped(zst) => Stamped(TickZone(zst))
<1>1. CASE ~(zst.health = "OK" /\ zst.occupied /\ zst.since # None)
  BY <1>1 DEF TickZone, Kept
<1>2. CASE zst.health = "OK" /\ zst.occupied /\ zst.since # None
  <2> DEFINE led == Dominance(zst)
             still == led.stillDom
             move == led.moveDom
             activity == NextActivity(led)
             ticked == [[zst EXCEPT !.stillDom = still, !.moveDom = move]
                          EXCEPT !.activity = activity]
  <2>1. /\ still \in Ages(TSettle) /\ move \in Ages(TSettle)
        /\ still = None \/ move = None
        /\ led = [zst EXCEPT !.stillDom = still, !.moveDom = move]
    BY <1>2, DominanceSound
  <2>2. TickZone(zst) = ticked
    BY <1>2, <2>1 DEF TickZone
  <2>3. led.activity = zst.activity
    <3> HIDE DEF still, move, led
    <3> QED BY <2>1 DEF ZoneSound, ZoneStates
  <2>4. activity \in Activities /\ (activity = "EMPTY" <=> zst.activity = "EMPTY")
    BY <2>3, NextActivityType DEF ZoneSound, ZoneStates
  <2> HIDE DEF led, still, move, activity
  <2>5. ticked \in ZoneStates
    BY <2>1, <2>4, ZenonT(30) DEF ZoneSound, ZoneStates
  <2>6. /\ ticked.since = zst.since /\ ticked.stillDom = still
        /\ ticked.moveDom = move /\ ticked.attack = zst.attack
        /\ ticked.lam = zst.lam /\ ticked.occupied = zst.occupied
        /\ ticked.activity = activity /\ ticked.motion = zst.motion
        /\ ticked.recording = zst.recording /\ ticked.health = zst.health
        /\ ticked.zMove = zst.zMove /\ ticked.zStill = zst.zStill
    BY DEF ZoneSound, ZoneStates
  <2> HIDE DEF ticked
  <2> QED
    BY <1>2, <2>1, <2>2, <2>4, <2>5, <2>6 DEF ZoneSound, Latched, ClocksExclude,
      OccupancyRecorded, ChainSound, RecordingPinned, Kept, Stamped
<1> QED BY <1>1, <1>2

----------------------------------------------------------------------------
(* A score is an integer within the clamp's reach. *)
LEMMA CenteredType == \A raw \in Int : Centered(raw) \in Int
BY ZoneFilterAssumption DEF Centered, Larger, Smaller

(* Ingesting a frame changes the scores alone, and not while recording. *)
LEMMA IngestSound ==
  ASSUME NEW zst, ZoneSound(zst), NEW move, NEW still,
         move.raw \in Int, still.raw \in Int
  PROVE  /\ ZoneSound(Ingest(zst, move, still))
         /\ Kept(Ingest(zst, move, still), zst)
         /\ Ingest(zst, move, still).occupied = zst.occupied
         /\ Ingest(zst, move, still).attack = zst.attack
         /\ Stamped(zst) => Stamped(Ingest(zst, move, still))
<1>1. CASE zst.recording
  BY <1>1 DEF Ingest, Kept
<1>2. CASE ~zst.recording
  <2> DEFINE zMove == Centered(RawStatistic(move))
             zStill == Centered(RawStatistic(still))
             scored == [zst EXCEPT !.zMove = zMove, !.zStill = zStill]
  <2>1. zMove \in Int /\ zStill \in Int
    <3>1. RawStatistic(move) \in Int /\ RawStatistic(still) \in Int
      BY DEF RawStatistic
    <3> QED BY <3>1, CenteredType
  <2>2. Ingest(zst, move, still) = scored
    BY <1>2 DEF Ingest
  <2> HIDE DEF zMove, zStill
  <2>3. scored \in ZoneStates
    BY <2>1, ZenonT(30) DEF ZoneSound, ZoneStates
  <2>4. /\ scored.since = zst.since /\ scored.stillDom = zst.stillDom
        /\ scored.moveDom = zst.moveDom /\ scored.attack = zst.attack
        /\ scored.lam = zst.lam /\ scored.occupied = zst.occupied
        /\ scored.activity = zst.activity /\ scored.motion = zst.motion
        /\ scored.recording = zst.recording /\ scored.health = zst.health
    BY DEF ZoneSound, ZoneStates
  <2> HIDE DEF scored
  <2> QED
    BY <1>2, <2>2, <2>3, <2>4 DEF ZoneSound, Latched, ClocksExclude,
      OccupancyRecorded, ChainSound, RecordingPinned, Kept, Stamped
<1> QED BY <1>1, <1>2

----------------------------------------------------------------------------
LEMMA NoChainSound == NoChain \in Chains /\ ChainForm(NoChain)
BY ZoneFilterAssumption DEF NoChain, Chains, ChainForm, Ages

(* A new candidate opens a chain or lengthens it. *)
LEMMA OpenedChain ==
  ASSUME NEW path \in {"agg", "gate"}
  PROVE  LET chain == [count |-> 1, age |-> 0, path |-> path]
         IN  chain \in Chains /\ ChainForm(chain)
<1>1. 0 \in Ages(GapCap) /\ 0 # None
  BY GapCapType DEF Ages, None
<1>2. 1 \in 0 .. AttackConfirm
  BY ZoneFilterAssumption
<1> QED BY <1>1, <1>2 DEF Chains, ChainForm, NoChain

LEMMA LengthenedChain ==
  ASSUME NEW chain \in Chains
  PROVE  LET longer == [chain EXCEPT !.count = Smaller(@ + 1, AttackConfirm),
                                     !.age = 0]
         IN  longer \in Chains /\ ChainForm(longer)
<1> DEFINE count == Smaller(chain.count + 1, AttackConfirm)
           longer == [chain EXCEPT !.count = count, !.age = 0]
<1>1. 0 \in Ages(GapCap) /\ 0 # None
  BY GapCapType DEF Ages, None
<1>2. count \in 0 .. AttackConfirm /\ count # 0
  BY ZoneFilterAssumption DEF Smaller, Chains
<1> HIDE DEF count
<1>3. longer \in Chains /\ longer.count = count /\ longer.age = 0
  BY <1>1, <1>2, ZenonT(30) DEF Chains
<1>4. longer # NoChain
  BY <1>2, <1>3 DEF NoChain
<1>5. longer \in Chains /\ ChainForm(longer)
  BY <1>1, <1>2, <1>3, <1>4 DEF ChainForm
<1> QED BY <1>5 DEF count

LEMMA ExtendChainSound ==
  ASSUME NEW chain \in Chains, ChainForm(chain), NEW r
  PROVE  ExtendChain(chain, r) \in Chains /\ ChainForm(ExtendChain(chain, r))
<1> DEFINE path == EvidencePath(r)
           near == chain.age # None /\ chain.age <= GapMax(path)
<1>1. path \in {"agg", "gate"}
  BY DEF EvidencePath
<1>2. GapMax(path) \in Int /\ chain.age \in Int
  <2>1. GapMin(path) \in Nat
    BY <1>1, ZoneFilterAssumption DEF GapMin, ConfiguredGapMin, Larger
  <2> QED
    BY <2>1, ZoneFilterAssumption DEF GapMax, ConfiguredGapMin, Larger, Chains, Ages, None
<1>3. CASE ~AttackCandidate(r)
  BY <1>3, NoChainSound DEF ExtendChain
<1>4. CASE AttackCandidate(r) /\ (chain.age = None \/ chain.age > GapMax(path))
  <2>1. ExtendChain(chain, r) = [count |-> 1, age |-> 0, path |-> path]
    BY <1>2, <1>4 DEF ExtendChain
  <2> QED BY <1>1, <2>1, OpenedChain
<1>5. CASE /\ AttackCandidate(r) /\ near
           /\ ~(chain.age = None \/ chain.age > GapMax(path))
  <2> DEFINE longer == [chain EXCEPT
                          !.count = Smaller(@ + 1, AttackConfirm), !.age = 0]
  <2>1. longer \in Chains /\ ChainForm(longer)
    BY LengthenedChain
  <2>2. ExtendChain(chain, r) \in {longer, chain}
    BY <1>5 DEF ExtendChain
  <2> QED BY <2>1, <2>2
<1> QED BY <1>2, <1>3, <1>4, <1>5

(* Replacing the chain of a zone that measures by a sound one *)
LEMMA ChainedSound ==
  ASSUME NEW zst, ZoneSound(zst), ~Suspended(zst),
         NEW chain \in Chains, ChainForm(chain)
  PROVE  LET chained == [zst EXCEPT !.attack = chain]
         IN  /\ ZoneSound(chained) /\ Kept(chained, zst)
             /\ Stamped(zst) => Stamped(chained)
<1> DEFINE chained == [zst EXCEPT !.attack = chain]
<1>1. chained \in ZoneStates
  BY Zenon DEF ZoneSound, ZoneStates
<1>2. /\ chained.since = zst.since /\ chained.stillDom = zst.stillDom
      /\ chained.moveDom = zst.moveDom /\ chained.attack = chain
      /\ chained.lam = zst.lam /\ chained.occupied = zst.occupied
      /\ chained.activity = zst.activity /\ chained.motion = zst.motion
      /\ chained.recording = zst.recording /\ chained.health = zst.health
      /\ chained.zMove = zst.zMove /\ chained.zStill = zst.zStill
  BY DEF ZoneSound, ZoneStates
<1> HIDE DEF chained
<1>3. /\ ZoneSound(chained) /\ Kept(chained, zst)
      /\ Stamped(zst) => Stamped(chained)
  BY <1>1, <1>2 DEF ZoneSound, Latched, ClocksExclude, OccupancyRecorded,
    ChainSound, RecordingPinned, Suspended, Kept, Stamped
<1> QED BY <1>3 DEF chained

LEMMA AttackSound ==
  ASSUME NEW zst, ZoneSound(zst), ~Suspended(zst), NEW r, NEW energyFresh
  PROVE  /\ ZoneSound(Attack(zst, r, energyFresh))
         /\ Kept(Attack(zst, r, energyFresh), zst)
         /\ Stamped(zst) => Stamped(Attack(zst, r, energyFresh))
<1> DEFINE kept == OnPath(zst.attack, EvidencePath(r))
           chain == IF energyFresh THEN ExtendChain(kept, r) ELSE kept
           chained == [zst EXCEPT !.attack = chain]
<1>1. kept \in Chains /\ ChainForm(kept)
  BY NoChainSound DEF OnPath, ZoneSound, ZoneStates, ChainSound
<1> HIDE DEF kept
<1>2. chain \in Chains /\ ChainForm(chain)
  BY <1>1, ExtendChainSound
<1> HIDE DEF chain
<1>3. /\ ZoneSound(chained) /\ Kept(chained, zst)
      /\ Stamped(zst) => Stamped(chained)
  BY <1>2, ChainedSound
<1> DEFINE lam == Larger(zst.lam, LamAttack)
<1>4. Attack(zst, r, energyFresh) \in {SetLambda(chained, lam), chained}
  BY DEF Attack, chain, kept
<1> HIDE DEF chained, lam
<1>5. ~chained.recording
  BY <1>3 DEF Kept, Suspended
<1>6. /\ ZoneSound(SetLambda(chained, lam)) /\ Kept(SetLambda(chained, lam), chained)
      /\ Stamped(chained) => Stamped(SetLambda(chained, lam))
  BY <1>3, <1>5, SetLambdaSound
<1> QED BY <1>3, <1>4, <1>6 DEF Kept

----------------------------------------------------------------------------
(* What the handlers assign to a zone beside the filter                    *)

(* The health of a zone, with its chain cleared *)
LEMMA SilencedSound ==
  ASSUME NEW zst, ZoneSound(zst), NEW health \in {"OK", "UNKNOWN"}
  PROVE  LET new == [zst EXCEPT !.health = health, !.attack = NoChain]
         IN  /\ ZoneSound(new) /\ new.health = health
             /\ new.motion = zst.motion /\ new.recording = zst.recording
             /\ new.attack = NoChain
             /\ Stamped(zst) => Stamped(new)
<1> DEFINE new == [zst EXCEPT !.health = health, !.attack = NoChain]
<1>1. new \in ZoneStates
  BY NoChainSound, ZenonT(30) DEF ZoneSound, ZoneStates
<1>2. /\ new.health = health
      /\ new.lam = zst.lam
      /\ new.occupied = zst.occupied
      /\ new.activity = zst.activity
      /\ new.motion = zst.motion
      /\ new.recording = zst.recording
      /\ new.zMove = zst.zMove
      /\ new.zStill = zst.zStill
      /\ new.attack = NoChain
      /\ new.since = zst.since
      /\ new.stillDom = zst.stillDom
      /\ new.moveDom = zst.moveDom
  BY DEF ZoneSound, ZoneStates
<1> HIDE DEF new
<1>3. NoChain.count = 0
  BY DEF NoChain
<1>4. /\ ZoneSound(new) /\ new.health = health
      /\ new.motion = zst.motion /\ new.recording = zst.recording
      /\ new.attack = NoChain
      /\ Stamped(zst) => Stamped(new)
  BY <1>1, <1>2, <1>3, NoChainSound DEF ZoneSound, Latched, ClocksExclude,
    OccupancyRecorded, ChainSound, RecordingPinned, Stamped
<1> QED BY <1>4 DEF new

(* The recovery of a zone *)
LEMMA RecoveredSound ==
  ASSUME NEW zst, ZoneSound(zst)
  PROVE  LET new == [zst EXCEPT !.health = "OK"]
         IN  /\ ZoneSound(new) /\ new.health = "OK"
             /\ new.motion = zst.motion /\ new.recording = zst.recording
             /\ Stamped(zst) => Stamped(new)
<1> DEFINE new == [zst EXCEPT !.health = "OK"]
<1>1. new \in ZoneStates
  BY Zenon DEF ZoneSound, ZoneStates
<1>2. /\ new.health = "OK"
      /\ new.lam = zst.lam
      /\ new.occupied = zst.occupied
      /\ new.activity = zst.activity
      /\ new.motion = zst.motion
      /\ new.recording = zst.recording
      /\ new.zMove = zst.zMove
      /\ new.zStill = zst.zStill
      /\ new.attack = zst.attack
      /\ new.since = zst.since
      /\ new.stillDom = zst.stillDom
      /\ new.moveDom = zst.moveDom
  BY DEF ZoneSound, ZoneStates
<1> HIDE DEF new
<1>3. /\ ZoneSound(new) /\ new.health = "OK"
      /\ new.motion = zst.motion /\ new.recording = zst.recording
      /\ Stamped(zst) => Stamped(new)
  BY <1>1, <1>2 DEF ZoneSound, Latched, ClocksExclude,
    OccupancyRecorded, ChainSound, RecordingPinned, Stamped
<1> QED BY <1>3 DEF new

(* The motion of a zone, which is off while it records *)
LEMMA MotionSound ==
  ASSUME NEW zst, ZoneSound(zst), NEW motion \in BOOLEAN,
         zst.recording => ~motion
  PROVE  LET new == [zst EXCEPT !.motion = motion]
         IN  /\ ZoneSound(new) /\ new.motion = motion
             /\ new.health = zst.health /\ new.recording = zst.recording
             /\ Stamped(zst) => Stamped(new)
<1> DEFINE new == [zst EXCEPT !.motion = motion]
<1>1. new \in ZoneStates
  BY Zenon DEF ZoneSound, ZoneStates
<1>2. /\ new.health = zst.health
      /\ new.lam = zst.lam
      /\ new.occupied = zst.occupied
      /\ new.activity = zst.activity
      /\ new.motion = motion
      /\ new.recording = zst.recording
      /\ new.zMove = zst.zMove
      /\ new.zStill = zst.zStill
      /\ new.attack = zst.attack
      /\ new.since = zst.since
      /\ new.stillDom = zst.stillDom
      /\ new.moveDom = zst.moveDom
  BY DEF ZoneSound, ZoneStates
<1> HIDE DEF new
<1>3. /\ ZoneSound(new) /\ new.motion = motion
      /\ new.health = zst.health /\ new.recording = zst.recording
      /\ Stamped(zst) => Stamped(new)
  BY <1>1, <1>2 DEF ZoneSound, Latched, ClocksExclude,
    OccupancyRecorded, ChainSound, RecordingPinned, Stamped
<1> QED BY <1>3 DEF new

(* The end of a calibration window *)
LEMMA UnpinnedSound ==
  ASSUME NEW zst, ZoneSound(zst)
  PROVE  LET new == [zst EXCEPT !.recording = FALSE]
         IN  /\ ZoneSound(new) /\ ~new.recording
             /\ new.health = zst.health /\ new.motion = zst.motion
             /\ Stamped(zst) => Stamped(new)
<1> DEFINE new == [zst EXCEPT !.recording = FALSE]
<1>1. new \in ZoneStates
  BY Zenon DEF ZoneSound, ZoneStates
<1>2. /\ new.health = zst.health
      /\ new.lam = zst.lam
      /\ new.occupied = zst.occupied
      /\ new.activity = zst.activity
      /\ new.motion = zst.motion
      /\ new.recording = FALSE
      /\ new.zMove = zst.zMove
      /\ new.zStill = zst.zStill
      /\ new.attack = zst.attack
      /\ new.since = zst.since
      /\ new.stillDom = zst.stillDom
      /\ new.moveDom = zst.moveDom
  BY DEF ZoneSound, ZoneStates
<1> HIDE DEF new
<1>3. /\ ZoneSound(new) /\ ~new.recording
      /\ new.health = zst.health /\ new.motion = zst.motion
      /\ Stamped(zst) => Stamped(new)
  BY <1>1, <1>2 DEF ZoneSound, Latched, ClocksExclude,
    OccupancyRecorded, ChainSound, RecordingPinned, Stamped
<1> QED BY <1>3 DEF new

(* The assertion of emptiness *)
LEMMA PinnedSound ==
  ASSUME NEW zst, ZoneSound(zst)
  PROVE  /\ ZoneSound(Pinned(zst)) /\ Stamped(Pinned(zst))
         /\ Pinned(zst).health = zst.health
         /\ Pinned(zst).recording /\ ~Pinned(zst).motion
<1> DEFINE new == Pinned(zst)
<1>1. new \in ZoneStates
  <2>1. TRUE \in BOOLEAN /\ FALSE \in BOOLEAN /\ 0 \in Int
    OBVIOUS
  <2> QED
    BY <2>1, LamsOrder, FieldTypes, NoChainSound, ZenonT(60)
      DEF Pinned, ZoneSound, ZoneStates
<1>2. /\ new.health = zst.health /\ new.lam = LamPrior /\ ~new.occupied
      /\ new.activity = "EMPTY" /\ ~new.motion /\ new.recording
      /\ new.zMove = 0 /\ new.zStill = 0 /\ new.attack = NoChain
      /\ new.since = None /\ new.stillDom = None /\ new.moveDom = None
  BY DEF Pinned, ZoneSound, ZoneStates
<1> HIDE DEF new
<1>3. NoChain.count = 0
  BY DEF NoChain
<1>4. /\ ZoneSound(new) /\ Stamped(new) /\ new.health = zst.health
      /\ new.recording /\ ~new.motion
  BY <1>1, <1>2, <1>3, NoChainSound, BeliefAssumption DEF ZoneSound, Latched,
    ClocksExclude, OccupancyRecorded, ChainSound, RecordingPinned, Stamped
<1> QED BY <1>4 DEF new

(* The start gives an adopted zone the time it has been occupied since. *)
LEMMA OnOccupiedSound ==
  ASSUME NEW zst, ZoneSound(zst), zst.occupied
  PROVE  /\ ZoneSound(OnOccupied(zst)) /\ Stamped(OnOccupied(zst))
         /\ Kept(OnOccupied(zst), zst)
<1> DEFINE new == OnOccupied(zst)
<1>1. new \in ZoneStates
  BY FieldTypes, ZenonT(30) DEF OnOccupied, ZoneSound, ZoneStates
<1>2. /\ new.health = zst.health
      /\ new.lam = zst.lam
      /\ new.occupied = zst.occupied
      /\ new.activity = "PASSING"
      /\ new.motion = zst.motion
      /\ new.recording = zst.recording
      /\ new.zMove = zst.zMove
      /\ new.zStill = zst.zStill
      /\ new.attack = zst.attack
      /\ new.since = 0
      /\ new.stillDom = None
      /\ new.moveDom = None
  BY DEF OnOccupied, ZoneSound, ZoneStates
<1> HIDE DEF new
<1>3. ZoneSound(new) /\ Stamped(new) /\ Kept(new, zst)
  BY <1>1, <1>2, FieldTypes DEF ZoneSound, Latched, ClocksExclude,
    OccupancyRecorded, ChainSound, RecordingPinned, Stamped, Kept
<1> QED BY <1>3 DEF new

----------------------------------------------------------------------------
(* What the filter and the activity machine do to the belief and the latch *)

(* The hysteresis of rule 4.3, and the records of an occupancy that follow *)
(* the latch                                                               *)
Switched(occupied, lam) == IF occupied THEN lam > LamOff ELSE lam >= LamOn

Turned(new, old) ==
  /\ new.occupied <=> Switched(old.occupied, new.lam)
  /\ new.occupied /\ ~old.occupied => new.since = 0
  /\ new.occupied = old.occupied =>
       new.since = old.since /\ new.activity = old.activity

(* What a completed attack makes of a belief and its latch *)
Lifted(new, old) ==
  /\ new.lam = Clamp(Larger(old.lam, LamAttack))
  /\ new.occupied <=> Switched(old.occupied, new.lam)

SameEvidence(new, old) ==
  new.zMove = old.zMove /\ new.zStill = old.zStill /\ new.attack = old.attack

LEMMA SetLambdaTurns ==
  ASSUME NEW zst \in ZoneStates, NEW lam
  PROVE  LET new == SetLambda(zst, lam)
         IN  new.lam = Clamp(lam) /\ Turned(new, zst) /\ SameEvidence(new, zst)
<1> DEFINE set == [zst EXCEPT !.lam = Clamp(lam)]
           on == OnOccupied([set EXCEPT !.occupied = TRUE])
           off == OnVacated([set EXCEPT !.occupied = FALSE])
           new == SetLambda(zst, lam)
<1>1. set.lam = Clamp(lam) /\ Clamp(lam) \in Int
  BY ClampKeeps, LamsOrder DEF ZoneStates
<1>2. CASE ~zst.occupied /\ Clamp(lam) >= LamOn
  <2>1. new = on
    BY <1>1, <1>2 DEF SetLambda
  <2>2. /\ on.lam = Clamp(lam) /\ on.occupied /\ on.since = 0
        /\ SameEvidence(on, zst)
    BY DEF OnOccupied, ZoneStates, SameEvidence
  <2> HIDE DEF on, new
  <2>3. new.lam = Clamp(lam) /\ Turned(new, zst) /\ SameEvidence(new, zst)
    BY <1>2, <2>1, <2>2 DEF Turned, Switched
  <2> QED BY <2>3 DEF new
<1>3. CASE zst.occupied /\ Clamp(lam) <= LamOff
  <2>1. new = off
    BY <1>1, <1>3 DEF SetLambda
  <2>2. off.lam = Clamp(lam) /\ ~off.occupied /\ SameEvidence(off, zst)
    BY DEF OnVacated, ZoneStates, SameEvidence
  <2>3. ~(Clamp(lam) > LamOff)
    BY <1>1, <1>3, LamsOrder
  <2>4. off.occupied = FALSE
    BY DEF OnVacated, ZoneStates
  <2> HIDE DEF off, new
  <2>5. new.lam = Clamp(lam) /\ Turned(new, zst) /\ SameEvidence(new, zst)
    BY <1>3, <2>1, <2>2, <2>3, <2>4 DEF Turned, Switched
  <2> QED BY <2>5 DEF new
<1>4. CASE /\ ~(~zst.occupied /\ Clamp(lam) >= LamOn)
           /\ ~(zst.occupied /\ Clamp(lam) <= LamOff)
  <2>1. new = set
    BY <1>1, <1>4 DEF SetLambda
  <2>2. /\ set.occupied = zst.occupied /\ set.since = zst.since
        /\ set.activity = zst.activity /\ SameEvidence(set, zst)
    BY DEF ZoneStates, SameEvidence
  <2>3. zst.occupied <=> Switched(zst.occupied, Clamp(lam))
    <3>1. CASE zst.occupied
      BY <1>1, <1>4, <3>1, LamsOrder DEF Switched, ZoneStates
    <3>2. CASE ~zst.occupied
      BY <1>1, <1>4, <3>2, LamsOrder DEF Switched, ZoneStates
    <3> QED BY <3>1, <3>2
  <2> HIDE DEF set, new
  <2>4. new.lam = Clamp(lam) /\ Turned(new, zst) /\ SameEvidence(new, zst)
    BY <1>1, <2>1, <2>2, <2>3 DEF Turned
  <2> QED BY <2>4 DEF new
<1> QED BY <1>2, <1>3, <1>4

LEMMA TurnedSelf == ASSUME NEW zst, ZoneSound(zst) PROVE Turned(zst, zst)
<1>1. zst.lam \in Int /\ LamOn \in Int /\ LamOff \in Int /\ zst.occupied \in BOOLEAN
  BY LamsOrder DEF ZoneSound, ZoneStates
<1> QED BY <1>1 DEF ZoneSound, Latched, Turned, Switched

(* Growing older moves the stamps alone, by the time passed at most. *)
LEMMA AgedSame ==
  ASSUME NEW zst, ZoneSound(zst), NEW dt \in Nat
  PROVE  LET new == Aged(zst, dt)
         IN  /\ new.lam = zst.lam /\ new.occupied = zst.occupied
             /\ new.activity = zst.activity
             /\ new.zMove = zst.zMove /\ new.zStill = zst.zStill
             /\ new.attack.count = zst.attack.count
             /\ new.since = None <=> zst.since = None
             /\ new.since <= zst.since + dt
<1> DEFINE since == Older(zst.since, dt, TDwell)
           new == Aged(zst, dt)
<1>1. zst.since \in Ages(TDwell) /\ TDwell \in Nat
  BY ZoneFilterAssumption DEF ZoneSound, ZoneStates
<1>2. since = None <=> zst.since = None
  BY <1>1, OlderType
<1>3. since <= zst.since + dt
  BY <1>1 DEF Older, Smaller, Ages, None
<1> HIDE DEF since
<1>4. /\ new.lam = zst.lam /\ new.occupied = zst.occupied
      /\ new.activity = zst.activity
      /\ new.zMove = zst.zMove /\ new.zStill = zst.zStill
      /\ new.since = since
  BY DEF Aged, ZoneSound, ZoneStates, since
<1>5. new.attack.count = zst.attack.count
  <2> DEFINE attack == [zst.attack EXCEPT !.age = Older(@, dt, GapCap)]
  <2>1. new.attack = attack
    BY DEF Aged, ZoneSound, ZoneStates
  <2>2. attack.count = zst.attack.count
    BY DEF ZoneSound, ZoneStates, Chains
  <2> QED BY <2>1, <2>2
<1> HIDE DEF new
<1>6. /\ new.lam = zst.lam /\ new.occupied = zst.occupied
      /\ new.activity = zst.activity
      /\ new.zMove = zst.zMove /\ new.zStill = zst.zStill
      /\ new.attack.count = zst.attack.count
      /\ new.since = None <=> zst.since = None
      /\ new.since <= zst.since + dt
  BY <1>2, <1>3, <1>4, <1>5
<1> QED BY <1>6 DEF new

(* The activity machine moves the activity and its clocks alone, and only  *)
(* those of a healthy occupied zone.                                       *)
LEMMA TickZoneSame ==
  ASSUME NEW zst, ZoneSound(zst)
  PROVE  LET new == TickZone(zst)
         IN  /\ new.lam = zst.lam /\ new.occupied = zst.occupied
             /\ new.since = zst.since /\ SameEvidence(new, zst)
             /\ zst.health # "OK" \/ ~zst.occupied => new = zst
<1>1. CASE ~(zst.health = "OK" /\ zst.occupied /\ zst.since # None)
  BY <1>1 DEF TickZone, SameEvidence
<1>2. CASE zst.health = "OK" /\ zst.occupied /\ zst.since # None
  <2> DEFINE led == Dominance(zst)
             still == led.stillDom
             move == led.moveDom
             activity == NextActivity(led)
             ticked == [[zst EXCEPT !.stillDom = still, !.moveDom = move]
                          EXCEPT !.activity = activity]
  <2>1. led = [zst EXCEPT !.stillDom = still, !.moveDom = move]
    BY <1>2, DominanceSound
  <2>2. TickZone(zst) = ticked
    BY <1>2, <2>1 DEF TickZone
  <2> HIDE DEF led, still, move, activity
  <2>3. /\ ticked.lam = zst.lam /\ ticked.occupied = zst.occupied
        /\ ticked.since = zst.since /\ SameEvidence(ticked, zst)
    BY DEF ZoneSound, ZoneStates, SameEvidence
  <2> QED BY <1>2, <2>2, <2>3
<1> QED BY <1>1, <1>2

----------------------------------------------------------------------------
(* The belief an advance integrates                                        *)

LEMMA ChannelTermType ==
  ASSUME NEW z \in Int, NEW k \in Nat, NEW age \in Int
  PROVE  /\ ChannelTerm(z, k, age) \in Int
         /\ z <= KBias \/ age > ObsBudget => ChannelTerm(z, k, age) <= 0
<1> DEFINE shifted == z - KBias
           term == k * shifted
<1>1. shifted \in Int /\ (z <= KBias <=> shifted <= 0)
  BY ZoneFilterAssumption
<1> HIDE DEF shifted
<1>2. term \in Int /\ (shifted <= 0 => term <= 0)
  BY <1>1
<1>3. ChannelTerm(z, k, age)
        = IF age <= (IF shifted > 0 THEN ObsBudget ELSE ObsHold) THEN term ELSE 0
  BY DEF ChannelTerm, shifted
<1> HIDE DEF term
<1> QED BY <1>1, <1>2, <1>3, ZoneFilterAssumption

(* Without a positive score within its budget the rate speaks of absence.  *)
LEMMA RateType ==
  ASSUME NEW zst \in ZoneStates, NEW moveAge \in Int, NEW stillAge \in Int
  PROVE  /\ EvidenceRate(zst, moveAge, stillAge) \in Int
         /\ /\ zst.zMove <= KBias \/ moveAge > ObsBudget
            /\ zst.zStill <= KBias \/ stillAge > ObsBudget
            => EvidenceRate(zst, moveAge, stillAge) <= 0
<1> DEFINE move == ChannelTerm(zst.zMove, KMove, moveAge)
           still == ChannelTerm(zst.zStill, KStill, stillAge)
<1>1. zst.zMove \in Int /\ zst.zStill \in Int /\ KMove \in Nat /\ KStill \in Nat
  BY ZoneFilterAssumption DEF ZoneStates
<1>2. /\ move \in Int /\ (zst.zMove <= KBias \/ moveAge > ObsBudget => move <= 0)
      /\ still \in Int /\ (zst.zStill <= KBias \/ stillAge > ObsBudget => still <= 0)
  BY <1>1, ChannelTermType
<1>3. EvidenceRate(zst, moveAge, stillAge) = Smaller(UCap, move + still)
  BY DEF EvidenceRate
<1> HIDE DEF move, still
<1> QED BY <1>2, <1>3, ZoneFilterAssumption DEF Smaller

Rates(zst, sst) ==
  [n \in Nat |-> EvidenceRate(zst, sst.moveAge + n, sst.stillAge + n)]

Observing(sst) == sst.moveAge \in Nat /\ sst.stillAge \in Nat

(* Two ages between which no window ends find a channel alike. *)
LEMMA SameTerm ==
  ASSUME NEW z, NEW k, NEW a \in Int, NEW b \in Int,
         \A window \in {ObsBudget, ObsHold} : a <= window <=> b <= window
  PROVE  ChannelTerm(z, k, a) = ChannelTerm(z, k, b)
BY DEF ChannelTerm

(* Within a segment the rate is the one at its midpoint. *)
LEMMA SegmentSteady ==
  ASSUME NEW zst, NEW sst, Observing(sst), NEW dt \in Nat,
         NEW start \in 0 .. dt, NEW end \in 0 .. dt, start < end,
         \A cut \in Cuts(sst, dt) : ~(start < cut /\ cut < end),
         NEW n \in 1 .. (end - start)
  PROVE  Rates(zst, sst)[start + n] = MidRate(zst, sst, start, end)
<1> DEFINE unit == start + n
           mid == (start + end + 1) \div 2
           seg == {m \in Nat : start < m /\ m <= end}
<1>1. unit \in seg /\ mid \in seg /\ unit \in Nat
  OBVIOUS
<1>2. ASSUME NEW a \in seg, NEW b \in seg, NEW age \in {sst.moveAge, sst.stillAge},
             NEW window \in {ObsBudget, ObsHold}, age + a <= window
      PROVE  age + b <= window
  <2>1. age \in Nat /\ window \in Nat
    BY ZoneFilterAssumption DEF Observing
  <2>2. SUFFICES ASSUME window < age + b PROVE FALSE
    BY <2>1
  <2> DEFINE cut == window - age
  <2>3. cut \in 1 .. dt - 1 /\ start < cut /\ cut < end /\ age + cut = window
    BY <1>2, <2>1, <2>2
  <2> HIDE DEF cut
  <2>4. cut \in Cuts(sst, dt)
    BY <2>3 DEF Cuts
  <2> QED BY <2>3, <2>4
<1> HIDE DEF unit, mid, seg
<1>3. ASSUME NEW age \in {sst.moveAge, sst.stillAge}, NEW window \in {ObsBudget, ObsHold}
      PROVE  age + unit <= window <=> age + mid <= window
  BY <1>1, <1>2
<1>4. /\ \A m \in seg : m \in Int
      /\ sst.moveAge \in Int /\ sst.stillAge \in Int
  BY DEF Observing, seg
<1>5. /\ ChannelTerm(zst.zMove, KMove, sst.moveAge + unit)
           = ChannelTerm(zst.zMove, KMove, sst.moveAge + mid)
      /\ ChannelTerm(zst.zStill, KStill, sst.stillAge + unit)
           = ChannelTerm(zst.zStill, KStill, sst.stillAge + mid)
  BY <1>1, <1>3, <1>4, SameTerm
<1>6. Rates(zst, sst)[unit]
        = EvidenceRate(zst, sst.moveAge + unit, sst.stillAge + unit)
  BY <1>1 DEF Rates
<1>7. EvidenceRate(zst, sst.moveAge + unit, sst.stillAge + unit)
        = EvidenceRate(zst, sst.moveAge + mid, sst.stillAge + mid)
  BY <1>5 DEF EvidenceRate
<1>8. MidRate(zst, sst, start, end)
        = EvidenceRate(zst, sst.moveAge + mid, sst.stillAge + mid)
  BY DEF MidRate, mid
<1> QED BY <1>6, <1>7, <1>8 DEF unit

(* So a segment ends with the belief that integrating it unit by unit ends *)
(* with.                                                                   *)
LEMMA SegmentIntegral ==
  ASSUME NEW zst \in ZoneStates, NEW sst, Observing(sst), NEW dt \in Nat,
         NEW f, Integral(f, zst.lam, Rates(zst, sst), dt),
         NEW start \in 0 .. dt, NEW end \in 0 .. dt, start < end,
         \A cut \in Cuts(sst, dt) : ~(start < cut /\ cut < end)
  PROVE  f[end] = Clamp(AdvanceBelief(f[start], MidRate(zst, sst, start, end),
                                      end - start))
<1> DEFINE e == end - start
           v == MidRate(zst, sst, start, end)
           u == Rates(zst, sst)
           w == [n \in Nat |-> u[start + n]]
<1>1. e \in Nat /\ start + e = end /\ start + e <= dt /\ start \in Nat
  OBVIOUS
<1>2. \A n \in 1 .. e : w[n] = u[start + n]
  OBVIOUS
<1>3. \A n \in 1 .. e : w[n] = v
  BY <1>2, SegmentSteady
<1>4. v \in Int
  <2> DEFINE mid == (start + end + 1) \div 2
  <2>1. mid \in Int
    OBVIOUS
  <2> HIDE DEF mid
  <2>2. sst.moveAge + mid \in Int /\ sst.stillAge + mid \in Int
    BY <2>1 DEF Observing
  <2> QED BY <2>2, RateType DEF MidRate, mid
<1>5. f[start] \in Lams
  <2>1. zst.lam \in Lams
    BY DEF ZoneStates
  <2> QED BY <2>1, IntegralType
<1> HIDE DEF e, v, u, w
<1>6. PICK g : Integral(g, f[start], w, e)
  BY <1>1, IntegralExists
<1>7. Integral(f, zst.lam, u, dt)
  BY DEF u
<1>8. \A n \in 0 .. e : g[n] = f[start + n]
  BY <1>1, <1>2, <1>6, <1>7, IntegralSame
<1>9. g[e] = f[end]
  <2>1. e \in 0 .. e
    BY <1>1
  <2> QED BY <1>1, <1>8, <2>1
<1>10. g[e] = Clamp(AdvanceBelief(f[start], v, e))
  BY <1>1, <1>3, <1>4, <1>5, <1>6, ClampedSegment
<1> QED BY <1>9, <1>10 DEF v, e

(* The last cut before an instant *)
LEMMA CutBefore ==
  ASSUME NEW sst, NEW dt \in Nat, NEW end \in Cuts(sst, dt), end # 0
  PROVE  LET start == Max({cut \in Cuts(sst, dt) : cut < end})
         IN  /\ start \in Cuts(sst, dt) /\ start < end
             /\ \A cut \in Cuts(sst, dt) : ~(start < cut /\ cut < end)
<1> DEFINE S == {cut \in Cuts(sst, dt) : cut < end}
<1>1. Cuts(sst, dt) \subseteq 0 .. dt /\ 0 \in Cuts(sst, dt)
  BY DEF Cuts
<1>2. S \subseteq Int /\ end \in Int /\ 0 \in S /\ \A x \in S : x <= end
  BY <1>1
<1>3. Max(S) \in S /\ \A x \in S : x <= Max(S)
  BY <1>2, LargestOf
<1>4. ASSUME NEW cut \in Cuts(sst, dt), Max(S) < cut, cut < end PROVE FALSE
  <2> DEFINE top == Max(S)
  <2>1. cut \in S /\ top \in Int /\ cut \in Int
    BY <1>1, <1>2, <1>3, <1>4
  <2>2. cut <= top /\ top < cut
    BY <1>3, <1>4, <2>1
  <2> HIDE DEF top
  <2> QED BY <2>1, <2>2
<1> QED BY <1>3, <1>4

(* Cutting the interval where windows end and integrating each segment at  *)
(* once, as the code does, is integrating unit by unit.                    *)
LEMMA BeliefIntegral ==
  ASSUME NEW zst \in ZoneStates, NEW sst, Observing(sst), NEW dt \in Nat
  PROVE  \E f : /\ Integral(f, zst.lam, Rates(zst, sst), dt)
                /\ IntegrateBelief(zst, sst, dt) = f[dt]
<1> DEFINE cuts == Cuts(sst, dt)
           Before(end) == Max({cut \in cuts : cut < end})
           Step(g, end) ==
             Clamp(AdvanceBelief(g[Before(end)], MidRate(zst, sst, Before(end), end),
                                 end - Before(end)))
           Solves(g) == g = [end \in cuts |-> IF end = 0 THEN zst.lam
                                              ELSE Step(g, end)]
           solution == CHOOSE g : Solves(g)
<1>1. PICK f : Integral(f, zst.lam, Rates(zst, sst), dt)
  BY IntegralExists
<1>2. cuts \subseteq 0 .. dt /\ dt \in cuts /\ 0 \in cuts
  BY DEF Cuts
<1>3. ASSUME NEW end \in cuts, end # 0
      PROVE  Before(end) \in cuts /\ Before(end) < end /\ f[end] = Step(f, end)
  <2>1. /\ Before(end) \in cuts /\ Before(end) < end
        /\ \A cut \in cuts : ~(Before(end) < cut /\ cut < end)
    BY <1>3, CutBefore
  <2>2. Before(end) \in 0 .. dt /\ end \in 0 .. dt
    BY <1>2, <2>1
  <2> HIDE DEF Before
  <2>3. f[end] = Step(f, end)
    BY <1>1, <2>1, <2>2, SegmentIntegral
  <2> QED BY <2>1, <2>3
<1>4. IntegrateBelief(zst, sst, dt) = solution[dt]
  BY DEF IntegrateBelief
<1> HIDE DEF Before, cuts
<1>0. \A cut \in cuts : cut \in Nat
  <2>1. \A x \in 0 .. dt : x \in Nat
    OBVIOUS
  <2> QED BY <1>2, <2>1, Zenon
<1>5. \E g : Solves(g)
  <2> DEFINE g == [end \in cuts |-> f[end]]
  <2>1. ASSUME NEW end \in cuts
        PROVE  g[end] = IF end = 0 THEN zst.lam ELSE Step(g, end)
    <3>1. CASE end = 0
      <4>1. f[0] = zst.lam
        BY <1>1 DEF Integral
      <4> QED BY <3>1, <4>1
    <3>2. CASE end # 0
      <4>1. g[Before(end)] = f[Before(end)]
        BY <1>3, <3>2
      <4>2. f[end] = Step(f, end)
        BY <1>3, <3>2
      <4> QED BY <3>2, <4>1, <4>2
    <3> QED BY <3>1, <3>2
  <2>2. Solves(g)
    BY <2>1, Zenon
  <2> QED BY <2>2
<1>6. Solves(solution)
  <2> HIDE DEF Solves
  <2> QED BY <1>5
<1> HIDE DEF solution
<1>7. ASSUME NEW end \in cuts
      PROVE  solution[end] = IF end = 0 THEN zst.lam ELSE Step(solution, end)
  <2> DEFINE rhs == [x \in cuts |-> IF x = 0 THEN zst.lam ELSE Step(solution, x)]
  <2>1. solution = rhs
    BY <1>6
  <2>2. rhs[end] = IF end = 0 THEN zst.lam ELSE Step(solution, end)
    OBVIOUS
  <2> HIDE DEF rhs
  <2> QED BY <2>1, <2>2
<1>8. \A end \in cuts : solution[end] = f[end]
  <2> DEFINE T == {end \in cuts : solution[end] # f[end]}
  <2>1. SUFFICES ASSUME T # {} PROVE FALSE
    OBVIOUS
  <2>2. T \subseteq Nat
    BY <1>0, Zenon
  <2>3. PICK end \in T : \A k \in T : end <= k
    <3> HIDE DEF T
    <3> QED BY <2>1, <2>2, Least
  <2>4. end \in cuts /\ solution[end] # f[end] /\ end \in Nat
    BY <2>2
  <2>5. end # 0
    <3>1. f[0] = zst.lam
      BY <1>1 DEF Integral
    <3> QED BY <1>7, <2>4, <3>1
  <2>6. Before(end) \in cuts /\ Before(end) < end /\ Before(end) \in Nat
    <3>1. Before(end) \in cuts /\ Before(end) < end
      BY <1>3, <2>4, <2>5
    <3> QED BY <1>0, <3>1, Zenon
  <2>7. Before(end) \notin T
    BY <2>3, <2>4, <2>6
  <2>8. solution[Before(end)] = f[Before(end)]
    BY <2>6, <2>7
  <2> HIDE DEF T
  <2>9. solution[end] = Step(solution, end) /\ f[end] = Step(f, end)
    BY <1>3, <1>7, <2>4, <2>5
  <2> QED BY <2>4, <2>8, <2>9
<1> QED BY <1>1, <1>2, <1>4, <1>8

(* What an advance does to a zone that is not suspended *)
LEMMA AdvanceZoneTurns ==
  ASSUME NEW zst, ZoneSound(zst), NEW sst, Observing(sst), NEW dt \in Nat
  PROVE  LET new == AdvanceZone(zst, sst, dt)
         IN  /\ Turned(new, zst) /\ SameEvidence(new, zst)
             /\ Suspended(zst) => new = zst
             /\ ~Suspended(zst) => new.lam = IntegrateBelief(zst, sst, dt)
<1>1. CASE Suspended(zst)
  BY <1>1, TurnedSelf DEF AdvanceZone, SameEvidence
<1>2. CASE ~Suspended(zst)
  <2> DEFINE lam == IntegrateBelief(zst, sst, dt)
  <2>1. PICK f : Integral(f, zst.lam, Rates(zst, sst), dt) /\ lam = f[dt]
    BY BeliefIntegral DEF ZoneSound
  <2>2. lam \in Lams
    BY <2>1, IntegralType DEF ZoneSound, ZoneStates
  <2>3. AdvanceZone(zst, sst, dt) = SetLambda(zst, lam)
    BY <1>2 DEF AdvanceZone
  <2> HIDE DEF lam
  <2> QED BY <1>2, <2>2, <2>3, SetLambdaTurns, ClampKeeps DEF lam, ZoneSound
<1> QED BY <1>1, <1>2

(* Evidence of absence begins no occupancy. *)
LEMMA NoOnset ==
  ASSUME NEW zst, ZoneSound(zst), ~zst.occupied, NEW sst, NEW dt \in Nat,
         Observing(sst),
         ~(zst.zMove > KBias /\ sst.moveAge < ObsBudget),
         ~(zst.zStill > KBias /\ sst.stillAge < ObsBudget)
  PROVE  ~AdvanceZone(zst, sst, dt).occupied
<1>1. CASE Suspended(zst)
  BY <1>1 DEF AdvanceZone
<1>2. CASE ~Suspended(zst)
  <2>1. PICK f : /\ Integral(f, zst.lam, Rates(zst, sst), dt)
                 /\ IntegrateBelief(zst, sst, dt) = f[dt]
    BY BeliefIntegral DEF ZoneSound
  <2>2. zst \in ZoneStates /\ zst.lam \in Lams /\ zst.lam < LamOn
    BY DEF ZoneSound, ZoneStates, Latched
  <2>3. ASSUME NEW n \in 1 .. dt
        PROVE  Rates(zst, sst)[n] \in Int /\ Rates(zst, sst)[n] <= 0
    <3> DEFINE moveAge == sst.moveAge + n
               stillAge == sst.stillAge + n
    <3>1. Rates(zst, sst)[n] = EvidenceRate(zst, moveAge, stillAge)
      BY DEF Rates
    <3>2. /\ moveAge \in Int /\ stillAge \in Int
          /\ zst.zMove <= KBias \/ moveAge > ObsBudget
          /\ zst.zStill <= KBias \/ stillAge > ObsBudget
      BY <2>2, ZoneFilterAssumption DEF ZoneStates, Observing
    <3> HIDE DEF moveAge, stillAge
    <3> QED BY <2>2, <3>1, <3>2, RateType
  <2>4. f[dt] < LamOn
    BY <2>1, <2>2, <2>3, IntegralBelowOnset
  <2>5. f[dt] \in Int
    <3>1. dt \in 0 .. dt
      OBVIOUS
    <3> QED BY <2>1, <2>2, <3>1, IntegralType, LamsOrder
  <2>6. /\ AdvanceZone(zst, sst, dt).lam = IntegrateBelief(zst, sst, dt)
        /\ Turned(AdvanceZone(zst, sst, dt), zst)
    BY <1>2, AdvanceZoneTurns
  <2> QED BY <2>1, <2>4, <2>5, <2>6, LamsOrder DEF Turned, Switched
<1> QED BY <1>1, <1>2

----------------------------------------------------------------------------
(* What a handler does to a zone beside the advance                        *)

(* What a zone publishes of its presence, and since when *)
SamePresence(new, old) ==
  /\ new.lam = old.lam /\ new.occupied = old.occupied
  /\ new.activity = old.activity /\ new.since = old.since

(* A candidate that finds or leaves its chain confirmed is the last of the *)
(* chain, or belongs to its burst.                                         *)
LEMMA ConfirmedNow ==
  ASSUME NEW chain \in Chains, ChainForm(chain), NEW r, AttackCandidate(r),
         ExtendChain(chain, r).count >= AttackConfirm
  PROVE  /\ ExtendChain(chain, r).count = AttackConfirm
         /\ ExtendChain(chain, r).age < GapMin(EvidencePath(r))
<1> DEFINE path == EvidencePath(r)
           new == ExtendChain(chain, r)
<1>1. GapMin(path) \in Nat \ {0} /\ GapMax(path) \in Nat
  <2>1. path \in {"agg", "gate"}
    BY DEF EvidencePath
  <2>2. ConfiguredGapMin \in Nat \ {0}
    BY ZoneFilterAssumption DEF ConfiguredGapMin, Larger
  <2>3. GapMin(path) \in Nat \ {0}
    BY <2>1, <2>2, ZoneFilterAssumption DEF GapMin, Larger
  <2> QED BY <2>2, <2>3, ZoneFilterAssumption DEF GapMax
<1> HIDE DEF path
<1>2. new.count = AttackConfirm
  <2>1. new \in Chains
    BY ExtendChainSound
  <2>2. new.count >= AttackConfirm
    OBVIOUS
  <2> HIDE DEF new
  <2>3. new.count \in 0 .. AttackConfirm
    BY <2>1 DEF Chains
  <2> QED BY <2>2, <2>3, ZoneFilterAssumption
<1>3. chain.age \in Int
  BY GapCapType DEF Chains, Ages, None
<1>4. CASE chain.age = None \/ chain.age > GapMax(path)
  <2>1. new = [count |-> 1, age |-> 0, path |-> path]
    BY <1>1, <1>3, <1>4 DEF ExtendChain, path
  <2>2. new.age = 0
    BY <2>1
  <2> HIDE DEF new
  <2>3. new.age < GapMin(path)
    BY <1>1, <2>2
  <2> QED BY <1>2, <2>3 DEF new, path
<1>5. CASE /\ chain.age # None /\ chain.age <= GapMax(path)
           /\ chain.age >= GapMin(path)
  <2> DEFINE count == Smaller(chain.count + 1, AttackConfirm)
             longer == [chain EXCEPT !.count = count, !.age = 0]
  <2>1. new = longer
    BY <1>1, <1>3, <1>5 DEF ExtendChain, path
  <2>2. longer.age = 0
    BY DEF Chains
  <2>3. new.age = 0
    BY <2>1, <2>2
  <2> HIDE DEF new
  <2>4. new.age < GapMin(path)
    BY <1>1, <2>3
  <2> QED BY <1>2, <2>4 DEF new, path
<1>6. CASE /\ chain.age # None /\ ~(chain.age > GapMax(path))
           /\ chain.age < GapMin(path)
  <2>1. new = chain
    BY <1>1, <1>3, <1>6 DEF ExtendChain, path
  <2> QED BY <1>2, <1>6, <2>1 DEF path
<1> QED BY <1>1, <1>3, <1>4, <1>5, <1>6

(* An attack vacates nothing, and occupies only on a candidate that stands *)
(* in a confirmed chain.                                                   *)
LEMMA AttackTurns ==
  ASSUME NEW zst, ZoneSound(zst), ~Suspended(zst), NEW r, NEW energyFresh
  PROVE  LET new == Attack(zst, r, energyFresh)
         IN  /\ zst.occupied => new.occupied
             /\ new.occupied = zst.occupied =>
                  new.since = zst.since /\ new.activity = zst.activity
             /\ new.occupied /\ ~zst.occupied =>
                  /\ new.since = 0 /\ AttackCandidate(r)
                  /\ new.attack.count = AttackConfirm
                  /\ new.attack.age < GapMin(EvidencePath(r))
             /\ \/ new.lam = zst.lam /\ new.occupied = zst.occupied
                \/ Lifted(new, zst)
<1> DEFINE kept == OnPath(zst.attack, EvidencePath(r))
           chain == IF energyFresh THEN ExtendChain(kept, r) ELSE kept
           chained == [zst EXCEPT !.attack = chain]
           lam == Larger(zst.lam, LamAttack)
           lifted == SetLambda(chained, lam)
           new == Attack(zst, r, energyFresh)
<1>1. kept \in Chains /\ ChainForm(kept)
  BY NoChainSound DEF OnPath, ZoneSound, ZoneStates, ChainSound
<1> HIDE DEF kept
<1>2. chain \in Chains /\ ChainForm(chain)
  BY <1>1, ExtendChainSound
<1>3. \/ new = chained
      \/ new = lifted /\ energyFresh /\ AttackCandidate(r) /\ chain.count >= AttackConfirm
  BY DEF Attack, kept
<1> HIDE DEF chain
<1>4. ZoneSound(chained)
  BY <1>2, ChainedSound
<1>5. SamePresence(chained, zst) /\ chained.attack = chain
  BY DEF ZoneSound, ZoneStates, SamePresence
<1> HIDE DEF chained
<1>6. CASE new = chained
  BY <1>5, <1>6 DEF SamePresence
<1>7. CASE /\ new = lifted /\ energyFresh /\ AttackCandidate(r)
           /\ chain.count >= AttackConfirm
  <2>1. /\ lifted.lam = Clamp(lam) /\ Turned(lifted, chained)
        /\ SameEvidence(lifted, chained)
    BY <1>4, SetLambdaTurns DEF ZoneSound
  <2>2. zst.lam \in Lams /\ zst.lam \in Int /\ (zst.occupied => zst.lam > LamOff)
    BY LamsOrder DEF ZoneSound, ZoneStates, Latched
  <2>3. Clamp(lam) \in Int /\ Clamp(lam) >= zst.lam
    BY <2>2, BeliefAssumption DEF lam, Larger, Clamp, Lams
  <2> HIDE DEF lifted, lam
  <2>4. zst.occupied => lifted.occupied
    BY <1>5, <2>1, <2>2, <2>3, LamsOrder DEF Turned, Switched, SamePresence
  <2>5. chain.count = AttackConfirm /\ chain.age < GapMin(EvidencePath(r))
    BY <1>1, <1>7, ConfirmedNow DEF chain
  <2>6. lifted.attack = chain
    BY <1>5, <2>1 DEF SameEvidence
  <2>7. /\ lifted.occupied /\ ~zst.occupied => lifted.since = 0
        /\ lifted.occupied = zst.occupied =>
             lifted.since = zst.since /\ lifted.activity = zst.activity
    BY <1>5, <2>1 DEF Turned, SamePresence
  <2>8. Lifted(lifted, zst)
    BY <1>5, <2>1 DEF Turned, SamePresence, Lifted, lam
  <2> HIDE DEF new
  <2> QED BY <1>7, <2>4, <2>5, <2>6, <2>7, <2>8 DEF new
<1> QED BY <1>3, <1>6, <1>7

(* The assignments of the handlers *)
LEMMA AssignedSame ==
  ASSUME NEW zst, ZoneSound(zst), NEW x, NEW y
  PROVE  /\ SamePresence([zst EXCEPT !.health = x, !.attack = y], zst)
         /\ SamePresence([zst EXCEPT !.health = x], zst)
         /\ SamePresence([zst EXCEPT !.motion = x], zst)
         /\ SamePresence([zst EXCEPT !.recording = x], zst)
         /\ [zst EXCEPT !.motion = x].attack = zst.attack
BY DEF ZoneSound, ZoneStates, SamePresence

LEMMA IngestSame ==
  ASSUME NEW zst, ZoneSound(zst), NEW move, NEW still
  PROVE  /\ SamePresence(Ingest(zst, move, still), zst)
         /\ Ingest(zst, move, still).attack = zst.attack
BY DEF Ingest, ZoneSound, ZoneStates, SamePresence

LEMMA PinnedSame ==
  ASSUME NEW zst, ZoneSound(zst)
  PROVE  LET new == Pinned(zst)
         IN  /\ new.recording /\ ~new.occupied /\ new.lam = LamPrior
             /\ new.activity = "EMPTY" /\ ~new.motion /\ new.since = None
             /\ new.motion = FALSE /\ new.occupied = FALSE
BY DEF Pinned, ZoneSound, ZoneStates

LEMMA OnOccupiedSame ==
  ASSUME NEW zst, ZoneSound(zst)
  PROVE  OnOccupied(zst).occupied = zst.occupied /\ OnOccupied(zst).since = 0
BY DEF OnOccupied, ZoneSound, ZoneStates
=============================================================================
