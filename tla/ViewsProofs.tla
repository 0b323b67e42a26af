---------------------------- MODULE ViewsProofs ----------------------------
(***************************************************************************)
(* What gating promises for every layout of a radar's zones, and what the  *)
(* cached view of one radar gives the engine: for any entities, values,    *)
(* outages and rebuilds.                                                   *)
(***************************************************************************)
EXTENDS Views, FiniteSetTheorems, WellFoundedInduction, TLAPS

LEMMA FirstOf ==
  ASSUME NEW S, S \subseteq Nat, S # {}
  PROVE  Min(S) \in S /\ \A x \in S : Min(S) <= x
<1> DEFINE R == OpToRel(<, Nat)
<1>1. IsWellFoundedOn(R, Nat)
  BY NatLessThanWellFounded
<1>2. \A x, y \in Nat : y < x => <<y, x>> \in R
  BY DEF OpToRel
<1> HIDE DEF R
<1>3. PICK m \in S : \A k \in S : ~ (<<k, m>> \in R)
  BY <1>1, WFMin
<1>4. \A k \in S : m <= k
  <2> TAKE k \in S
  <2>1. m \in Nat /\ k \in Nat
    OBVIOUS
  <2>2. ~(k < m)
    BY <1>2, <1>3, <2>1
  <2> QED BY <2>1, <2>2
<1>5. \E x \in S : \A y \in S : x <= y
  BY <1>4
<1> QED BY <1>5 DEF Min

(* The zone that gets what no distance places: one the operator flagged as *)
(* the fallback if any is, else one nobody is nearer than.                 *)
LEMMA DefaultChosen ==
  ASSUME RadarZones # {}
  PROVE  /\ DefaultZone \in RadarZones
         /\ Fallbacks # {} => DefaultZone \in Fallbacks
         /\ Fallbacks = {} => \A z \in RadarZones : Near[DefaultZone] <= Near[z]
<1> DEFINE flagged == {i \in DOMAIN ZoneOrder : ZoneOrder[i] \in Fallbacks}
           nearest == {i \in DOMAIN ZoneOrder : \A j \in DOMAIN ZoneOrder :
                         Near[ZoneOrder[i]] <= Near[ZoneOrder[j]]}
           pool == IF flagged # {} THEN flagged ELSE nearest
<1>1. DOMAIN ZoneOrder \subseteq Nat
  <2>1. \A i \in 1 .. Len(ZoneOrder) : i \in Nat
    OBVIOUS
  <2> QED BY <2>1, GatingAssumption
<1>2. flagged # {} <=> Fallbacks # {}
  BY GatingAssumption DEF RadarZones
<1>3. nearest # {}
  <2> DEFINE nears == {Near[z] : z \in RadarZones}
  <2>1. nears \subseteq Nat /\ nears # {}
    BY GatingAssumption
  <2> HIDE DEF nears
  <2>2. Min(nears) \in nears /\ \A x \in nears : Min(nears) <= x
    BY <2>1, FirstOf
  <2>3. PICK z \in RadarZones : \A y \in RadarZones : Near[z] <= Near[y]
    BY <2>2 DEF nears
  <2>4. PICK i \in DOMAIN ZoneOrder : z = ZoneOrder[i]
    BY DEF RadarZones
  <2> QED BY <2>3, <2>4 DEF RadarZones
<1>4. DefaultZone = ZoneOrder[Min(pool)]
  BY DEF DefaultZone
<1>5. pool \subseteq Nat /\ pool # {}
  BY <1>1, <1>3
<1>6. Min(pool) \in pool
  <2> HIDE DEF pool
  <2> QED BY <1>5, FirstOf
<1> DEFINE first == Min(pool)
<1> HIDE DEF first
<1>7. first \in pool /\ DefaultZone = ZoneOrder[first]
  BY <1>4, <1>6 DEF first
<1> QED BY <1>2, <1>7 DEF RadarZones

(* Where a target goes, whatever the layout of a radar's zones, its        *)
(* distance, its flag and the flag's age (gating.py 61-141).  Two zones    *)
(* share it only where their masks overlap, as those of adjacent zones do  *)
(* by twice the margin; a zone whose mask does not hold it is the default  *)
(* zone, alone, and only for a flag without a distance; a flag that is off *)
(* places nothing but a distance held no longer than distance_hold; and a  *)
(* target whose flag is on is lost only outside every mask.                *)
THEOREM TargetAttributed ==
  ASSUME RadarZones # {}, NEW distance \in Nat \cup {Missing},
         NEW flag \in BOOLEAN, NEW age \in Nat
  PROVE  LET gated == GatedZones(distance, flag, age)
         IN  /\ \A y, z \in gated : y # z =>
                  /\ Near[z] - Margin <= distance
                  /\ distance <= Far[y] + Margin
             /\ \A z \in gated : distance = Missing \/ ~InZone(z, distance) =>
                  /\ flag /\ distance = Missing /\ gated = {z}
                  /\ Fallbacks # {} => z \in Fallbacks
                  /\ Fallbacks = {} => \A y \in RadarZones : Near[z] <= Near[y]
             /\ ~flag /\ gated # {} => distance # Missing /\ age <= DistanceHold
             /\ flag /\ gated = {} =>
                  distance # Missing /\ \A z \in RadarZones : ~InZone(z, distance)
<1> DEFINE usable == UsableDistance(distance, flag, age)
           gated == GatedZones(distance, flag, age)
<1>1. CASE usable = Missing
  <2>1. gated = {z \in RadarZones : flag /\ z = DefaultZone}
    BY <1>1 DEF GatedZones
  <2>2. flag => distance = Missing /\ gated = {DefaultZone}
    BY <1>1, <2>1, DefaultChosen DEF UsableDistance
  <2>3. ~flag => gated = {}
    BY <2>1
  <2> HIDE DEF gated
  <2> QED BY <2>2, <2>3, DefaultChosen DEF gated
<1>2. CASE usable # Missing
  <2>1. gated = {z \in RadarZones : InZone(z, distance)}
    BY <1>2 DEF GatedZones, UsableDistance
  <2>2. distance # Missing /\ (flag \/ age <= DistanceHold)
    BY <1>2 DEF UsableDistance
  <2>3. ASSUME NEW z \in gated
        PROVE  Near[z] - Margin <= distance /\ distance <= Far[z] + Margin
    <3>1. z \in RadarZones /\ InZone(z, distance)
      BY <2>1
    <3>2. Near[z] \in Nat /\ Far[z] \in Nat /\ Margin \in Nat /\ distance \in Nat
      BY <2>2, <3>1, GatingAssumption
    <3> QED BY <3>1, <3>2 DEF InZone
  <2> HIDE DEF gated
  <2> QED BY <2>1, <2>2, <2>3 DEF gated
<1> QED BY <1>1, <1>2

(* The gate a target stands in is owned by every zone whose mask holds the *)
(* target, so switching to the gate path loses no zone the distance would  *)
(* have gated, for any gate size (rule 2.4; gating.py 39-51).              *)
THEOREM MaskCoveredByGates ==
  ASSUME NEW z \in RadarZones, NEW distance \in Nat, InZone(z, distance),
         NEW i \in 0 .. GateCount - 1,
         i * GateSize <= distance, distance < (i + 1) * GateSize
  PROVE  i \in OwnedGates(z)
<1>1. Near[z] \in Nat /\ Far[z] \in Nat /\ Margin \in Nat /\ GateSize \in Nat
      /\ GateCount \in Nat
  BY GatingAssumption
<1>2. i \in Nat
  BY <1>1
<1>3. i * GateSize \in Nat /\ (i + 1) * GateSize \in Nat
  BY <1>1, <1>2
<1>4. Near[z] - Margin <= distance /\ distance <= Far[z] + Margin
  BY <1>1 DEF InZone
<1>5. i * GateSize <= Far[z] + Margin /\ (i + 1) * GateSize > Near[z] - Margin
  BY <1>1, <1>3, <1>4
<1> QED BY <1>5 DEF OwnedGates

----------------------------------------------------------------------------
(* Numbers                                                                 *)

LEMMA MinOfTwo ==
  ASSUME NEW a \in Int, NEW b \in Int
  PROVE  /\ Min({a, b}) \in {a, b} /\ Min({a, b}) <= a /\ Min({a, b}) <= b
<1>1. \E x \in {a, b} : \A y \in {a, b} : x <= y
  OBVIOUS
<1>2. Min({a, b}) \in {a, b} /\ \A y \in {a, b} : Min({a, b}) <= y
  BY <1>1 DEF Min
<1> QED BY <1>2

LEMMA MaxOfEnergies ==
  ASSUME NEW S, S \subseteq 0 .. MaxEnergy, S # {}
  PROVE  Max(S) \in S /\ \A x \in S : x <= Max(S)
<1> DEFINE below == {MaxEnergy - x : x \in S}
           R == OpToRel(<, Nat)
<1>1. MaxEnergy \in Nat
  BY GatingAssumption
<1>2. below \subseteq Nat /\ below # {}
  <2>1. \A x \in S : MaxEnergy - x \in Nat
    BY <1>1
  <2> QED BY <2>1
<1>3. IsWellFoundedOn(R, Nat)
  BY NatLessThanWellFounded
<1>4. \A x, y \in Nat : y < x => <<y, x>> \in R
  BY DEF OpToRel
<1> HIDE DEF R
<1>5. PICK m \in below : \A k \in below : ~ (<<k, m>> \in R)
  <2> HIDE DEF below
  <2> QED BY <1>2, <1>3, WFMin
<1>6. \A k \in below : m <= k
  <2> TAKE k \in below
  <2>1. m \in Nat /\ k \in Nat
    BY <1>2
  <2>2. ~(k < m)
    BY <1>4, <1>5, <2>1
  <2> QED BY <2>1, <2>2
<1>7. PICK largest \in S : m = MaxEnergy - largest
  OBVIOUS
<1>8. \A x \in S : largest >= x
  <2> TAKE x \in S
  <2>1. m <= MaxEnergy - x
    BY <1>6
  <2> QED BY <1>1, <1>7, <2>1
<1>9. \E x \in S : \A y \in S : x >= y
  BY <1>8
<1>10. Max(S) \in S /\ \A y \in S : Max(S) >= y
  BY <1>9 DEF Max
<1> QED BY <1>10

----------------------------------------------------------------------------
(* Roles and values                                                        *)

(* What tells the roles apart *)
LEMMA RolesApart ==
  ASSUME NEW c, NEW i
  PROVE  /\ Energy(c)[1] = "energy" /\ Energy(c)[2] = c
         /\ Distance(c)[1] = "distance" /\ Distance(c)[2] = c
         /\ Flag(c)[1] = "flag" /\ Flag(c)[2] = c
         /\ Target[1] = "target"
         /\ Gate(c, i)[1] = "gate" /\ Gate(c, i)[2] = c /\ Gate(c, i)[3] = i
BY DEF Energy, Distance, Flag, Target, Gate

LEMMA RolesAre ==
  ASSUME NEW role \in Roles
  PROVE  \/ \E c \in Channels : role \in {Energy(c), Distance(c), Flag(c)}
         \/ \E c \in Channels, i \in 0 .. GateCount - 1 : role = Gate(c, i)
         \/ role = Target
BY ViewsAssumption DEF Measures, FlagRoles, Gates, Channels

LEMMA RequiredRoles ==
  ASSUME NEW c \in Channels
  PROVE  Energy(c) \in Roles /\ Distance(c) \in Roles
BY ViewsAssumption DEF Measures

LEMMA FlagsAre ==
  ASSUME NEW c \in Channels, NEW d \in Channels, NEW i
  PROVE  /\ Flag(c) \in FlagRoles /\ Target \in FlagRoles
         /\ Energy(c) \notin FlagRoles /\ Distance(c) \notin FlagRoles
         /\ Gate(c, i) \notin FlagRoles
<1>1. \A role \in FlagRoles : role[1] \in {"flag", "target"}
  BY RolesApart DEF FlagRoles
<1>2. Flag(c) \in FlagRoles /\ Target \in FlagRoles
  BY DEF FlagRoles, Channels
<1> QED BY <1>1, <1>2, RolesApart

LEMMA MissingIs == Missing \in Int /\ Missing \notin Nat /\ Garbled \in Int
                    /\ Garbled \notin Nat /\ Missing # Garbled
BY DEF Missing, Garbled

LEMMA FoldIs ==
  ASSUME NEW role, NEW value
  PROVE  /\ role \in FlagRoles => Fold(role, value) = IF value = 1 THEN 1 ELSE 0
         /\ role \notin FlagRoles /\ value = Garbled => Fold(role, value) = Missing
         /\ role \notin FlagRoles /\ value # Garbled => Fold(role, value) = value
<1>1. ASSUME role \in FlagRoles
      PROVE  Fold(role, value) = IF value = 1 THEN 1 ELSE 0
  BY <1>1, Zenon DEF Fold
<1>2. ASSUME role \notin FlagRoles, value = Garbled
      PROVE  Fold(role, value) = Missing
  BY <1>2, Zenon DEF Fold
<1>3. ASSUME role \notin FlagRoles, value # Garbled
      PROVE  Fold(role, value) = value
  BY <1>3, Zenon DEF Fold
<1> QED BY <1>1, <1>2, <1>3

LEMMA NormalizeIs ==
  ASSUME NEW value \in Nat
  PROVE  NormalizeEnergy(value) \in 0 .. MaxEnergy
<1>1. value # Missing /\ MaxEnergy \in Nat
  BY GatingAssumption, MissingIs
<1>2. CASE value > MaxEnergy
  <2>1. NormalizeEnergy(value) = MaxEnergy
    BY <1>1, <1>2, Zenon DEF NormalizeEnergy
  <2> QED BY <1>1, <2>1
<1>3. CASE ~(value > MaxEnergy)
  <2>1. NormalizeEnergy(value) = value
    BY <1>1, <1>3, Zenon DEF NormalizeEnergy
  <2> QED BY <1>1, <1>3, <2>1
<1> QED BY <1>2, <1>3

LEMMA NormalizeMissing == NormalizeEnergy(Missing) = Missing
<1>1. ~(Missing > MaxEnergy)
  BY GatingAssumption DEF Missing
<1> QED BY <1>1, Zenon DEF NormalizeEnergy

(* A view holds of every role a number or nothing. *)
Known(v) == \A role : ValueOf(v.values, role) \in Nat \cup {Missing}

LEMMA BuiltIsKnown ==
  ASSUME NEW h \in States
  PROVE  /\ Known(BuildView(h)) /\ BuildView(h).available \in BOOLEAN
         /\ \A role \in Roles : BuildView(h).values[role] = Fold(role, h[role])
         /\ \A role \in Roles : BuildView(h).values[role] \in Nat \cup {Missing}
<1> DEFINE v == BuildView(h)
<1>1. /\ v.values = [role \in Roles |-> Fold(role, h[role])]
      /\ v.available <=> RequiredAvailable(h)
      /\ v.available \in BOOLEAN
  BY DEF BuildView, RequiredAvailable
<1> HIDE DEF v
<1>2. ASSUME NEW role \in Roles
      PROVE  v.values[role] = Fold(role, h[role]) /\ v.values[role] \in Nat \cup {Missing}
  <2>1. h[role] \in Nat \cup {Missing, Garbled}
    BY ViewsAssumption DEF States
  <2>2. v.values[role] = Fold(role, h[role])
    BY <1>1
  <2> QED BY <2>1, <2>2, FoldIs
<1>3. ASSUME NEW role
      PROVE  ValueOf(v.values, role) \in Nat \cup {Missing}
  BY <1>2 DEF ValueOf
<1> QED BY <1>1, <1>2, <1>3 DEF v, Known

----------------------------------------------------------------------------
(* Readings                                                                *)

OnGates(v, z, c, covered) == z \in covered /\ KnownGates(v, z, c) # {}

GateEnergies(v, z, c) ==
  {NormalizeEnergy(v.values[Gate(c, i)]) : i \in KnownGates(v, z, c)}

Aggregate(v, c) ==
  LET energy == NormalizeEnergy(v.values[Energy(c)])
  IN  IF energy = Missing THEN 0 ELSE energy

Raw(v, z, c, covered) ==
  IF OnGates(v, z, c, covered) THEN Max(GateEnergies(v, z, c)) ELSE Aggregate(v, c)

LEMMA KnownGate ==
  ASSUME NEW v, Known(v), NEW c \in Channels, NEW z, NEW i \in KnownGates(v, z, c)
  PROVE  /\ i \in 0 .. GateCount - 1 /\ ValueOf(v.values, Gate(c, i)) # Missing
         /\ v.values[Gate(c, i)] = ValueOf(v.values, Gate(c, i))
         /\ NormalizeEnergy(v.values[Gate(c, i)]) \in 0 .. MaxEnergy
<1>1. i \in 0 .. GateCount - 1 /\ ValueOf(v.values, Gate(c, i)) # Missing
  BY DEF KnownGates, OwnedGates
<1>2. v.values[Gate(c, i)] = ValueOf(v.values, Gate(c, i))
  BY <1>1, FlagsAre DEF ValueOf
<1>3. ValueOf(v.values, Gate(c, i)) \in Nat
  BY <1>1 DEF Known
<1> QED BY <1>1, <1>2, <1>3, NormalizeIs

LEMMA EnergyIs ==
  ASSUME NEW v, NEW c \in Channels
  PROVE  v.values[Energy(c)] = ValueOf(v.values, Energy(c))
BY RequiredRoles DEF ValueOf

LEMMA AggregateIs ==
  ASSUME NEW v, Known(v), NEW c \in Channels
  PROVE  /\ Aggregate(v, c) \in 0 .. MaxEnergy
         /\ v.values[Energy(c)] = Missing => Aggregate(v, c) = 0
<1> DEFINE value == v.values[Energy(c)]
<1>1. value \in Nat \cup {Missing} /\ 0 \in 0 .. MaxEnergy
  BY EnergyIs, GatingAssumption DEF Known
<1>2. CASE value = Missing
  BY <1>1, <1>2, NormalizeMissing DEF Aggregate
<1>3. CASE value \in Nat
  <2>1. NormalizeEnergy(value) \in 0 .. MaxEnergy /\ value # Missing
    BY <1>3, NormalizeIs, MissingIs
  <2>2. NormalizeEnergy(value) # Missing
    BY <2>1, GatingAssumption, MissingIs
  <2> QED BY <2>1, <2>2 DEF Aggregate
<1> QED BY <1>1, <1>2, <1>3

LEMMA GateEnergiesAre ==
  ASSUME NEW v, Known(v), NEW c \in Channels, NEW z, KnownGates(v, z, c) # {}
  PROVE  /\ GateEnergies(v, z, c) \subseteq 0 .. MaxEnergy
         /\ Max(GateEnergies(v, z, c)) \in GateEnergies(v, z, c)
         /\ \A x \in GateEnergies(v, z, c) : x <= Max(GateEnergies(v, z, c))
<1> DEFINE S == GateEnergies(v, z, c)
<1>1. S \subseteq 0 .. MaxEnergy /\ S # {}
  BY KnownGate DEF GateEnergies
<1> HIDE DEF S
<1>2. Max(S) \in S /\ \A x \in S : x <= Max(S)
  BY <1>1, MaxOfEnergies
<1> QED BY <1>1, <1>2 DEF S

LEMMA RawIs ==
  ASSUME NEW v, Known(v), NEW c \in Channels, NEW z, NEW covered
  PROVE  Raw(v, z, c, covered) \in 0 .. MaxEnergy
<1>1. CASE OnGates(v, z, c, covered)
  <2>1. Max(GateEnergies(v, z, c)) \in 0 .. MaxEnergy
    BY <1>1, GateEnergiesAre DEF OnGates
  <2> QED BY <1>1, <2>1 DEF Raw
<1>2. CASE ~OnGates(v, z, c, covered)
  BY <1>2, AggregateIs DEF Raw
<1> QED BY <1>1, <1>2

LEMMA ChannelIs ==
  ASSUME NEW v, NEW c, NEW gated, NEW covered
  PROVE  LET ch == Channel(v, c, gated, covered)
         IN  /\ ch.flag <=> FlagOn(v, c)
             /\ DOMAIN ch.at = RadarZones
             /\ \A z \in RadarZones :
                  /\ ch.at[z].raw = Raw(v, z, c, covered)
                  /\ ch.at[z].gated <=> z \in gated
                  /\ ch.at[z].gates <=> OnGates(v, z, c, covered)
<1> DEFINE ch == Channel(v, c, gated, covered)
<1>1. ch = [flag |-> FlagOn(v, c),
            at |-> [z \in RadarZones |-> Reading(v, z, c, gated, covered)]]
  BY DEF Channel
<1>2. ch.flag <=> FlagOn(v, c)
  BY <1>1
<1>3. ch.at = [z \in RadarZones |-> Reading(v, z, c, gated, covered)]
  BY <1>1
<1> HIDE DEF ch
<1>4. ASSUME NEW z \in RadarZones
      PROVE  /\ ch.at[z].raw = Raw(v, z, c, covered)
             /\ ch.at[z].gated <=> z \in gated
             /\ ch.at[z].gates <=> OnGates(v, z, c, covered)
  <2>1. ch.at[z] = Reading(v, z, c, gated, covered)
    BY <1>3
  <2>2. Reading(v, z, c, gated, covered).raw = Raw(v, z, c, covered)
    BY DEF Reading, Raw, OnGates, GateEnergies, Aggregate
  <2>3. Reading(v, z, c, gated, covered).gated <=> z \in gated
    BY DEF Reading
  <2>4. Reading(v, z, c, gated, covered).gates <=> OnGates(v, z, c, covered)
    BY DEF Reading, OnGates
  <2> QED BY <2>1, <2>2, <2>3, <2>4
<1> QED BY <1>2, <1>3, <1>4 DEF ch

ChannelStates ==
  [flag : BOOLEAN,
   at : [RadarZones -> [raw : 0 .. MaxEnergy, gated : BOOLEAN, gates : BOOLEAN]]]

LEMMA ChannelTyped ==
  ASSUME NEW v, Known(v), NEW c \in Channels, NEW gated, NEW covered
  PROVE  Channel(v, c, gated, covered) \in ChannelStates
<1>1. ASSUME NEW z \in RadarZones
      PROVE  Reading(v, z, c, gated, covered)
               \in [raw : 0 .. MaxEnergy, gated : BOOLEAN, gates : BOOLEAN]
  <2>1. Raw(v, z, c, covered) \in 0 .. MaxEnergy
    BY RawIs
  <2>2. Reading(v, z, c, gated, covered)
          = [raw |-> Raw(v, z, c, covered), gated |-> z \in gated,
             gates |-> OnGates(v, z, c, covered)]
    BY Zenon DEF Reading, Raw, OnGates, GateEnergies, Aggregate
  <2>3. OnGates(v, z, c, covered) \in BOOLEAN
    BY DEF OnGates
  <2>4. \A raw \in 0 .. MaxEnergy, on \in BOOLEAN, gates \in BOOLEAN :
          [raw |-> raw, gated |-> on, gates |-> gates]
            \in [raw : 0 .. MaxEnergy, gated : BOOLEAN, gates : BOOLEAN]
    OBVIOUS
  <2>5. (z \in gated) \in BOOLEAN
    OBVIOUS
  <2> QED BY <2>1, <2>2, <2>3, <2>4, <2>5, Zenon
<1>2. FlagOn(v, c) \in BOOLEAN
  BY DEF FlagOn
<1> QED BY <1>1, <1>2, Zenon DEF Channel, ChannelStates

(* What a channel's view lost, and only that *)
Fewer(w, v, c) ==
  /\ ValueOf(w.values, Energy(c)) \in {ValueOf(v.values, Energy(c)), Missing}
  /\ \A i \in 0 .. GateCount - 1 :
       ValueOf(w.values, Gate(c, i)) \in {ValueOf(v.values, Gate(c, i)), Missing}

LEMMA FewerReadLess ==
  ASSUME NEW v, NEW w, Known(v), Known(w), NEW c \in Channels, Fewer(w, v, c),
         NEW z, NEW covered
  PROVE  /\ OnGates(w, z, c, covered) => OnGates(v, z, c, covered)
         /\ (OnGates(w, z, c, covered) <=> OnGates(v, z, c, covered))
              => Raw(w, z, c, covered) <= Raw(v, z, c, covered)
<1>1. ASSUME NEW i \in KnownGates(w, z, c)
      PROVE  i \in KnownGates(v, z, c) /\ v.values[Gate(c, i)] = w.values[Gate(c, i)]
  <2>1. /\ i \in 0 .. GateCount - 1 /\ ValueOf(w.values, Gate(c, i)) # Missing
        /\ w.values[Gate(c, i)] = ValueOf(w.values, Gate(c, i))
    BY KnownGate
  <2>2. ValueOf(v.values, Gate(c, i)) = ValueOf(w.values, Gate(c, i))
    BY <2>1 DEF Fewer
  <2>3. i \in KnownGates(v, z, c)
    BY <2>1, <2>2 DEF KnownGates
  <2> QED BY <2>1, <2>2, <2>3, KnownGate
<1>2. OnGates(w, z, c, covered) => OnGates(v, z, c, covered)
  BY <1>1 DEF OnGates
<1>3. ASSUME OnGates(w, z, c, covered), OnGates(v, z, c, covered)
      PROVE  Raw(w, z, c, covered) <= Raw(v, z, c, covered)
  <2>1. GateEnergies(w, z, c) \subseteq GateEnergies(v, z, c)
    BY <1>1 DEF GateEnergies
  <2>2. KnownGates(w, z, c) # {} /\ KnownGates(v, z, c) # {}
    BY <1>3 DEF OnGates
  <2>3. Max(GateEnergies(w, z, c)) <= Max(GateEnergies(v, z, c))
    BY <2>1, <2>2, GateEnergiesAre
  <2> QED BY <1>3, <2>3 DEF Raw
<1>4. ASSUME ~OnGates(w, z, c, covered), ~OnGates(v, z, c, covered)
      PROVE  Raw(w, z, c, covered) <= Raw(v, z, c, covered)
  <2>1. Raw(w, z, c, covered) = Aggregate(w, c) /\ Raw(v, z, c, covered) = Aggregate(v, c)
    BY <1>4 DEF Raw
  <2>2. /\ Aggregate(w, c) \in 0 .. MaxEnergy /\ Aggregate(v, c) \in 0 .. MaxEnergy
        /\ w.values[Energy(c)] = Missing => Aggregate(w, c) = 0
    BY AggregateIs
  <2>3. \/ w.values[Energy(c)] = Missing
        \/ w.values[Energy(c)] = v.values[Energy(c)]
    BY EnergyIs DEF Fewer
  <2>4. CASE w.values[Energy(c)] = Missing
    BY <2>1, <2>2, <2>4, GatingAssumption
  <2>5. CASE w.values[Energy(c)] = v.values[Energy(c)]
    <3>1. Aggregate(w, c) = Aggregate(v, c)
      BY <2>5 DEF Aggregate
    <3> QED BY <2>1, <2>2, <3>1, GatingAssumption
  <2> QED BY <2>3, <2>4, <2>5
<1> QED BY <1>2, <1>3, <1>4

(* The same energies give the same readings. *)
SameEnergies(v, w, c) ==
  /\ ValueOf(w.values, Energy(c)) = ValueOf(v.values, Energy(c))
  /\ \A i \in 0 .. GateCount - 1 :
       ValueOf(w.values, Gate(c, i)) = ValueOf(v.values, Gate(c, i))

LEMMA SameReadings ==
  ASSUME NEW v, NEW w, Known(v), Known(w), NEW c \in Channels,
         SameEnergies(v, w, c), NEW z, NEW covered
  PROVE  /\ OnGates(w, z, c, covered) <=> OnGates(v, z, c, covered)
         /\ Raw(w, z, c, covered) = Raw(v, z, c, covered)
<1>1. Fewer(w, v, c) /\ Fewer(v, w, c)
  BY DEF Fewer, SameEnergies
<1>2. OnGates(w, z, c, covered) <=> OnGates(v, z, c, covered)
  BY <1>1, FewerReadLess
<1>3. /\ Raw(w, z, c, covered) <= Raw(v, z, c, covered)
      /\ Raw(v, z, c, covered) <= Raw(w, z, c, covered)
  BY <1>1, <1>2, FewerReadLess
<1>4. Raw(w, z, c, covered) \in Int /\ Raw(v, z, c, covered) \in Int
  BY RawIs
<1> QED BY <1>2, <1>3, <1>4

----------------------------------------------------------------------------
(* What one frame differs from another in                                  *)

(* A distance that can no longer be trusted gates nothing but the default. *)
LEMMA GatingFades ==
  ASSUME NEW d1 \in Nat \cup {Missing}, NEW d2 \in {d1, Missing},
         NEW f1 \in BOOLEAN, NEW f2 \in BOOLEAN, f2 => f1,
         NEW a1 \in Nat, NEW a2 \in Nat, f1 \/ a1 <= a2,
         NEW z \in GatedZones(d2, f2, a2)
  PROVE  /\ z \in GatedZones(d1, f1, a1) \/ f2
         /\ d2 = d1 /\ (f1 <=> f2) => z \in GatedZones(d1, f1, a1)
<1>1. DistanceHold \in Nat
  BY GatingAssumption
<1>2. ASSUME ~f2
      PROVE  z \in GatedZones(d1, f1, a1)
  <2>1. UsableDistance(d2, f2, a2) # Missing
    BY <1>2 DEF GatedZones
  <2>2. a2 <= DistanceHold /\ UsableDistance(d2, f2, a2) = d2
    BY <1>2, <2>1 DEF UsableDistance
  <2>3. d2 = d1 /\ UsableDistance(d1, f1, a1) = d1
    BY <1>1, <2>1, <2>2 DEF UsableDistance
  <2> QED BY <2>1, <2>2, <2>3 DEF GatedZones
<1>3. ASSUME f2, f1, d2 = d1
      PROVE  z \in GatedZones(d1, f1, a1)
  BY <1>3 DEF GatedZones, UsableDistance
<1> QED BY <1>2, <1>3

DistanceOf(v, c) == v.values[Distance(c)]

(* A channel as a frame of the view shows it, taken at some flag age *)
Shown(v, c, age, covered) ==
  Channel(v, c, GatedZones(DistanceOf(v, c), FlagOn(v, c), age), covered)

LEMMA ShownIs ==
  ASSUME NEW v, NEW c, NEW age, NEW covered
  PROVE  LET ch == Shown(v, c, age, covered)
         IN  /\ ch.flag <=> FlagOn(v, c)
             /\ DOMAIN ch.at = RadarZones
             /\ \A z \in RadarZones :
                  /\ ch.at[z].raw = Raw(v, z, c, covered)
                  /\ ch.at[z].gated <=>
                       z \in GatedZones(DistanceOf(v, c), FlagOn(v, c), age)
                  /\ ch.at[z].gates <=> OnGates(v, z, c, covered)
BY ChannelIs DEF Shown

LEMMA DistanceIs ==
  ASSUME NEW v, Known(v), NEW c \in Channels
  PROVE  /\ DistanceOf(v, c) = ValueOf(v.values, Distance(c))
         /\ DistanceOf(v, c) \in Nat \cup {Missing}
<1>1. DistanceOf(v, c) = ValueOf(v.values, Distance(c))
  BY RequiredRoles DEF DistanceOf, ValueOf
<1> QED BY <1>1 DEF Known

SameTarget(v, w, c) ==
  /\ ValueOf(w.values, Distance(c)) = ValueOf(v.values, Distance(c))
  /\ ValueOf(w.values, Flag(c)) = ValueOf(v.values, Flag(c))

LEMMA ChannelHeld ==
  ASSUME NEW v, NEW w, Known(v), Known(w), NEW c \in Channels,
         SameEnergies(v, w, c), SameTarget(v, w, c), NEW covered,
         NEW a1 \in Nat, NEW a2 \in Nat, FlagOn(v, c) \/ a1 <= a2
  PROVE  Held(Shown(v, c, a1, covered), Shown(w, c, a2, covered))
<1>1. FlagOn(w, c) <=> FlagOn(v, c)
  BY DEF SameTarget, FlagOn
<1>2. DistanceOf(w, c) = DistanceOf(v, c) /\ DistanceOf(v, c) \in Nat \cup {Missing}
  BY DistanceIs DEF SameTarget
<1>3. FlagOn(v, c) \in BOOLEAN /\ FlagOn(w, c) \in BOOLEAN
  BY DEF FlagOn
<1>4. ASSUME NEW z \in RadarZones,
             z \in GatedZones(DistanceOf(w, c), FlagOn(w, c), a2)
      PROVE  z \in GatedZones(DistanceOf(v, c), FlagOn(v, c), a1)
  BY <1>1, <1>2, <1>3, <1>4, GatingFades
<1> DEFINE old == Shown(v, c, a1, covered)
           new == Shown(w, c, a2, covered)
<1>5. /\ new.flag <=> FlagOn(w, c)
      /\ old.flag <=> FlagOn(v, c)
      /\ DOMAIN old.at = RadarZones
      /\ \A z \in RadarZones :
           /\ new.at[z].raw = old.at[z].raw
           /\ new.at[z].gates <=> old.at[z].gates
           /\ new.at[z].gated => old.at[z].gated
  BY <1>4, ShownIs, SameReadings
<1>6. /\ old \in ChannelStates /\ new \in ChannelStates
  BY ChannelTyped DEF Shown
<1> HIDE DEF old, new
<1>7. new.flag = old.flag
  BY <1>1, <1>5, <1>6 DEF ChannelStates
<1>8. ASSUME NEW z \in RadarZones PROVE new.at[z].gates = old.at[z].gates
  BY <1>5, <1>6 DEF ChannelStates
<1>9. Held(old, new)
  BY <1>5, <1>7, <1>8 DEF Held
<1> QED BY <1>9 DEF old, new

LEMMA ChannelMoved ==
  ASSUME NEW v, NEW w, Known(v), Known(w), NEW c \in Channels,
         SameEnergies(v, w, c), NEW covered, NEW a1, NEW a2
  PROVE  Moved(Shown(v, c, a1, covered), Shown(w, c, a2, covered))
<1> DEFINE old == Shown(v, c, a1, covered)
           new == Shown(w, c, a2, covered)
<1>1. /\ DOMAIN old.at = RadarZones
      /\ \A z \in RadarZones :
           /\ new.at[z].raw = old.at[z].raw
           /\ new.at[z].gates <=> old.at[z].gates
  BY ShownIs, SameReadings
<1>2. old \in ChannelStates /\ new \in ChannelStates
  BY ChannelTyped DEF Shown
<1> HIDE DEF old, new
<1>3. ASSUME NEW z \in RadarZones PROVE new.at[z].gates = old.at[z].gates
  BY <1>1, <1>2 DEF ChannelStates
<1>4. Moved(old, new)
  BY <1>1, <1>3 DEF Moved
<1> QED BY <1>4 DEF old, new

LEMMA ChannelDegraded ==
  ASSUME NEW v, NEW w, Known(v), Known(w), NEW c \in Channels,
         Fewer(w, v, c), FlagOn(w, c) => FlagOn(v, c),
         DistanceOf(w, c) \in {DistanceOf(v, c), Missing}, NEW covered,
         NEW a1 \in Nat, NEW a2 \in Nat, FlagOn(v, c) \/ a1 <= a2
  PROVE  Degraded(Shown(v, c, a1, covered), Shown(w, c, a2, covered))
<1>1. FlagOn(v, c) \in BOOLEAN /\ FlagOn(w, c) \in BOOLEAN
  BY DEF FlagOn
<1>2. DistanceOf(v, c) \in Nat \cup {Missing}
  BY DistanceIs
<1>3. ASSUME NEW z \in RadarZones,
             z \in GatedZones(DistanceOf(w, c), FlagOn(w, c), a2)
      PROVE  z \in GatedZones(DistanceOf(v, c), FlagOn(v, c), a1) \/ FlagOn(w, c)
  BY <1>1, <1>2, <1>3, GatingFades
<1> DEFINE old == Shown(v, c, a1, covered)
           new == Shown(w, c, a2, covered)
<1>4. /\ new.flag => old.flag
      /\ DOMAIN old.at = RadarZones
      /\ \A z \in RadarZones :
           /\ new.at[z].gates => old.at[z].gates
           /\ new.at[z].gated => old.at[z].gated \/ new.flag
  BY <1>3, ShownIs, FewerReadLess
<1>5. ASSUME NEW z \in RadarZones, new.at[z].gates = old.at[z].gates
      PROVE  new.at[z].raw <= old.at[z].raw
  <2>1. OnGates(w, z, c, covered) <=> OnGates(v, z, c, covered)
    BY <1>5, ShownIs
  <2>2. Raw(w, z, c, covered) <= Raw(v, z, c, covered)
    BY <2>1, FewerReadLess
  <2> QED BY <2>2, ShownIs
<1> HIDE DEF old, new
<1>6. Degraded(old, new)
  BY <1>4, <1>5 DEF Degraded
<1> QED BY <1>6 DEF old, new

LEMMA HeldIsDegraded ==
  ASSUME NEW v \in ChannelStates, NEW w \in ChannelStates, Held(v, w)
  PROVE  Degraded(v, w)
<1>1. DOMAIN v.at = RadarZones
  BY DEF ChannelStates
<1>2. ASSUME NEW z \in RadarZones
      PROVE  /\ w.at[z].gates => v.at[z].gates
             /\ w.at[z].raw <= v.at[z].raw
             /\ w.at[z].gated => v.at[z].gated
  <2>1. v.at[z].raw \in 0 .. MaxEnergy
    BY DEF ChannelStates
  <2>2. w.at[z].raw = v.at[z].raw /\ w.at[z].gates = v.at[z].gates
        /\ (w.at[z].gated => v.at[z].gated)
    BY <1>1 DEF Held
  <2> QED BY <2>1, <2>2, GatingAssumption
<1> QED BY <1>1, <1>2 DEF Degraded, Held

----------------------------------------------------------------------------
(* The state of the view and of the engine                                 *)

Ages == 0 .. OffCap

(* The counters of a view the engine has seen lead by what was measured    *)
(* since, a channel's never without the frame's.                           *)
LeadInv ==
  /\ lead \in [Counters -> Int] /\ \A c \in Counters : lead[c] <= 1
  /\ link = "seen" => lead = NoCounters
  /\ link # "rebuilt" =>
       /\ \A c \in Counters : lead[c] >= 0
       /\ lead["frame"] # 0 <=> lead["move"] # 0 \/ lead["still"] # 0
       /\ lead["energy"] # 0 => lead["move"] # 0
       /\ submitted => lead = NoCounters
       /\ ~submitted => measured = {c \in Counters : lead[c] # 0}

(* The engine's age of a flag is never less than the entity's own: between *)
(* its frames the engine cannot see it on.                                 *)
AgeInv ==
  /\ flagAge \in [Channels -> Ages] /\ onAge \in [Channels -> Ages]
  /\ \A c \in Channels : onAge[c] <= flagAge[c]

(* While nothing was kept from it, the engine shows the view as it is, at  *)
(* some age the flags had since.                                           *)
ShownInv ==
  /\ shown \in [Channels -> ChannelStates]
  /\ ready \in [Channels -> SUBSET GateZones]
  /\ link = "seen" =>
       \A c \in Channels : \E age \in Ages :
         /\ FlagOn(view, c) \/ age <= flagAge[c]
         /\ shown[c] = Shown(view, c, age, ready[c])

ViewsInv ==
  /\ hass \in States /\ view = BuildView(hass)
  /\ started \in BOOLEAN /\ submitted \in BOOLEAN
  /\ fresh \subseteq Counters /\ measured \subseteq Counters
  /\ link \in {"seen", "ahead", "rebuilt"}
  /\ LeadInv /\ AgeInv /\ ShownInv
  /\ HeldDistanceBounded

LEMMA OffCapIs == OffCap \in Nat /\ OffCap > DistanceHold /\ 0 \in Ages /\ OffCap \in Ages
BY GatingAssumption DEF OffCap, Ages

(* The counters one role advances *)
LEMMA ClassesAre ==
  /\ Observes(Energy("move")) = {"frame", "move", "energy"}
  /\ Observes(Distance("move")) = {"frame", "move"}
  /\ Observes(Flag("move")) = {"frame", "move"}
  /\ Observes(Energy("still")) = {"frame", "still"}
  /\ Observes(Distance("still")) = {"frame", "still"}
  /\ Observes(Flag("still")) = {"frame", "still"}
  /\ Observes(Target) = {"frame", "move", "still"}
  /\ \A i \in 0 .. GateCount - 1 :
       /\ Observes(Gate("move", i)) = {"frame", "move", "energy"}
       /\ Observes(Gate("still", i)) = {"frame", "still"}
<1>1. /\ Energy("move") \in MoveEnergies
      /\ \A i \in 0 .. GateCount - 1 : Gate("move", i) \in MoveEnergies
      /\ \A role \in MoveEnergies : role[1] \in {"energy", "gate"} /\ role[2] = "move"
  BY RolesApart DEF MoveEnergies
<1>2. \A role : role # Target =>
        Observes(role) = {"frame", role[2]}
                           \cup (IF role \in MoveEnergies THEN {"energy"} ELSE {})
  BY DEF Observes
<1>3. Observes(Target) = {"frame"} \cup Channels
                           \cup (IF Target \in MoveEnergies THEN {"energy"} ELSE {})
  BY DEF Observes
<1>4. Observes(Target) = {"frame", "move", "still"}
  BY <1>1, <1>3, RolesApart DEF Channels
<1>5. Observes(Energy("move")) = {"frame", "move", "energy"}
  BY <1>1, <1>2, RolesApart
<1>6. /\ Observes(Distance("move")) = {"frame", "move"}
      /\ Observes(Flag("move")) = {"frame", "move"}
  BY <1>1, <1>2, RolesApart
<1>7. /\ Observes(Energy("still")) = {"frame", "still"}
      /\ Observes(Distance("still")) = {"frame", "still"}
      /\ Observes(Flag("still")) = {"frame", "still"}
  BY <1>1, <1>2, RolesApart
<1>8. ASSUME NEW i \in 0 .. GateCount - 1
      PROVE  /\ Observes(Gate("move", i)) = {"frame", "move", "energy"}
             /\ Observes(Gate("still", i)) = {"frame", "still"}
  BY <1>1, <1>2, RolesApart
<1> QED BY <1>4, <1>5, <1>6, <1>7, <1>8

(* An entity measures its channels, never one without a frame. *)
LEMMA ObservesIs ==
  ASSUME NEW role \in Roles
  PROVE  /\ Observes(role) \subseteq Counters /\ "frame" \in Observes(role)
         /\ Observes(role) \cap {"move", "still"} # {}
         /\ "energy" \in Observes(role) => "move" \in Observes(role)
<1>1. \/ \E c \in Channels : role \in {Energy(c), Distance(c), Flag(c)}
      \/ \E c \in Channels, i \in 0 .. GateCount - 1 : role = Gate(c, i)
      \/ role = Target
  BY RolesAre
<1>2. \/ Observes(role) = {"frame", "move", "energy"}
      \/ Observes(role) = {"frame", "move"}
      \/ Observes(role) = {"frame", "still"}
      \/ Observes(role) = {"frame", "move", "still"}
  BY <1>1, ClassesAre DEF Channels
<1> QED BY <1>2 DEF Counters

LEMMA AdvancedIs ==
  ASSUME NEW counters \in [Counters -> Int], \A c \in Counters : counters[c] <= 1,
         NEW classes
  PROVE  LET counted == Advanced(counters, classes)
         IN  /\ counted \in [Counters -> Int]
             /\ \A c \in Counters :
                  /\ counted[c] <= 1
                  /\ c \notin classes => counted[c] = counters[c]
                  /\ c \in classes /\ counters[c] >= 0 => counted[c] = 1
<1> DEFINE counted == Advanced(counters, classes)
<1>1. ASSUME NEW c \in Counters
      PROVE  /\ counted[c] \in Int /\ counted[c] <= 1
             /\ c \notin classes => counted[c] = counters[c]
             /\ c \in classes /\ counters[c] >= 0 => counted[c] = 1
  <2>1. counted[c] = IF c \in classes THEN Min({counters[c] + 1, 1}) ELSE counters[c]
    BY DEF Advanced
  <2>2. /\ Min({counters[c] + 1, 1}) \in {counters[c] + 1, 1}
        /\ Min({counters[c] + 1, 1}) <= 1
        /\ Min({counters[c] + 1, 1}) <= counters[c] + 1
    <3>1. counters[c] + 1 \in Int /\ 1 \in Int
      OBVIOUS
    <3> QED BY <3>1, MinOfTwo
  <2> HIDE DEF counted
  <2> QED BY <2>1, <2>2
<1>2. counted = [c \in Counters |-> counted[c]]
  BY DEF Advanced
<1> HIDE DEF counted
<1>3. counted \in [Counters -> Int]
  BY <1>1, <1>2
<1> QED BY <1>1, <1>3 DEF counted

(* What the entity does not belong to keeps what the view holds of it. *)
LEMMA Folded ==
  ASSUME ViewsInv, NEW role \in Roles, NEW value \in Shows[role]
  PROVE  LET written == [hass EXCEPT ![role] = value]
             folded == [values |-> [view.values EXCEPT ![role] = Fold(role, value)],
                        available |-> RequiredAvailable(written)]
         IN  /\ written \in States /\ folded = BuildView(written)
             /\ \A other : other # role =>
                  ValueOf(folded.values, other) = ValueOf(view.values, other)
             /\ ValueOf(folded.values, role) = Fold(role, value)
             /\ ValueOf(view.values, role) = Fold(role, hass[role])
<1> DEFINE written == [hass EXCEPT ![role] = value]
           values == [view.values EXCEPT ![role] = Fold(role, value)]
           folded == [values |-> values, available |-> RequiredAvailable(written)]
<1>1. /\ hass \in [Roles -> UNION {Shows[r] : r \in Roles}]
      /\ \A r \in Roles : hass[r] \in Shows[r]
      /\ view.values = [r \in Roles |-> Fold(r, hass[r])]
  BY DEF ViewsInv, States, BuildView
<1>2. value \in UNION {Shows[r] : r \in Roles}
  OBVIOUS
<1>3. written \in States /\ written = [r \in Roles |-> IF r = role THEN value ELSE hass[r]]
  BY <1>1, <1>2 DEF States
<1>4. /\ values = [r \in Roles |-> Fold(r, written[r])]
      /\ values = [r \in Roles |-> IF r = role THEN Fold(role, value)
                                   ELSE view.values[r]]
  <2> HIDE DEF written
  <2> QED BY <1>1, <1>3
<1>5. folded = BuildView(written) /\ folded.values = values
  <2> HIDE DEF written
  <2> QED BY <1>4 DEF BuildView
<1> HIDE DEF written, values, folded
<1>6. \A other : other # role =>
        ValueOf(folded.values, other) = ValueOf(view.values, other)
  BY <1>4, <1>5 DEF ValueOf
<1>7. /\ ValueOf(folded.values, role) = Fold(role, value)
      /\ ValueOf(view.values, role) = Fold(role, hass[role])
  BY <1>1, <1>4, <1>5 DEF ValueOf
<1> QED BY <1>3, <1>5, <1>6, <1>7 DEF folded, values, written

(* What is no measurement takes away or changes nothing. *)
LEMMA LostIsMissing ==
  ASSUME NEW role \in Roles, NEW value \in Shows[role], ~Parseable(role, value)
  PROVE  /\ role \in FlagRoles => Fold(role, value) = 0
         /\ role \notin FlagRoles => Fold(role, value) = Missing
<1>1. CASE role \in FlagRoles
  BY <1>1, FoldIs DEF Parseable
<1>2. CASE role \notin FlagRoles
  <2>1. value \in {Missing, Garbled}
    BY <1>2 DEF Parseable
  <2> QED BY <1>2, <2>1, FoldIs
<1> QED BY <1>1, <1>2

(* One entity's report, of a view the engine has seen *)
LEMMA WriteReports ==
  ASSUME ViewsInv, link = "seen", NEW role \in Roles, NEW value \in Shows[role],
         NEW w, Known(w),
         \A other : other # role =>
           ValueOf(w.values, other) = ValueOf(view.values, other),
         ValueOf(w.values, role) = Fold(role, value),
         ValueOf(view.values, role) = Fold(role, hass[role]),
         NEW classes,
         \/ classes = Observes(role)
         \/ classes = {} /\ (value = hass[role] \/ ~Parseable(role, value)),
         NEW move, move = Shown(w, "move", flagAge["move"], ready["move"]),
         NEW still, still = Shown(w, "still", flagAge["still"], ready["still"])
  PROVE  Reports([counters |-> link, move |-> shown["move"], still |-> shown["still"]],
                 classes, move, still)
<1> DEFINE next(c) == Shown(w, c, flagAge[c], ready[c])
           seen == [counters |-> link, move |-> shown["move"], still |-> shown["still"]]
<1>1. Known(view) /\ hass \in States
  BY BuiltIsKnown DEF ViewsInv
<1>2. ASSUME NEW c \in Channels
      PROVE  /\ SameEnergies(view, w, c) /\ SameTarget(view, w, c)
                  => Held(shown[c], next(c)) /\ Degraded(shown[c], next(c))
             /\ SameEnergies(view, w, c) => Moved(shown[c], next(c))
             /\ Fewer(w, view, c) /\ (FlagOn(w, c) => FlagOn(view, c))
                  /\ DistanceOf(w, c) \in {DistanceOf(view, c), Missing}
                  => Degraded(shown[c], next(c))
             /\ (next(c).flag <=> FlagOn(w, c)) /\ (shown[c].flag <=> FlagOn(view, c))
             /\ shown[c] \in ChannelStates /\ next(c) \in ChannelStates
  <2>1. PICK age \in Ages : /\ FlagOn(view, c) \/ age <= flagAge[c]
                            /\ shown[c] = Shown(view, c, age, ready[c])
    BY DEF ViewsInv, ShownInv
  <2>2. age \in Nat /\ flagAge[c] \in Nat
    BY OffCapIs DEF ViewsInv, AgeInv, Ages
  <2>3. SameEnergies(view, w, c) /\ SameTarget(view, w, c) => Held(shown[c], next(c))
    BY <1>1, <2>1, <2>2, ChannelHeld
  <2>4. SameEnergies(view, w, c) => Moved(shown[c], next(c))
    BY <1>1, <2>1, ChannelMoved
  <2>5. Fewer(w, view, c) /\ (FlagOn(w, c) => FlagOn(view, c))
          /\ DistanceOf(w, c) \in {DistanceOf(view, c), Missing}
          => Degraded(shown[c], next(c))
    BY <1>1, <2>1, <2>2, ChannelDegraded
  <2>6. (next(c).flag <=> FlagOn(w, c)) /\ (shown[c].flag <=> FlagOn(view, c))
    BY <2>1, ShownIs
  <2>7. shown[c] \in ChannelStates /\ next(c) \in ChannelStates
    BY <1>1, <2>1, ChannelTyped DEF Shown
  <2>8. Held(shown[c], next(c)) => Degraded(shown[c], next(c))
    BY <2>7, HeldIsDegraded
  <2> QED BY <2>3, <2>4, <2>5, <2>6, <2>7, <2>8
<1>3. /\ move = next("move") /\ still = next("still")
      /\ seen.move = shown["move"] /\ seen.still = shown["still"]
  OBVIOUS
<1> HIDE DEF next, seen
<1>4. ASSUME NEW c \in Channels,
             \A i \in 0 .. GateCount - 1 :
               role \notin {Energy(c), Distance(c), Flag(c), Gate(c, i)},
             role \notin {Energy(c), Distance(c), Flag(c)}
      PROVE  Held(shown[c], next(c)) /\ Degraded(shown[c], next(c))
  <2>1. SameEnergies(view, w, c)
    BY <1>4 DEF SameEnergies
  <2>2. SameTarget(view, w, c)
    BY <1>4 DEF SameTarget
  <2> QED BY <1>2, <2>1, <2>2
<1>5. ASSUME NEW c \in Channels, role \in {Distance(c), Flag(c)}
      PROVE  Moved(shown[c], next(c))
  <2>1. SameEnergies(view, w, c)
    BY <1>5, RolesApart DEF SameEnergies
  <2> QED BY <1>2, <2>1
<1>6. ASSUME NEW c \in Channels, role # Flag(c)
      PROVE  next(c).flag = shown[c].flag
  <2>1. FlagOn(w, c) <=> FlagOn(view, c)
    BY <1>6 DEF FlagOn
  <2> QED BY <1>2, <2>1 DEF ChannelStates
<1>7. ASSUME NEW c \in Channels, value = hass[role]
      PROVE  Held(shown[c], next(c)) /\ Degraded(shown[c], next(c))
  <2>1. \A other : ValueOf(w.values, other) = ValueOf(view.values, other)
    BY <1>7
  <2>2. SameEnergies(view, w, c) /\ SameTarget(view, w, c)
    BY <2>1 DEF SameEnergies, SameTarget
  <2> QED BY <1>2, <2>2
<1>8. ASSUME NEW c \in Channels, ~Parseable(role, value)
      PROVE  Degraded(shown[c], next(c))
  <2>1. /\ role \in FlagRoles => Fold(role, value) = 0
        /\ role \notin FlagRoles => Fold(role, value) = Missing
    BY <1>8, LostIsMissing
  <2>2. Fewer(w, view, c)
    BY <2>1, FlagsAre DEF Fewer
  <2>3. FlagOn(w, c) => FlagOn(view, c)
    BY <2>1, FlagsAre DEF FlagOn
  <2>4. DistanceOf(w, c) \in {DistanceOf(view, c), Missing}
    <3>1. /\ DistanceOf(w, c) = ValueOf(w.values, Distance(c))
          /\ DistanceOf(view, c) = ValueOf(view.values, Distance(c))
      BY <1>1, DistanceIs
    <3> QED BY <2>1, <3>1, FlagsAre
  <2> QED BY <1>2, <2>2, <2>3, <2>4
<1>9. "move" \in Channels /\ "still" \in Channels
  BY DEF Channels
<1>10. ASSUME NEW c \in Channels, NEW d \in Channels, c # d,
              \/ role \in {Energy(c), Distance(c), Flag(c)}
              \/ \E i \in 0 .. GateCount - 1 : role = Gate(c, i)
       PROVE  Held(shown[d], next(d)) /\ Degraded(shown[d], next(d))
  <2>1. role[2] = c /\ role # Target
    BY <1>10, RolesApart
  <2>2. \A i : role \notin {Energy(d), Distance(d), Flag(d), Gate(d, i)}
    BY <1>10, <2>1, RolesApart
  <2> QED BY <1>4, <2>2
<1>11. CASE classes = {} /\ value = hass[role]
  BY <1>3, <1>7, <1>9, <1>11 DEF Reports
<1>12. CASE classes = {} /\ ~Parseable(role, value)
  <2>1. Degraded(shown["move"], next("move")) /\ Degraded(shown["still"], next("still"))
    BY <1>8, <1>9, <1>12
  <2>2. Held(shown["move"], next("move")) \/ Held(shown["still"], next("still"))
    <3>1. CASE role = Target
      <4>1. \A i : role \notin {Energy("move"), Distance("move"), Flag("move"),
                               Gate("move", i)}
        BY <3>1, RolesApart
      <4> QED BY <1>4, <1>9, <4>1
    <3>2. CASE role # Target
      BY <1>9, <1>10, <3>2, RolesAre DEF Channels
    <3> QED BY <3>1, <3>2
  <2> QED BY <1>3, <1>12, <2>1, <2>2 DEF Reports
<1>13. CASE classes = Observes(role)
  <2>1. CASE \E i \in 0 .. GateCount - 1 : role = Gate("move", i)
    <3>1. classes = {"frame", "move", "energy"}
      BY <1>13, <2>1, ClassesAre
    <3>2. Held(shown["still"], next("still"))
      BY <1>9, <1>10, <2>1
    <3>3. next("move").flag = shown["move"].flag
      <4>1. role # Flag("move")
        BY <2>1, RolesApart
      <4> QED BY <1>6, <1>9, <4>1, Zenon
    <3> QED BY <1>3, <3>1, <3>2, <3>3 DEF Reports
  <2>2. CASE role = Energy("move")
    <3>1. classes = {"frame", "move", "energy"}
      BY <1>13, <2>2, ClassesAre
    <3>2. Held(shown["still"], next("still"))
      BY <1>9, <1>10, <2>2
    <3>3. next("move").flag = shown["move"].flag
      <4>1. role # Flag("move")
        BY <2>2, RolesApart
      <4> QED BY <1>6, <1>9, <4>1, Zenon
    <3> QED BY <1>3, <3>1, <3>2, <3>3 DEF Reports
  <2>3. CASE role \in {Distance("move"), Flag("move")}
    <3>1. classes = {"frame", "move"}
      BY <1>13, <2>3, ClassesAre
    <3>2. Held(shown["still"], next("still")) /\ Moved(shown["move"], next("move"))
      BY <1>5, <1>9, <1>10, <2>3
    <3> QED BY <1>3, <3>1, <3>2 DEF Reports
  <2>4. CASE \/ role \in {Energy("still"), Distance("still"), Flag("still")}
             \/ \E i \in 0 .. GateCount - 1 : role = Gate("still", i)
    <3>1. classes = {"frame", "still"}
      BY <1>13, <2>4, ClassesAre
    <3>2. Held(shown["move"], next("move"))
      BY <1>9, <1>10, <2>4
    <3> QED BY <1>3, <3>1, <3>2 DEF Reports
  <2>5. CASE role = Target
    <3>1. classes = {"frame", "move", "still"}
      BY <1>13, <2>5, ClassesAre
    <3>2. \A c, i : role \notin {Energy(c), Distance(c), Flag(c), Gate(c, i)}
      BY <2>5, RolesApart
    <3>3. Held(shown["still"], next("still")) /\ Held(shown["move"], next("move"))
      BY <1>4, <1>9, <3>2
    <3> QED BY <1>3, <3>1, <3>3 DEF Reports
  <2> QED BY <2>1, <2>2, <2>3, <2>4, <2>5, RolesAre DEF Channels
<1>14. Reports(seen, classes, move, still)
  BY <1>11, <1>12, <1>13 DEF seen
<1> QED BY <1>14 DEF seen

----------------------------------------------------------------------------
(* The steps                                                               *)

Pending == IF submitted THEN {} ELSE measured

LEMMA PendingIs ==
  ASSUME ViewsInv, link # "rebuilt"
  PROVE  Pending = {c \in Counters : lead[c] # 0}
<1>1. CASE submitted
  <2>1. lead = NoCounters
    BY <1>1 DEF ViewsInv, LeadInv
  <2> QED BY <1>1, <2>1 DEF Pending, NoCounters
<1>2. CASE ~submitted
  BY <1>2 DEF ViewsInv, LeadInv, Pending
<1> QED BY <1>1, <1>2

(* What is counted of one entity's event *)
LEMMA CountedIs ==
  ASSUME ViewsInv, NEW role \in Roles, NEW classes, classes \in {Observes(role), {}},
         NEW counted, counted = Advanced(lead, classes)
  PROVE  /\ counted \in [Counters -> Int] /\ \A c \in Counters : counted[c] <= 1
         /\ link # "rebuilt" =>
              /\ \A c \in Counters : counted[c] >= 0
              /\ counted["frame"] # 0 <=> counted["move"] # 0 \/ counted["still"] # 0
              /\ counted["energy"] # 0 => counted["move"] # 0
              /\ {c \in Counters : counted[c] # 0} = Pending \cup classes
<1>1. lead \in [Counters -> Int] /\ \A c \in Counters : lead[c] <= 1
  BY DEF ViewsInv, LeadInv
<1>2. /\ counted \in [Counters -> Int]
      /\ \A c \in Counters :
           /\ counted[c] <= 1
           /\ c \notin classes => counted[c] = lead[c]
           /\ c \in classes /\ lead[c] >= 0 => counted[c] = 1
  BY <1>1, AdvancedIs
<1>3. classes \subseteq Counters
  BY ObservesIs
<1>4. ASSUME link # "rebuilt"
      PROVE  /\ \A c \in Counters : counted[c] >= 0
             /\ counted["frame"] # 0 <=> counted["move"] # 0 \/ counted["still"] # 0
             /\ counted["energy"] # 0 => counted["move"] # 0
             /\ {c \in Counters : counted[c] # 0} = Pending \cup classes
  <2>1. /\ \A c \in Counters : lead[c] >= 0
        /\ lead["frame"] # 0 <=> lead["move"] # 0 \/ lead["still"] # 0
        /\ lead["energy"] # 0 => lead["move"] # 0
    BY <1>4 DEF ViewsInv, LeadInv
  <2>2. \A c \in Counters : /\ counted[c] >= 0
                            /\ counted[c] # 0 <=> lead[c] # 0 \/ c \in classes
    BY <1>1, <1>2, <2>1
  <2>3. {c \in Counters : counted[c] # 0} = Pending \cup classes
    BY <1>3, <1>4, <2>2, PendingIs
  <2>4. /\ "frame" \in Counters /\ "move" \in Counters /\ "still" \in Counters
        /\ "energy" \in Counters
    BY DEF Counters
  <2>5. \/ classes = {}
        \/ /\ "frame" \in classes /\ ("move" \in classes \/ "still" \in classes)
           /\ "energy" \in classes => "move" \in classes
    BY ObservesIs
  <2>6. /\ counted["frame"] # 0 <=> counted["move"] # 0 \/ counted["still"] # 0
        /\ counted["energy"] # 0 => counted["move"] # 0
    BY <2>1, <2>2, <2>4, <2>5
  <2> QED BY <2>2, <2>3, <2>6
<1> QED BY <1>2, <1>4

(* Without a frame, the counters the engine knows stay. *)
LEMMA PassedKeepsLead ==
  ASSUME ViewsInv, lead' = lead, link' = link, submitted' = FALSE,
         measured' = Pending
  PROVE  LeadInv'
<1>1. link # "rebuilt" => measured' = {c \in Counters : lead[c] # 0}
  BY PendingIs
<1> QED BY <1>1 DEF ViewsInv, LeadInv

LEMMA WriteKeeps ==
  ASSUME ViewsInv, NEW role \in Roles, NEW value \in Shows[role],
         NEW attributes \in BOOLEAN, Write(role, value, attributes)
  PROVE  ViewsInv' /\ SubmitsReport /\ TakesMeasured
<1> DEFINE written == [hass EXCEPT ![role] = value]
           w == [values |-> [view.values EXCEPT ![role] = Fold(role, value)],
                 available |-> RequiredAvailable(written)]
           classes == Certifies(role, value, value # hass[role] \/ ~attributes)
           counted == Advanced(lead, classes)
<1>1. /\ started /\ hass' = written /\ view' = w /\ submitted' = w.available
      /\ onAge' = [c \in Channels |-> IF FlagOn(w, c) THEN 0 ELSE onAge[c]]
      /\ UNCHANGED <<started, ready>>
  BY Zenon DEF Write
<1>2. measured' = Pending \cup classes
  BY Zenon DEF Write, Certifies, Pending
<1>3. /\ w.available =>
           /\ fresh' = {c \in Counters : counted[c] # 0}
           /\ lead' = NoCounters
           /\ shown' = Frame(w, flagAge, ready)
           /\ flagAge' = [c \in Channels |-> IF FlagOn(w, c) THEN 0 ELSE flagAge[c]]
           /\ link' = "seen"
      /\ ~w.available =>
           /\ lead' = counted /\ fresh' = {}
           /\ link' = IF link = "seen" THEN "ahead" ELSE link
           /\ UNCHANGED <<shown, flagAge>>
  BY Zenon DEF Write
<1>4. \/ classes = Observes(role)
      \/ classes = {} /\ (value = hass[role] \/ ~Parseable(role, value))
  BY Zenon DEF Certifies
<1>5. /\ written \in States /\ w = BuildView(written)
      /\ \A other : other # role =>
           ValueOf(w.values, other) = ValueOf(view.values, other)
      /\ ValueOf(w.values, role) = Fold(role, value)
      /\ ValueOf(view.values, role) = Fold(role, hass[role])
  BY Folded
<1> HIDE DEF written, w, classes
<1>6. Known(w) /\ w.available \in BOOLEAN
  BY <1>5, BuiltIsKnown
<1>7. /\ counted \in [Counters -> Int] /\ \A c \in Counters : counted[c] <= 1
      /\ link # "rebuilt" =>
           /\ \A c \in Counters : counted[c] >= 0
           /\ counted["frame"] # 0 <=> counted["move"] # 0 \/ counted["still"] # 0
           /\ counted["energy"] # 0 => counted["move"] # 0
           /\ {c \in Counters : counted[c] # 0} = Pending \cup classes
  BY <1>4, CountedIs
<1>8. classes \subseteq Counters /\ Pending \subseteq Counters
  BY <1>4, ObservesIs DEF Pending, ViewsInv
<1> HIDE DEF counted
<1>9. ASSUME w.available
      PROVE  /\ \A c \in Channels : shown'[c] = Shown(w, c, flagAge[c], ready[c])
             /\ DOMAIN shown' = Channels
  BY <1>3, <1>9 DEF Frame, Shown, DistanceOf
<1>10. LeadInv'
  <2>1. CASE w.available
    <3>1. /\ lead' = NoCounters /\ link' = "seen" /\ submitted'
      BY <1>1, <1>3, <2>1
    <3> QED BY <3>1 DEF LeadInv, NoCounters, Counters
  <2>2. CASE ~w.available
    <3>1. /\ lead' = counted /\ link' # "seen" /\ ~submitted'
          /\ link' # "rebuilt" => link # "rebuilt"
      BY <1>1, <1>3, <2>2
    <3> QED BY <1>2, <1>7, <3>1 DEF LeadInv
  <2> QED BY <2>1, <2>2
<1>11. AgeInv'
  <2>1. CASE w.available
    BY <1>1, <1>3, <2>1, OffCapIs DEF ViewsInv, AgeInv, Ages
  <2>2. CASE ~w.available
    BY <1>1, <1>3, <2>2, OffCapIs DEF ViewsInv, AgeInv, Ages
  <2> QED BY <2>1, <2>2
<1>12. ShownInv'
  <2>1. ready' = ready /\ ready \in [Channels -> SUBSET GateZones]
    BY <1>1 DEF ViewsInv, ShownInv
  <2>2. CASE w.available
    <3>1. \A c \in Channels : shown'[c] \in ChannelStates
      BY <1>6, <1>9, <2>2, ChannelTyped DEF Shown
    <3>2. shown' \in [Channels -> ChannelStates]
      <4>1. shown' = [c \in Channels |-> shown'[c]]
        BY <1>3, <2>2 DEF Frame
      <4> QED BY <3>1, <4>1
    <3>3. ASSUME NEW c \in Channels
          PROVE  \E age \in Ages :
                   /\ FlagOn(w, c) \/ age <= flagAge'[c]
                   /\ shown'[c] = Shown(w, c, age, ready[c])
      <4>1. flagAge[c] \in Ages
        BY DEF ViewsInv, AgeInv
      <4>2. FlagOn(w, c) \/ flagAge[c] <= flagAge'[c]
        BY <1>3, <2>2, <4>1 DEF Ages
      <4> QED BY <1>9, <2>2, <4>1, <4>2
    <3> QED BY <1>1, <2>1, <3>2, <3>3 DEF ShownInv
  <2>3. CASE ~w.available
    <3>1. link' # "seen" /\ shown' = shown
      BY <1>3, <2>3
    <3> QED BY <2>1, <3>1 DEF ViewsInv, ShownInv
  <2> QED BY <1>6, <2>2, <2>3
<1>13. HeldDistanceBounded'
  <2> SUFFICES ASSUME submitted', NEW c \in Channels, NEW z \in RadarZones,
                      shown'[c].at[z].gated, ~shown'[c].flag
               PROVE  onAge'[c] <= DistanceHold
    BY DEF HeldDistanceBounded
  <2>1. /\ ~FlagOn(w, c)
        /\ z \in GatedZones(DistanceOf(w, c), FlagOn(w, c), flagAge[c])
    <3> DEFINE ch == Shown(w, c, flagAge[c], ready[c])
    <3>1. shown'[c] = ch
      BY <1>1, <1>9
    <3>2. /\ ch.flag <=> FlagOn(w, c)
          /\ ch.at[z].gated <=>
               z \in GatedZones(DistanceOf(w, c), FlagOn(w, c), flagAge[c])
      BY ShownIs
    <3> HIDE DEF ch
    <3>3. ch.at[z].gated /\ ~ch.flag
      BY <3>1
    <3> QED BY <3>2, <3>3
  <2>2. flagAge[c] <= DistanceHold
    BY <2>1 DEF GatedZones, UsableDistance
  <2>3. onAge'[c] = onAge[c] /\ onAge[c] <= flagAge[c]
    BY <1>1, <2>1 DEF ViewsInv, AgeInv
  <2>4. onAge[c] \in Int /\ flagAge[c] \in Int /\ DistanceHold \in Int
    BY OffCapIs, GatingAssumption DEF ViewsInv, AgeInv, Ages
  <2> QED BY <2>2, <2>3, <2>4
<1>14. ViewsInv'
  <2>1. fresh' \subseteq Counters /\ link' \in {"seen", "ahead", "rebuilt"}
    BY <1>3, <1>6 DEF ViewsInv
  <2> QED
    BY <1>1, <1>2, <1>5, <1>6, <1>8, <1>10, <1>11, <1>12, <1>13, <2>1 DEF ViewsInv
<1>15. TakesMeasured
  BY <1>1, <1>2, <1>3, <1>7 DEF TakesMeasured
<1>16. SubmitsReport
  <2> SUFFICES ASSUME submitted'
               PROVE  Certified([counters |-> link, move |-> shown["move"],
                                 still |-> shown["still"]],
                                fresh', shown'["move"], shown'["still"])
    BY DEF SubmitsReport
  <2> DEFINE seen == [counters |-> link, move |-> shown["move"], still |-> shown["still"]]
  <2>1. /\ "move" \in Channels /\ "still" \in Channels
        /\ w.available
    BY <1>1 DEF Channels
  <2>2. /\ shown'["move"] = Shown(w, "move", flagAge["move"], ready["move"])
        /\ shown'["still"] = Shown(w, "still", flagAge["still"], ready["still"])
    BY <1>9, <2>1
  <2>3. CASE link = "seen"
    <3>1. Pending = {}
      BY <2>3, PendingIs DEF ViewsInv, LeadInv, NoCounters
    <3>2. fresh' = classes
      BY <1>3, <1>7, <2>1, <2>3, <3>1
    <3>3. Reports(seen, fresh', shown'["move"], shown'["still"])
      BY <1>4, <1>5, <1>6, <2>2, <2>3, <3>2, WriteReports
    <3>4. seen.counters = "seen"
      BY <2>3
    <3> HIDE DEF seen
    <3>5. Certified(seen, fresh', shown'["move"], shown'["still"])
      BY <3>3, <3>4 DEF Certified
    <3> QED BY <3>5 DEF seen
  <2>4. CASE link = "ahead"
    <3>1. /\ "frame" \in fresh' <=> fresh' \cap {"move", "still"} # {}
          /\ "energy" \in fresh' => "move" \in fresh'
      BY <1>3, <1>7, <2>1, <2>4 DEF Counters
    <3>2. seen.counters = "ahead"
      BY <2>4
    <3> HIDE DEF seen
    <3>3. Certified(seen, fresh', shown'["move"], shown'["still"])
      BY <3>1, <3>2, Zenon DEF Certified
    <3> QED BY <3>3 DEF seen
  <2>5. CASE link = "rebuilt"
    <3>1. seen.counters = "rebuilt"
      BY <2>5
    <3> HIDE DEF seen
    <3>2. Certified(seen, fresh', shown'["move"], shown'["still"])
      BY <3>1, Zenon DEF Certified
    <3> QED BY <3>2 DEF seen
  <2> QED BY <2>3, <2>4, <2>5 DEF ViewsInv
<1> QED BY <1>14, <1>15, <1>16

(* A step that submits nothing has nothing to answer for. *)
LEMMA SubmitsNothing ==
  ASSUME submitted' = FALSE
  PROVE  SubmitsReport /\ TakesMeasured /\ HeldDistanceBounded'
BY DEF SubmitsReport, TakesMeasured, HeldDistanceBounded

LEMMA CommitKeeps ==
  ASSUME ViewsInv, NEW c \in Channels, NEW z \in GateZones, Commit(c, z)
  PROVE  ViewsInv' /\ SubmitsReport /\ TakesMeasured
<1> DEFINE covered == ready[c] \cup {z}
           gated == {y \in RadarZones : shown[c].at[y].gated}
           ch == Channel(view, c, gated, covered)
<1>1. /\ ready' = [ready EXCEPT ![c] = covered]
      /\ shown' = [shown EXCEPT ![c] = ch]
      /\ submitted' = FALSE /\ fresh' = {}
      /\ UNCHANGED <<started, hass, view, lead, flagAge, link, onAge>>
  BY Zenon DEF Commit
<1>2. measured' = Pending
  BY DEF Commit, Pending
<1>3. /\ Known(view) /\ shown \in [Channels -> ChannelStates]
      /\ ready \in [Channels -> SUBSET GateZones]
  BY BuiltIsKnown DEF ViewsInv, ShownInv
<1>4. ch \in ChannelStates
  BY <1>3, ChannelTyped
<1>5. ASSUME NEW age, shown[c] = Shown(view, c, age, ready[c])
      PROVE  ch = Shown(view, c, age, covered)
  <2> DEFINE zones == GatedZones(DistanceOf(view, c), FlagOn(view, c), age)
  <2>1. zones \subseteq RadarZones
    BY DEF GatedZones
  <2>2. \A y \in RadarZones : shown[c].at[y].gated <=> y \in zones
    BY <1>5, ShownIs
  <2> HIDE DEF zones
  <2>3. gated = zones
    BY <2>1, <2>2
  <2> QED BY <2>3 DEF Shown, zones
<1> HIDE DEF ch, gated
<1>6. ShownInv'
  <2>1. shown' \in [Channels -> ChannelStates]
    BY <1>1, <1>3, <1>4
  <2>2. ready' \in [Channels -> SUBSET GateZones]
    <3>1. covered \in SUBSET GateZones
      BY <1>3
    <3> QED BY <1>1, <1>3, <3>1
  <2>3. ASSUME link = "seen", NEW d \in Channels
        PROVE  \E age \in Ages :
                 /\ FlagOn(view, d) \/ age <= flagAge[d]
                 /\ shown'[d] = Shown(view, d, age, ready'[d])
    <3>1. PICK age \in Ages : /\ FlagOn(view, d) \/ age <= flagAge[d]
                              /\ shown[d] = Shown(view, d, age, ready[d])
      BY <2>3 DEF ViewsInv, ShownInv
    <3>2. shown'[d] = Shown(view, d, age, ready'[d])
      <4>1. CASE d = c
        <5>1. shown'[c] = ch /\ ready'[c] = covered
          BY <1>1, <1>3
        <5>2. ch = Shown(view, c, age, covered)
          BY <1>5, <3>1, <4>1
        <5> HIDE DEF covered
        <5> QED BY <4>1, <5>1, <5>2
      <4>2. CASE d # c
        BY <1>1, <1>3, <3>1, <4>2
      <4> QED BY <4>1, <4>2
    <3> QED BY <3>1, <3>2
  <2> QED BY <1>1, <2>1, <2>2, <2>3 DEF ShownInv
<1>7. LeadInv'
  BY <1>1, <1>2, PassedKeepsLead
<1>8. AgeInv'
  BY <1>1 DEF ViewsInv, AgeInv
<1>9. SubmitsReport /\ TakesMeasured /\ HeldDistanceBounded'
  BY <1>1, SubmitsNothing
<1>10. measured' \subseteq Counters
  BY <1>2 DEF Pending, ViewsInv
<1> QED BY <1>1, <1>6, <1>7, <1>8, <1>9, <1>10 DEF ViewsInv

LEMMA WaitKeeps ==
  ASSUME ViewsInv, Wait
  PROVE  ViewsInv' /\ SubmitsReport /\ TakesMeasured
<1>1. /\ flagAge' = [c \in Channels |-> Min({flagAge[c] + 1, OffCap})]
      /\ onAge' = [c \in Channels |->
           IF FlagOn(view, c) THEN 0 ELSE Min({onAge[c] + 1, OffCap})]
      /\ submitted' = FALSE /\ fresh' = {} /\ measured' = Pending
      /\ UNCHANGED <<started, hass, view, lead, ready, shown, link>>
  BY Zenon DEF Wait, Pending
<1>2. ASSUME NEW age \in Ages
      PROVE  /\ Min({age + 1, OffCap}) \in Ages /\ age <= Min({age + 1, OffCap})
             /\ Min({age + 1, OffCap}) <= age + 1 /\ Min({age + 1, OffCap}) <= OffCap
             /\ Min({age + 1, OffCap}) \in {age + 1, OffCap}
  <2>1. /\ Min({age + 1, OffCap}) \in {age + 1, OffCap}
        /\ Min({age + 1, OffCap}) <= age + 1 /\ Min({age + 1, OffCap}) <= OffCap
    <3>1. age + 1 \in Int /\ OffCap \in Int
      BY OffCapIs DEF Ages
    <3> QED BY <3>1, MinOfTwo
  <2>2. age \in Nat /\ age <= OffCap /\ OffCap \in Nat
    BY OffCapIs DEF Ages
  <2> QED BY <2>1, <2>2 DEF Ages
<1>3. ASSUME NEW c \in Channels
      PROVE  /\ flagAge'[c] \in Ages /\ onAge'[c] \in Ages
             /\ onAge'[c] <= flagAge'[c] /\ flagAge[c] <= flagAge'[c]
  <2>1. /\ flagAge[c] \in Ages /\ onAge[c] \in Ages /\ onAge[c] <= flagAge[c]
    BY DEF ViewsInv, AgeInv
  <2>2. /\ flagAge'[c] = Min({flagAge[c] + 1, OffCap})
        /\ onAge'[c] \in {0, Min({onAge[c] + 1, OffCap})}
    BY <1>1
  <2>3. onAge[c] \in Nat /\ flagAge[c] \in Nat /\ OffCap \in Nat
    BY <2>1, OffCapIs DEF Ages
  <2>4. onAge'[c] \in Ages /\ flagAge'[c] \in Ages /\ flagAge[c] <= flagAge'[c]
    BY <1>2, <2>1, <2>2, OffCapIs
  <2>5. onAge'[c] <= flagAge'[c]
    <3>1. CASE onAge'[c] = 0
      BY <2>4, <3>1 DEF Ages
    <3>2. CASE onAge'[c] = Min({onAge[c] + 1, OffCap})
      <4>1. onAge'[c] <= onAge[c] + 1 /\ onAge'[c] <= OffCap
        BY <1>2, <2>1, <3>2
      <4>2. flagAge'[c] \in {flagAge[c] + 1, OffCap}
        BY <1>2, <2>1, <2>2
      <4>3. onAge'[c] \in Int
        BY <2>3, <2>4 DEF Ages
      <4> QED BY <2>1, <2>3, <4>1, <4>2, <4>3
    <3> QED BY <2>2, <3>1, <3>2
  <2> QED BY <2>4, <2>5
<1>4. AgeInv'
  <2>1. /\ flagAge' = [c \in Channels |-> flagAge'[c]]
        /\ onAge' = [c \in Channels |-> onAge'[c]]
    BY <1>1
  <2> QED BY <1>3, <2>1 DEF AgeInv
<1>5. ShownInv'
  <2>1. ASSUME link = "seen", NEW c \in Channels
        PROVE  \E age \in Ages :
                 /\ FlagOn(view, c) \/ age <= flagAge'[c]
                 /\ shown[c] = Shown(view, c, age, ready[c])
    <3>1. PICK age \in Ages : /\ FlagOn(view, c) \/ age <= flagAge[c]
                              /\ shown[c] = Shown(view, c, age, ready[c])
      BY <2>1 DEF ViewsInv, ShownInv
    <3>2. age \in Int /\ flagAge[c] \in Int /\ flagAge'[c] \in Int
      BY <1>3, OffCapIs DEF ViewsInv, AgeInv, Ages
    <3> QED BY <1>3, <3>1, <3>2
  <2> QED BY <1>1, <2>1 DEF ViewsInv, ShownInv
<1>6. LeadInv'
  BY <1>1, PassedKeepsLead
<1>7. SubmitsReport /\ TakesMeasured /\ HeldDistanceBounded'
  BY <1>1, SubmitsNothing
<1>8. measured' \subseteq Counters
  BY <1>1 DEF Pending, ViewsInv
<1> QED BY <1>1, <1>4, <1>5, <1>6, <1>7, <1>8 DEF ViewsInv

LEMMA TallyIs ==
  ASSUME NEW h, NEW c \in Counters
  PROVE  Tally(h)[c] \in Nat
<1> DEFINE S == {role \in Roles : c \in Certifies(role, h[role], TRUE)}
<1>1. S \in SUBSET Roles /\ IsFiniteSet(Roles)
  BY ViewsAssumption
<1>2. Tally(h)[c] = Cardinality(S)
  BY DEF Tally
<1> HIDE DEF S
<1>3. IsFiniteSet(S)
  BY <1>1, FS_Subset
<1> QED BY <1>2, <1>3, FS_CardinalityType

LEMMA StartKeeps ==
  ASSUME ViewsInv, Start
  PROVE  ViewsInv' /\ SubmitsReport /\ TakesMeasured
<1>1. /\ hass' \in States /\ view' = BuildView(hass') /\ started' = TRUE
      /\ lead' = [c \in Counters |->
           Min({1, Tally(hass')[c] - (IF view.available THEN Tally(hass)[c] ELSE 0)})]
      /\ link' = "rebuilt" /\ submitted' = FALSE /\ fresh' = {}
      /\ onAge' = [c \in Channels |-> IF FlagOn(view', c) THEN 0 ELSE onAge[c]]
      /\ UNCHANGED <<flagAge, ready, shown, measured>>
  BY Zenon DEF Start
<1>2. LeadInv'
  <2>1. ASSUME NEW c \in Counters PROVE lead'[c] \in Int /\ lead'[c] <= 1
    <3> DEFINE known == IF view.available THEN Tally(hass)[c] ELSE 0
               ahead == Tally(hass')[c] - known
    <3>1. known \in Int
      BY TallyIs
    <3>2. Tally(hass')[c] \in Int
      BY TallyIs
    <3> HIDE DEF known
    <3>3. ahead \in Int
      BY <3>1, <3>2
    <3>4. lead'[c] = Min({1, ahead})
      BY <1>1 DEF known
    <3> HIDE DEF ahead
    <3>5. Min({1, ahead}) \in {1, ahead} /\ Min({1, ahead}) <= 1
      <4>1. 1 \in Int
        OBVIOUS
      <4> QED BY <3>3, <4>1, MinOfTwo
    <3> QED BY <3>3, <3>4, <3>5
  <2>2. lead' = [c \in Counters |-> lead'[c]]
    BY <1>1
  <2>3. lead' \in [Counters -> Int]
    BY <2>1, <2>2
  <2> QED BY <1>1, <2>1, <2>3 DEF LeadInv
<1>3. AgeInv'
  BY <1>1, OffCapIs DEF ViewsInv, AgeInv, Ages
<1>4. ShownInv'
  BY <1>1 DEF ViewsInv, ShownInv
<1>5. SubmitsReport /\ TakesMeasured /\ HeldDistanceBounded'
  BY <1>1, SubmitsNothing
<1> QED BY <1>1, <1>2, <1>3, <1>4, <1>5 DEF ViewsInv

LEMMA InitViewsInv == Init => ViewsInv
<1> SUFFICES ASSUME Init PROVE ViewsInv
  OBVIOUS
<1>1. /\ hass \in States /\ view = BuildView(hass) /\ Known(view)
  BY BuiltIsKnown DEF Init
<1>2. LeadInv
  BY DEF Init, LeadInv, NoCounters, Counters
<1>3. AgeInv
  BY OffCapIs DEF Init, AgeInv, Ages
<1>4. ShownInv
  <2>1. /\ shown = Frame(view, flagAge, ready)
        /\ ready \in [Channels -> SUBSET GateZones]
    BY DEF Init
  <2>2. \A c \in Channels : shown[c] = Shown(view, c, flagAge[c], ready[c])
    BY <2>1 DEF Frame, Shown, DistanceOf
  <2>3. \A c \in Channels : shown[c] \in ChannelStates
    BY <1>1, <2>2, ChannelTyped DEF Shown
  <2>4. shown \in [Channels -> ChannelStates]
    <3>1. shown = [c \in Channels |-> shown[c]]
      BY <2>1 DEF Frame
    <3> QED BY <2>3, <3>1
  <2>5. ASSUME NEW c \in Channels
        PROVE  \E age \in Ages : /\ FlagOn(view, c) \/ age <= flagAge[c]
                                 /\ shown[c] = Shown(view, c, age, ready[c])
    <3>1. flagAge[c] \in Ages /\ flagAge[c] <= flagAge[c]
      BY <1>3, OffCapIs DEF AgeInv, Ages
    <3> QED BY <2>2, <3>1
  <2> QED BY <2>1, <2>4, <2>5 DEF ShownInv
<1> QED BY <1>1, <1>2, <1>3, <1>4 DEF Init, ViewsInv, HeldDistanceBounded

LEMMA NextViewsInv ==
  ViewsInv /\ [Next]_vars => ViewsInv' /\ [SubmitsReport]_vars /\ [TakesMeasured]_vars
<1> SUFFICES ASSUME ViewsInv, [Next]_vars
             PROVE  ViewsInv' /\ [SubmitsReport]_vars /\ [TakesMeasured]_vars
  OBVIOUS
<1>1. ASSUME UNCHANGED vars
      PROVE  ViewsInv' /\ [SubmitsReport]_vars /\ [TakesMeasured]_vars
  BY <1>1 DEF vars, ViewsInv, LeadInv, AgeInv, ShownInv, HeldDistanceBounded
<1>2. ASSUME NEW role \in Roles, NEW value \in Shows[role],
             NEW attributes \in BOOLEAN, Write(role, value, attributes)
      PROVE  ViewsInv' /\ SubmitsReport /\ TakesMeasured
  BY <1>2, WriteKeeps
<1>3. ASSUME NEW c \in Channels, NEW z \in GateZones, Commit(c, z)
      PROVE  ViewsInv' /\ SubmitsReport /\ TakesMeasured
  BY <1>3, CommitKeeps
<1>4. ASSUME Next PROVE ViewsInv' /\ SubmitsReport /\ TakesMeasured
  BY <1>2, <1>3, <1>4, StartKeeps, WaitKeeps DEF Next
<1> QED BY <1>1, <1>4

LEMMA SpecViewsInv == Spec => []ViewsInv
BY InitViewsInv, NextViewsInv, PTL DEF Spec

(* The types of the view's state: of any entities' values, the readings    *)
(* are energies in range, and no counter of a view the engine has seen     *)
(* leads by more than whether (observation.py 82-147, evidence.py 103-133).*)
THEOREM ViewsTypeCorrect == Spec => []ViewsTypeOK
<1>1. ViewsInv => ViewsTypeOK
  <2> SUFFICES ASSUME ViewsInv PROVE ViewsTypeOK
    OBVIOUS
  <2>1. \A role \in Roles : hass[role] \in Shows[role]
    BY DEF ViewsInv, States
  <2>2. view.available \in BOOLEAN
        /\ \A role \in Roles : view.values[role] \in Nat \cup {Missing}
    BY BuiltIsKnown DEF ViewsInv
  <2>3. \A c \in Counters : lead[c] \in Int /\ lead[c] <= 1
    BY DEF ViewsInv, LeadInv
  <2>4. flagAge \in [Channels -> 0 .. OffCap] /\ onAge \in [Channels -> 0 .. OffCap]
    BY DEF ViewsInv, AgeInv, Ages
  <2> QED BY <2>1, <2>2, <2>3, <2>4, Zenon DEF ViewsInv, ShownInv, ChannelStates, ViewsTypeOK
<1> QED BY <1>1, SpecViewsInv, PTL

(* Whatever is mapped and however it is written, with outages, garbage and *)
(* rebuilt views in between, what is submitted is a report the estimator   *)
(* is checked and proved against (observation.py 100-166, controller.py    *)
(* 259-300).                                                               *)
THEOREM OnlyReportsReach == Spec => FramesAreReports
<1>1. ViewsInv /\ [Next]_vars => [SubmitsReport]_vars
  BY NextViewsInv
<1> QED BY <1>1, SpecViewsInv, PTL DEF Spec, FramesAreReports

(* What the engine takes for fresh was measured since its last frame, and  *)
(* all of it (rule 1.1; evidence.py 279-314).                              *)
THEOREM SamplesAreMeasured == Spec => SamplesCertified
<1>1. ViewsInv /\ [Next]_vars => [TakesMeasured]_vars
  BY NextViewsInv
<1> QED BY <1>1, SpecViewsInv, PTL DEF Spec, SamplesCertified

(* A held distance gates nothing once its flag has been off, as the entity *)
(* itself had it, for longer than the hold, for any hold and any outages   *)
(* (rule 2.7, gating.py 61-79).                                            *)
THEOREM HoldIsBounded == Spec => []HeldDistanceBounded
<1>1. ViewsInv => HeldDistanceBounded
  BY DEF ViewsInv
<1> QED BY <1>1, SpecViewsInv, PTL
=============================================================================
