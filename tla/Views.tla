-------------------------------- MODULE Views --------------------------------
(***************************************************************************)
(* One radar's cached view between Home Assistant and the engine: the      *)
(* entities' states, SensorView (observation.py), the controller's entity  *)
(* callbacks, and what the engine makes of the frame it is submitted       *)
(* (evidence.apply_frame): which channels were measured, to which zones    *)
(* they belong and which statistic they show.                              *)
(*                                                                         *)
(* A counter of the view is kept as its lead over the one the engine took  *)
(* from the last frame: only whether they differ is ever asked, and a lead *)
(* above zero can only grow, so it saturates at 1.  Flag ages saturate     *)
(* past the hold, where a flag never seen on is as well.                   *)
(***************************************************************************)
EXTENDS Gating, Reports

CONSTANTS
  Shows,      \* per mapped role of the radar, the values its entity may have
  GateZones   \* zones whose gates a calibration window can cover

Channels == {"move", "still"}
Energy(c) == <<"energy", c>>
Distance(c) == <<"distance", c>>
Flag(c) == <<"flag", c>>
Target == <<"target">>
Gate(c, i) == <<"gate", c, i>>

FlagRoles == {Flag("move"), Flag("still"), Target}
MoveEnergies == {Energy("move")} \cup {Gate("move", i) : i \in 0 .. GateCount - 1}

(* States of an entity: a number (a flag is 0 or 1), Missing when it is    *)
(* unavailable, unknown or removed, Garbled when it is none of that.       *)
Garbled == -2

Roles == DOMAIN Shows

Measures == {Energy(c) : c \in Channels} \cup {Distance(c) : c \in Channels}
Gates == {Gate(c, i) : c \in Channels, i \in 0 .. GateCount - 1}

(* The flows always map both energies and distances (const.py 11-14). *)
ASSUME ViewsAssumption ==
  /\ Measures \subseteq Roles /\ Roles \subseteq Measures \cup FlagRoles \cup Gates
  /\ IsFiniteSet(Roles)
  /\ \A role \in Roles : Shows[role] \subseteq Nat \cup {Missing, Garbled}
  /\ GateZones \subseteq RadarZones

VARIABLES
  started,    \* _on_started has subscribed
  hass,       \* the states of the mapped entities
  view,       \* SensorView: its fields by role, and availability
  lead,       \* its observation counters less the engine's
  flagAge,    \* age of SensorState.move_flag_at and still_flag_at
  ready,      \* per channel, the zones with a complete gate family in force
  shown,      \* the channels of the last frame, as the engine reads them
  fresh,      \* the counters it found advanced in this call's frame
  link,       \* the engine's knowledge of the counters, as in Reports
  submitted,  \* the last call ended in a frame
  measured,   \* history: what was measured since the frame before
  onAge       \* history: how long each flag entity has been off

vars == <<started, hass, view, lead, flagAge, ready, shown, fresh, link,
          submitted, measured, onAge>>

(* What Home Assistant may hold: some value for every role *)
States ==
  {h \in [Roles -> UNION {Shows[role] : role \in Roles}] :
     \A role \in Roles : h[role] \in Shows[role]}

OffCap == DistanceHold + 1
NoCounters == [c \in Counters |-> 0]

----------------------------------------------------------------------------
(* SensorView                                                              *)

(* _as_float and _is_on: what a view keeps of an entity's state *)
Fold(role, value) ==
  CASE role \in FlagRoles -> IF value = 1 THEN 1 ELSE 0
    [] role \notin FlagRoles /\ value = Garbled -> Missing
    [] OTHER -> value

(* What a view holds of a role, mapped or not *)
ValueOf(values, role) == IF role \in Roles THEN values[role]
                       ELSE IF role \in FlagRoles THEN 0 ELSE Missing

Parseable(role, value) ==
  IF role \in FlagRoles THEN value \in {0, 1} ELSE value \notin {Missing, Garbled}

(* The counters a measurement of the role advances *)
Observes(role) ==
  {"frame"} \cup (IF role = Target THEN Channels ELSE {role[2]})
    \cup (IF role \in MoveEnergies THEN {"energy"} ELSE {})

(* A mutant of Certifies: every entity event is a measurement. *)
CertifiesAnything(role, value, measurement) == Observes(role)

(* SensorView.update, its counters *)
Certifies(role, value, measurement) ==
  IF measurement /\ Parseable(role, value) THEN Observes(role) ELSE {}

Advanced(counters, classes) ==
  [c \in Counters |-> IF c \in classes THEN Min({counters[c] + 1, 1})
                                       ELSE counters[c]]

(* required_available: both energies are live, parseable or not. *)
RequiredAvailable(h) == \A c \in Channels : h[Energy(c)] # Missing

(* build_view, which takes every current state for a measurement *)
BuildView(h) == [values |-> [role \in Roles |-> Fold(role, h[role])],
                 available |-> RequiredAvailable(h)]
Tally(h) == [c \in Counters |->
  Cardinality({role \in Roles : c \in Certifies(role, h[role], TRUE)})]

----------------------------------------------------------------------------
(* The frame as the engine reads it                                        *)

FlagOn(v, c) == ValueOf(v.values, Flag(c)) = 1

(* The gate path: the strongest of the zone's known gates, if its floors   *)
(* are complete and any gate is known (gate_statistic, rules 2.5 and 2.6); *)
(* else the aggregate energy.  Scores are against a floor of zero.         *)
KnownGates(v, z, c) ==
  {i \in OwnedGates(z) : ValueOf(v.values, Gate(c, i)) # Missing}

Reading(v, z, c, gated, covered) ==
  LET gates == z \in covered /\ KnownGates(v, z, c) # {}
      energy == NormalizeEnergy(v.values[Energy(c)])
  IN  [raw |-> IF gates
               THEN Max({NormalizeEnergy(v.values[Gate(c, i)]) :
                           i \in KnownGates(v, z, c)})
               ELSE IF energy = Missing THEN 0 ELSE energy,
       gated |-> z \in gated, gates |-> gates]

Channel(v, c, gated, covered) ==
  [flag |-> FlagOn(v, c),
   at |-> [z \in RadarZones |-> Reading(v, z, c, gated, covered)]]

(* ingest_frame: gating first, with the flag ages before this frame *)
Frame(v, ages, families) ==
  [c \in Channels |->
     Channel(v, c, GatedZones(v.values[Distance(c)], FlagOn(v, c), ages[c]),
             families[c])]

----------------------------------------------------------------------------
Init ==
  /\ hass \in States
  /\ started = FALSE
  /\ view = BuildView(hass)
  /\ lead = NoCounters
  /\ flagAge = [c \in Channels |-> OffCap]
  /\ ready = [c \in Channels |-> {}]
  /\ shown = Frame(view, flagAge, ready)
  /\ fresh = {} /\ link = "seen" /\ submitted = FALSE
  /\ measured = {}
  /\ onAge = [c \in Channels |-> IF FlagOn(view, c) THEN 0 ELSE OffCap]

(* Home Assistant has started; anything may have happened to the entities  *)
(* meanwhile.  The view is rebuilt and the engine keeps the counters of    *)
(* the snapshot, or zero when that had no frame (controller.py 201-213).   *)
Start ==
  /\ ~started /\ started' = TRUE
  /\ hass' \in States
  /\ view' = BuildView(hass')
  /\ lead' = [c \in Counters |->
       Min({1, Tally(hass')[c] - (IF view.available THEN Tally(hass)[c] ELSE 0)})]
  /\ link' = "rebuilt" /\ submitted' = FALSE
  /\ onAge' = [c \in Channels |-> IF FlagOn(view', c) THEN 0 ELSE onAge[c]]
  /\ fresh' = {}
  /\ UNCHANGED <<flagAge, ready, shown, measured>>

(* An entity is written (_on_entity_event, _on_entity_reported).  Only a   *)
(* write that changes attributes and keeps the value is no measurement.    *)
(* The sensor's complete frame follows while the required entities live.   *)
Write(role, value, attributes) ==
  LET measurement == value # hass[role] \/ ~attributes
      written == [hass EXCEPT ![role] = value]
      folded == [values |-> [view.values EXCEPT ![role] = Fold(role, value)],
                 available |-> RequiredAvailable(written)]
      classes == Certifies(role, value, measurement)
      counted == Advanced(lead, classes)
  IN  /\ started
      /\ hass' = written
      /\ view' = folded
      /\ submitted' = folded.available
      /\ measured' = (IF submitted THEN {} ELSE measured) \cup
           (IF measurement /\ Parseable(role, value) THEN Observes(role) ELSE {})
      /\ onAge' = [c \in Channels |-> IF FlagOn(folded, c) THEN 0 ELSE onAge[c]]
      /\ IF folded.available
         THEN /\ fresh' = {c \in Counters : counted[c] # 0}
              /\ lead' = NoCounters
              /\ shown' = Frame(folded, flagAge, ready)
              /\ flagAge' = [c \in Channels |->
                   IF FlagOn(folded, c) THEN 0 ELSE flagAge[c]]
              /\ link' = "seen"
         ELSE /\ lead' = counted /\ fresh' = {}
              /\ link' = IF link = "seen" THEN "ahead" ELSE link
              /\ UNCHANGED <<shown, flagAge>>
      /\ UNCHANGED <<started, ready>>

(* A calibration window commits a zone's gate family of a channel: the     *)
(* engine reads what it is shown anew (evidence.on_baseline_end 783-789).  *)
(* It commits nothing while the sensor is unavailable (748).               *)
Commit(c, z) ==
  LET covered == ready[c] \cup {z}
  IN  /\ started /\ view.available /\ z \notin ready[c]
      /\ ready' = [ready EXCEPT ![c] = covered]
      /\ shown' = [shown EXCEPT ![c] =
           Channel(view, c, {y \in RadarZones : shown[c].at[y].gated}, covered)]
      /\ submitted' = FALSE /\ fresh' = {}
      /\ measured' = IF submitted THEN {} ELSE measured
      /\ UNCHANGED <<started, hass, view, lead, flagAge, link, onAge>>

(* Time passes. *)
Wait ==
  /\ started
  /\ flagAge' = [c \in Channels |-> Min({flagAge[c] + 1, OffCap})]
  /\ onAge' = [c \in Channels |->
       IF FlagOn(view, c) THEN 0 ELSE Min({onAge[c] + 1, OffCap})]
  /\ submitted' = FALSE /\ fresh' = {}
  /\ measured' = IF submitted THEN {} ELSE measured
  /\ UNCHANGED <<started, hass, view, lead, ready, shown, link>>

Next ==
  \/ Start
  \/ \E role \in Roles : \E value \in Shows[role], attributes \in BOOLEAN :
       Write(role, value, attributes)
  \/ \E c \in Channels, z \in GateZones : Commit(c, z)
  \/ Wait

Spec == Init /\ [][Next]_vars

ViewsTypeOK ==
  /\ started \in BOOLEAN /\ submitted \in BOOLEAN
  /\ \A role \in Roles : hass[role] \in Shows[role]
  /\ view.available \in BOOLEAN
  /\ \A role \in Roles : view.values[role] \in Nat \cup {Missing}
  /\ \A c \in Counters : lead[c] \in Int /\ lead[c] <= 1
  /\ flagAge \in [Channels -> 0 .. OffCap] /\ onAge \in [Channels -> 0 .. OffCap]
  /\ ready \in [Channels -> SUBSET GateZones]
  /\ shown \in [Channels -> [flag : BOOLEAN, at : [RadarZones ->
                  [raw : 0 .. MaxEnergy, gated : BOOLEAN, gates : BOOLEAN]]]]
  /\ fresh \subseteq Counters /\ measured \subseteq Counters
  /\ link \in {"seen", "ahead", "rebuilt"}

----------------------------------------------------------------------------
(* Properties                                                              *)

(* Whatever entity is written in whatever order, with outages, garbage,    *)
(* lapsing distances and committed floors in between, a frame differs from *)
(* the last one by what Reports says of one report: what the estimator is  *)
(* checked against is all that can reach it (observation.py 100-147,       *)
(* controller.py 259-300, evidence.py 279-314).                            *)
SubmitsReport ==
  submitted' => Certified([counters |-> link, move |-> shown["move"],
                           still |-> shown["still"]],
                          fresh', shown'["move"], shown'["still"])

FramesAreReports == [][SubmitsReport]_vars

(* No energy is attributed to where somebody last stood once the target    *)
(* flag has been off for longer than the hold, as the entity itself has    *)
(* it, across outages and rebuilt views (rule 2.7, gating.py 61-79).       *)
HeldDistanceBounded ==
  submitted =>
    \A c \in Channels, z \in RadarZones :
      shown[c].at[z].gated /\ ~shown[c].flag => onAge[c] <= DistanceHold

(* The engine takes for fresh exactly what was measured since its last     *)
(* frame: no re-emitted cache, metadata or lost entity passes for a        *)
(* measurement, and none made during an outage is lost (rule 1.1).         *)
TakesMeasured == submitted' /\ link # "rebuilt" => fresh' = measured'

SamplesCertified == [][TakesMeasured]_vars
=============================================================================
