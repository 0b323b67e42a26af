------------------------------- MODULE Gating -------------------------------
(***************************************************************************)
(* Which zones of one radar a report belongs to (core/gating.py): by the   *)
(* reported distance while it can be trusted, by the default zone when a   *)
(* target has none, and by the radar's own distance gates.  Distances and  *)
(* energies are whole numbers from 0 on, so that the clamp at 0 (rule 1.4) *)
(* has nothing to do; Missing is Python's None.                            *)
(***************************************************************************)
EXTENDS Integers, Sequences, FiniteSetsExt

CONSTANTS
  ZoneOrder,           \* the radar's zones in the order of the configuration
  Near, Far,           \* ZoneConfig.near_cm, far_cm
  Fallbacks,           \* the zones with ZoneConfig.fallback
  Margin,              \* Tunables.margin_cm
  GateSize, GateCount, \* SensorConfig.gate_size_cm, GATE_COUNT
  DistanceHold,        \* Tunables.distance_hold
  MaxEnergy            \* the 100 of the energy scale

RadarZones == {ZoneOrder[i] : i \in DOMAIN ZoneOrder}

ASSUME GatingAssumption ==
  /\ DOMAIN ZoneOrder = 1 .. Len(ZoneOrder)
  /\ Near \in [RadarZones -> Nat] /\ Far \in [RadarZones -> Nat]
  /\ \A z \in RadarZones : Near[z] < Far[z]
  /\ Fallbacks \subseteq RadarZones
  /\ Margin \in Nat
  /\ GateSize \in Nat \ {0} /\ GateCount \in Nat
  /\ DistanceHold \in Nat
  /\ MaxEnergy \in Nat

Missing == -1

(* A mutant of NormalizeEnergy: what is out of range is passed on. *)
NormalizeEnergyOpen(value) == value

(* normalize_energy, without the change of unit *)
NormalizeEnergy(value) ==
  CASE value = Missing -> Missing
    [] value > MaxEnergy -> MaxEnergy
    [] OTHER -> value

(* The mask of rule 2.1 *)
InZone(z, distance) == distance \in (Near[z] - Margin) .. (Far[z] + Margin)

(* The gates whose interval overlaps the mask (rule 2.4) *)
OwnedGates(z) ==
  {i \in 0 .. GateCount - 1 : /\ i * GateSize <= Far[z] + Margin
                              /\ (i + 1) * GateSize > Near[z] - Margin}

(* The first zone flagged fallback, else the first of the nearest (2.3) *)
DefaultZone ==
  LET flagged == {i \in DOMAIN ZoneOrder : ZoneOrder[i] \in Fallbacks}
      nearest == {i \in DOMAIN ZoneOrder :
                    \A j \in DOMAIN ZoneOrder :
                      Near[ZoneOrder[i]] <= Near[ZoneOrder[j]]}
  IN  ZoneOrder[Min(IF flagged # {} THEN flagged ELSE nearest)]

(* A mutant of UsableDistance: a distance is trusted for ever. *)
UsableDistanceFrozen(distance, flag, age) == distance

(* The distance of a channel, if it can still be trusted: its flag is on   *)
(* or was on at most DistanceHold ago.  A flag never seen on, and any flag *)
(* at the seed, has an age beyond the hold (2.7, 7.1).                     *)
UsableDistance(distance, flag, age) ==
  IF flag \/ age <= DistanceHold THEN distance ELSE Missing

(* A mutant of GatedZones: without a distance the default zone gets the    *)
(* energy, target or not.                                                  *)
GatedZonesByDefault(distance, flag, age) ==
  LET usable == UsableDistance(distance, flag, age)
  IN  IF usable = Missing THEN {DefaultZone}
      ELSE {z \in RadarZones : InZone(z, usable)}

(* gate_frame for one channel: the zones it is gated to *)
GatedZones(distance, flag, age) ==
  LET usable == UsableDistance(distance, flag, age)
  IN  IF usable = Missing
      THEN {z \in RadarZones : flag /\ z = DefaultZone}
      ELSE {z \in RadarZones : InZone(z, usable)}
=============================================================================
