----------------------------- MODULE OptionsFlow -----------------------------
(***************************************************************************)
(* The setup wizard and the options flow (config_flow.py): sessions of     *)
(* forms that end by writing a section of the config entry's options.      *)
(*                                                                         *)
(* options is the entry's options dict: the sensors' ids, the zones by     *)
(* name, the tunables, and store, the baselines the controller writes.     *)
(* created says whether the entry exists.  A form that fails validation is *)
(* shown again and changes nothing, so only valid submissions are steps.   *)
(* Home Assistant lets several sessions be open at once; the model has one *)
(* at a time.                                                              *)
(***************************************************************************)
EXTENDS Integers, Sequences, FiniteSets, TLC

CONSTANTS
  SensorIds,        \* slugs of the device names
  ZoneNames,        \* slugs of the zone names
  Forms,            \* what the zone form may hold: room, range, fallback
  Tunings,          \* what the tunables form may hold
  DefaultTuning     \* the defaults of Tunables, in force until one is saved

ASSUME OptionsFlowAssumption ==
  DefaultTuning \in Tunings /\ DefaultTuning.gapMax > DefaultTuning.gapMin

VARIABLES options, session

NoZones == [n \in {} |-> Forms]
Idle == [section |-> "none", step |-> "none", sensors |-> {},
         pending |-> <<>>, zones |-> NoZones]

(* One entry over the others, a dict over another *)
With(old, n, entry) ==
  [m \in DOMAIN old \cup {n} |-> IF m = n THEN entry ELSE old[m]]
Over(new, old) ==
  [n \in DOMAIN new \cup DOMAIN old |-> IF n \in DOMAIN new THEN new[n] ELSE old[n]]

ZonesOf(zones, sensors) ==
  [n \in {m \in DOMAIN zones : zones[m].sensor \in sensors} |-> zones[n]]

(* The stored zones whose sensor is still in the session's list *)
KeptZones == ZonesOf(options.zones, session.sensors)

(* A mutant of ExistingZones: only this session's zones are compared. *)
ExistingZonesAdded == session.zones

(* What a new zone is validated against (new_zones, wizard zones) *)
ExistingZones == Over(session.zones, KeptZones)

(* _validate_zone, the name apart: the range and the fallback (rule 2.3) *)
Valid(form, zones, sensor) ==
  /\ form.far > form.near
  /\ form.fallback => \A n \in DOMAIN zones :
                        zones[n].sensor = sensor => ~zones[n].fallback

Zone(form, sensor) ==
  [sensor |-> sensor, room |-> form.room, near |-> form.near,
   far |-> form.far, fallback |-> form.fallback]

(* _overlapping_pairs *)
Overlaps(zones) ==
  \E m, n \in DOMAIN zones :
    /\ zones[m].sensor # zones[n].sensor
    /\ zones[m].room = zones[n].room
    /\ zones[m].near < zones[n].far /\ zones[n].near < zones[m].far

----------------------------------------------------------------------------
(* Saving (_save): the session's sections over the options as they are now *)

Saved(s) ==
  IF s.section = "zones" THEN [options EXCEPT !.zones = s.zones]
  ELSE [options EXCEPT
          !.created = TRUE, !.sensors = s.sensors,
          !.zones = Over(s.zones, ZonesOf(@, s.sensors))]

Save(s) == options' = Saved(s) /\ session' = Idle

(* The last form either saves or warns of an overlap first (rule 2.2). *)
Finish(s) ==
  IF Overlaps(Saved(s).zones)
  THEN session' = [s EXCEPT !.step = "overlap"] /\ UNCHANGED options
  ELSE Save(s)

----------------------------------------------------------------------------
OpenWizard ==
  /\ session = Idle /\ ~options.created
  /\ session' = [Idle EXCEPT !.section = "wizard", !.step = "sensors"]
  /\ UNCHANGED options

OpenSection(section) ==
  /\ session = Idle /\ options.created
  /\ section = "zones" => options.zones # NoZones
  /\ session' = [Idle EXCEPT !.section = section, !.step = section]
  /\ UNCHANGED options

(* async_step_sensors, async_step_user: which sensors stay and whether     *)
(* others are added, discovered or assigned by hand.                       *)
PickSensors(kept, adding) ==
  LET picked == [session EXCEPT !.sensors = kept, !.step = "add"]
  IN  /\ session.step = "sensors"
      /\ kept \subseteq options.sensors
      /\ kept # {} \/ adding
      /\ IF adding THEN session' = picked /\ UNCHANGED options ELSE Save(picked)

(* A new sensor's id differs from those in the session's list only. *)
AddSensor(id, another) ==
  /\ session.step = "add"
  /\ id \notin session.sensors
  /\ session' = [session EXCEPT
       !.sensors = @ \cup {id}, !.pending = Append(@, id),
       !.step = IF another THEN "add" ELSE "new_zones"]
  /\ UNCHANGED options

NewZone(name, form, another) ==
  LET sensor == Head(session.pending)
      zoned == [session EXCEPT
                  !.zones = With(@, name, Zone(form, sensor)),
                  !.pending = IF another THEN @ ELSE Tail(@)]
  IN  /\ session.step = "new_zones"
      /\ name \notin DOMAIN ExistingZones
      /\ Valid(form, ExistingZones, sensor)
      /\ IF zoned.pending # <<>> THEN session' = zoned /\ UNCHANGED options
                                 ELSE Finish(zoned)

(* async_step_zones: every stored zone is edited before any is saved.      *)
EditZone(name, form) ==
  LET sensor == options.zones[name].sensor
      zoned == [session EXCEPT !.zones = With(@, name, Zone(form, sensor))]
  IN  /\ session.step = "zones"
      /\ name \in DOMAIN options.zones \ DOMAIN session.zones
      /\ Valid(form, session.zones, sensor)
      /\ IF DOMAIN zoned.zones # DOMAIN options.zones
         THEN session' = zoned /\ UNCHANGED options ELSE Finish(zoned)

AcceptOverlap == session.step = "overlap" /\ Save(session)

SetTuning(tuning) ==
  /\ session.step = "tunables"
  /\ tuning.gapMax > tuning.gapMin
  /\ options' = [options EXCEPT !.tuning = tuning]
  /\ session' = Idle

(* The dialog is closed: nothing was saved, nothing is. *)
Abandon == session # Idle /\ session' = Idle /\ UNCHANGED options

FlowStep ==
  \/ OpenWizard
  \/ \E section \in {"sensors", "zones", "tunables"} : OpenSection(section)
  \/ \E kept \in SUBSET SensorIds, adding \in BOOLEAN : PickSensors(kept, adding)
  \/ \E id \in SensorIds, another \in BOOLEAN : AddSensor(id, another)
  \/ \E name \in ZoneNames, form \in Forms, another \in BOOLEAN :
       NewZone(name, form, another)
  \/ \E name \in ZoneNames, form \in Forms : EditZone(name, form)
  \/ AcceptOverlap
  \/ \E tuning \in Tunings : SetTuning(tuning)
  \/ Abandon

----------------------------------------------------------------------------
(* Whatever was saved, the entry can be set up from it: the zones belong   *)
(* to the sensors that are configured, every sensor has one, none is empty *)
(* and at most one of a sensor is its fallback (const.py 1-41, rule 2.3).  *)
(* Sensors come and go over sessions, and a removed one's id may be taken  *)
(* by another.                                                             *)
SavedConfSound ==
  options.created =>
    /\ options.sensors # {}
    /\ {options.zones[n].sensor : n \in DOMAIN options.zones} = options.sensors
    /\ \A n \in DOMAIN options.zones : options.zones[n].near < options.zones[n].far
    /\ \A m, n \in DOMAIN options.zones :
         options.zones[m].sensor = options.zones[n].sensor /\ m # n
           => ~(options.zones[m].fallback /\ options.zones[n].fallback)
    /\ options.tuning.gapMin < options.tuning.gapMax
=============================================================================
