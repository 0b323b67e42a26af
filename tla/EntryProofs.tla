---------------------------- MODULE EntryProofs ----------------------------
(***************************************************************************)
(* What is stored of a calibration is what is in force, and it is of one   *)
(* piece; what the flows save can be set up, and is; what is told of a     *)
(* calibration is so: for any sensors, zones, settings and windows, and    *)
(* any number of commits, edits, reloads and restarts.                     *)
(***************************************************************************)
EXTENDS Entry, WellFoundedInduction, TLAPS

OnePiece(cal) == cal \in Calibrations /\ OfOneWindow(cal)

(* What is stored was measured; the default floors never are. *)
Measured(cal) == \A c \in Channels : cal.floors[c] # 0

StoreOK(store) ==
  \A z \in DOMAIN store : OnePiece(store[z].cal) /\ Measured(store[z].cal)

OptionsOK(o) ==
  /\ o = [created |-> o.created, sensors |-> o.sensors, zones |-> o.zones,
          tuning |-> o.tuning, store |-> o.store]
  /\ StoreOK(o.store)

(* Whatever the options are by now: the settings the controller was built  *)
(* from and the stored baselines give what is in force.                    *)
InForceStored == inForce = [z \in DOMAIN loaded.zones |-> Adopted(loaded, z, options.store)]

IInv ==
  /\ OptionsOK(options) /\ OptionsOK(disk)
  /\ InForceStored
  /\ recording \subseteq DOMAIN loaded.zones
  /\ phase = "down" => recording = {}
  /\ committed \in 0 .. MaxWindows

(* What the flows save.  A session that gathers zones has for each of its  *)
(* sensors a zone, new or stored, or still waits for one.                  *)
ZonesSound(zones) ==
  /\ DOMAIN zones \subseteq ZoneNames
  /\ \A n \in DOMAIN zones : zones[n].near < zones[n].far
  /\ \A m, n \in DOMAIN zones :
       zones[m].sensor = zones[n].sensor /\ m # n
         => ~(zones[m].fallback /\ zones[n].fallback)

SensorsIn(zones) == {zones[n].sensor : n \in DOMAIN zones}

ConfSound(o) ==
  /\ o.created \in BOOLEAN /\ (o.created <=> o.sensors # {})
  /\ o.sensors \subseteq SensorIds /\ SensorsIn(o.zones) = o.sensors
  /\ ZonesSound(o.zones)
  /\ o.tuning \in Tunings /\ o.tuning.gapMin < o.tuning.gapMax

Finished(s) ==
  IF s.section = "zones"
  THEN /\ options.created
       /\ ZonesSound(s.zones) /\ SensorsIn(s.zones) = options.sensors
  ELSE LET zones == Over(s.zones, ZonesOf(options.zones, s.sensors))
       IN  /\ s.sensors \subseteq SensorIds /\ s.sensors # {}
           /\ ZonesSound(zones) /\ SensorsIn(zones) = s.sensors

Gathering ==
  /\ session.section # "zones"
  /\ session.sensors \subseteq SensorIds
  /\ session.pending \in Seq(session.sensors)
  /\ ZonesSound(ExistingZones)
  /\ SensorsIn(ExistingZones) \subseteq session.sensors
  /\ \A s \in session.sensors :
       \/ s \in SensorsIn(ExistingZones)
       \/ \E i \in 1 .. Len(session.pending) : session.pending[i] = s

Editing ==
  /\ session.section = "zones" /\ options.created
  /\ ZonesSound(session.zones)
  /\ \A n \in DOMAIN session.zones :
       /\ n \in DOMAIN options.zones
       /\ session.zones[n].sensor = options.zones[n].sensor

SessionOK ==
  /\ session = [section |-> session.section, step |-> session.step,
                sensors |-> session.sensors, pending |-> session.pending,
                zones |-> session.zones]
  /\ session.step = "sensors" =>
       session = [Idle EXCEPT !.section = session.section, !.step = "sensors"]
         /\ session.section # "zones"
  /\ session.step \in {"add", "new_zones"} => Gathering
  /\ session.step = "add" => session.zones = NoZones
  /\ session.step = "new_zones" => session.pending # <<>>
  /\ session.step = "zones" => Editing
  /\ session.step = "overlap" => Finished(session)

FlowInv == ConfSound(options) /\ ConfSound(disk) /\ SessionOK

(* The listener of a loaded entry has what to compare with. *)
ListenInv ==
  /\ phase # "down" => options.created /\ baseline = {loaded}
  /\ \A o \in {options, disk} : o.store # NoZones => o.created
  /\ reloads \in Nat
  /\ ChangeNotLost

(* The diagnoses are renewed with what they are made from, the warning     *)
(* with the diagnoses; before the start it is not raised anew.             *)
DiagnosisInv ==
  /\ phase # "down" => known = options.store
  /\ status = [z \in DOMAIN loaded.zones |->
                 Diagnosis(loaded, z, options.store, inForce[z])]
  /\ phase = "down" => ~issue
  /\ issue => NeedsAttention(DOMAIN loaded.zones, status)
  /\ phase = "running" /\ ~issue => ~NeedsAttention(DOMAIN loaded.zones, status)

----------------------------------------------------------------------------
(* Windows                                                                 *)

SeenAt(window) ==
  {window.rows[i].at : i \in {j \in DOMAIN window.rows : window.rows[j].observed}}

(* A path is accepted only of a window whose radar was observed throughout *)
(* and was there at the end: at no instant, from the start to the last,    *)
(* had it been silent for longer than stale_after (evidence.py 736-768).   *)
THEOREM AcceptedIsWatched ==
  ASSUME NEW window, window.length \in Nat,
         \A i \in DOMAIN window.rows : window.rows[i].at \in 0 .. window.length,
         NEW owned, NEW p \in Paths, Verdict(window, owned)[p] \in Accepted
  PROVE  /\ window.available
         /\ \A t \in 0 .. window.length :
              \E u \in {0} \cup SeenAt(window) : u <= t /\ t - u <= StaleAfter
<1> DEFINE end == window.length
           times == {0, end} \cup SeenAt(window)
<1>1. window.available /\ Covering(window)
  BY DEF Verdict, Accepted
<1>2. \A t \in times \ {end} : \E u \in times : t < u /\ u - t <= StaleAfter
  BY <1>1 DEF Covering, SeenAt
<1>3. times \subseteq Nat /\ \A u \in times : u <= end
  BY DEF SeenAt
<1>4. ASSUME NEW t \in 0 .. end
      PROVE  \E u \in {0} \cup SeenAt(window) : u <= t /\ t - u <= StaleAfter
  <2>1. CASE end = 0
    BY <2>1, CoverageAssumption
  <2>2. CASE end # 0
    <3> DEFINE waits == {n \in Nat : \E u \in times \ {end} : u <= t /\ n = t - u}
    <3>1. t \in waits
      BY <2>2
    <3>2. PICK n \in waits : \A m \in waits : ~(m < n)
      <4> DEFINE R == OpToRel(<, Nat)
      <4>1. IsWellFoundedOn(R, Nat) /\ \A x, y \in Nat : y < x => <<y, x>> \in R
        BY NatLessThanWellFounded DEF OpToRel
      <4> HIDE DEF R
      <4>2. waits \subseteq Nat /\ waits # {}
        BY <3>1
      <4> HIDE DEF waits
      <4>3. PICK n \in waits : \A m \in waits : ~(<<m, n>> \in R)
        BY <4>1, <4>2, WFMin
      <4> QED BY <4>1, <4>2, <4>3
    <3>3. PICK u \in times \ {end} : u <= t /\ n = t - u
      BY <3>2
    <3>4. PICK v \in times : u < v /\ v - u <= StaleAfter
      BY <1>2, <3>3
    <3>5. v \in Nat /\ u \in Nat /\ t \in Nat /\ v <= end /\ StaleAfter \in Nat
      BY <1>3, <3>3, <3>4, CoverageAssumption
    <3>6. ASSUME v <= t PROVE v = end
      <4>1. SUFFICES ASSUME v # end PROVE FALSE
        OBVIOUS
      <4>2. t - v \in waits /\ t - v < n
        BY <3>3, <3>4, <3>5, <3>6, <4>1
      <4> QED BY <3>2, <4>2
    <3>7. t - u <= StaleAfter
      BY <3>3, <3>4, <3>5, <3>6
    <3>8. u \in {0} \cup SeenAt(window)
      BY <3>3
    <3> QED BY <3>3, <3>7, <3>8
  <2> QED BY <2>1, <2>2
<1> QED BY <1>1, <1>4

----------------------------------------------------------------------------
(* Calibrations                                                            *)

LEMMA DefaultOK == OnePiece(Default)
BY EntryAssumption DEF OnePiece, Calibrations, OfOneWindow, Default, Channels, Paths

(* A commit replaces both aggregate floors, and what it keeps of a path it *)
(* keeps whole.                                                            *)
LEMMA CommittedOK ==
  ASSUME NEW cal, OnePiece(cal), NEW verdict, NEW n \in 1 .. MaxWindows,
         \A c \in Channels : verdict[<<c, "agg">>] \in Accepted
  PROVE  OnePiece(Committed(cal, verdict, n)) /\ Measured(Committed(cal, verdict, n))
<1> DEFINE new == Committed(cal, verdict, n)
           gate(c) == IF verdict[<<c, "gate">>] \in Accepted THEN n ELSE cal.gates[c]
           stat(p) == CASE verdict[p] = "calibrated" -> n
                        [] verdict[p] = "quiescent" -> 0
                        [] OTHER -> cal.stats[p]
<1>1. /\ cal.floors \in [Channels -> 0 .. MaxWindows] /\ cal.gates \in [Channels -> 0 .. MaxWindows]
      /\ cal.stats \in [Paths -> 0 .. MaxWindows]
  BY DEF OnePiece, Calibrations
<1>2. new = [floors |-> [c \in Channels |-> n], gates |-> [c \in Channels |-> gate(c)],
             stats |-> [p \in Paths |-> stat(p)]]
  BY Zenon DEF Committed
<1> n \in 0 .. MaxWindows /\ 0 \in 0 .. MaxWindows
  BY EntryAssumption
<1>3. ASSUME NEW p \in Paths
      PROVE  /\ verdict[p] = "calibrated" => stat(p) = n
             /\ verdict[p] = "quiescent" => stat(p) = 0
             /\ verdict[p] \notin Accepted => stat(p) = cal.stats[p]
             /\ stat(p) \in 0 .. MaxWindows
  BY <1>1 DEF Accepted
<1>4. ASSUME NEW c \in Channels
      PROVE  /\ verdict[<<c, "gate">>] \in Accepted => gate(c) = n
             /\ verdict[<<c, "gate">>] \notin Accepted => gate(c) = cal.gates[c]
             /\ gate(c) \in 0 .. MaxWindows
  BY <1>1
<1> HIDE DEF new, stat, gate
<1>5. new \in Calibrations
  BY <1>2, <1>3, <1>4 DEF Calibrations
<1>6. ASSUME NEW c \in Channels
      PROVE  /\ new.stats[<<c, "agg">>] \in {0, new.floors[c]}
             /\ new.stats[<<c, "gate">>] \in {0, new.gates[c]}
  <2>1. <<c, "agg">> \in Paths /\ <<c, "gate">> \in Paths
    BY DEF Paths
  <2>2. cal.stats[<<c, "gate">>] \in {0, cal.gates[c]}
    BY DEF OnePiece, OfOneWindow
  <2>3. /\ new.stats[<<c, "agg">>] = stat(<<c, "agg">>) /\ new.floors[c] = n
        /\ new.stats[<<c, "gate">>] = stat(<<c, "gate">>) /\ new.gates[c] = gate(c)
    BY <1>2, <2>1
  <2>4. stat(<<c, "agg">>) \in {0, n}
    BY <1>3, <2>1 DEF Accepted
  <2>5. stat(<<c, "gate">>) \in {0, gate(c)}
    BY <1>3, <1>4, <2>1, <2>2 DEF Accepted
  <2> QED BY <2>3, <2>4, <2>5
<1>7. new.floors["move"] = new.floors["still"]
  BY <1>2 DEF Channels
<1>8. OnePiece(new)
  BY <1>5, <1>6, <1>7 DEF OnePiece, OfOneWindow
<1>9. Measured(new)
  BY <1>2 DEF Measured
<1> QED BY <1>8, <1>9 DEF new

LEMMA AdoptedOK ==
  ASSUME NEW conf, NEW z, NEW store, StoreOK(store)
  PROVE  OnePiece(Adopted(conf, z, store))
<1>1. CASE z \notin DOMAIN store \/ ~Trusted(conf, z, store[z])
  BY <1>1, DefaultOK DEF Adopted
<1>2. CASE z \in DOMAIN store /\ Trusted(conf, z, store[z])
  <2> DEFINE cal == store[z].cal
             same == store[z].context.gates = Owned(conf.zones[z])
             keeps(p) == /\ store[z].context.stat = conf.tuning.stat
                         /\ p[2] = "gate" => same /\ cal.gates[p[1]] # 0
             new == Adopted(conf, z, store)
  <2>1. OnePiece(cal)
    BY <1>2 DEF StoreOK
  <2>2. new = [cal EXCEPT
                 !.gates = [c \in Channels |-> IF same THEN cal.gates[c] ELSE 0],
                 !.stats = [p \in Paths |-> IF keeps(p) THEN cal.stats[p] ELSE 0]]
    BY <1>2, Zenon DEF Adopted
  <2> HIDE DEF cal, same, keeps, new
  <2>3. /\ cal.floors \in [Channels -> 0 .. MaxWindows] /\ cal.gates \in [Channels -> 0 .. MaxWindows]
        /\ cal.stats \in [Paths -> 0 .. MaxWindows]
        /\ cal = [floors |-> cal.floors, gates |-> cal.gates, stats |-> cal.stats]
    BY <2>1 DEF OnePiece, Calibrations
  <2>4. /\ new.floors = cal.floors
        /\ new.gates = [c \in Channels |-> IF same THEN cal.gates[c] ELSE 0]
        /\ new.stats = [p \in Paths |-> IF keeps(p) THEN cal.stats[p] ELSE 0]
        /\ new = [floors |-> new.floors, gates |-> new.gates, stats |-> new.stats]
    BY <2>2, <2>3
  <2>5. new \in Calibrations
    BY <2>3, <2>4, EntryAssumption DEF Calibrations
  <2>6. ASSUME NEW c \in Channels
        PROVE  /\ new.stats[<<c, "agg">>] \in {0, new.floors[c]}
               /\ new.stats[<<c, "gate">>] \in {0, new.gates[c]}
    <3>1. <<c, "agg">> \in Paths /\ <<c, "gate">> \in Paths
      BY DEF Paths
    <3>2. /\ cal.stats[<<c, "agg">>] \in {0, cal.floors[c]}
          /\ cal.stats[<<c, "gate">>] \in {0, cal.gates[c]}
      BY <2>1 DEF OnePiece, OfOneWindow
    <3>3. keeps(<<c, "gate">>) => same
      BY DEF keeps
    <3> QED BY <2>4, <3>1, <3>2, <3>3
  <2>7. new.floors["move"] = new.floors["still"]
    BY <2>1, <2>4 DEF OnePiece, OfOneWindow
  <2>8. OnePiece(new)
    BY <2>5, <2>6, <2>7 DEF OnePiece, OfOneWindow
  <2> QED BY <2>8 DEF new
<1> QED BY <1>1, <1>2

(* What a window recorded is adopted again as it is, whatever the context  *)
(* says of gates nobody was ready on.                                      *)
LEMMA AdoptedAgain ==
  ASSUME NEW conf, NEW z, NEW store, NEW cal, OnePiece(cal),
         z \in DOMAIN store, store[z] = Record(conf, z, cal)
  PROVE  Adopted(conf, z, store) = cal
<1> DEFINE rec == Record(conf, z, cal)
           same == rec.context.gates = Owned(conf.zones[z])
           keeps(p) == /\ rec.context.stat = conf.tuning.stat
                       /\ p[2] = "gate" => same /\ cal.gates[p[1]] # 0
           new == Adopted(conf, z, store)
<1>1. /\ rec.cal = cal
      /\ rec.context.sensor = conf.zones[z].sensor
      /\ rec.context.floor = conf.tuning.floor
      /\ rec.context.stat = conf.tuning.stat
      /\ (\E c \in Channels : cal.gates[c] # 0) => same
  BY DEF Record, Context
<1>2. Trusted(conf, z, store[z])
  BY <1>1 DEF Trusted
<1>3. new = [cal EXCEPT
               !.gates = [c \in Channels |-> IF same THEN cal.gates[c] ELSE 0],
               !.stats = [p \in Paths |-> IF keeps(p) THEN cal.stats[p] ELSE 0]]
  <2>1. rec = store[z]
    OBVIOUS
  <2> HIDE DEF rec
  <2>2. new = [rec.cal EXCEPT
               !.gates = [c \in Channels |-> IF same THEN rec.cal.gates[c] ELSE 0],
               !.stats = [p \in Paths |->
                  IF /\ rec.context.stat = conf.tuning.stat
                     /\ p[2] = "gate" => same /\ rec.cal.gates[p[1]] # 0
                  THEN rec.cal.stats[p] ELSE 0]]
    BY <1>2, <2>1, Zenon DEF Adopted
  <2> QED BY <1>1, <2>2, Zenon
<1>4. /\ cal.floors \in [Channels -> 0 .. MaxWindows] /\ cal.gates \in [Channels -> 0 .. MaxWindows]
      /\ cal.stats \in [Paths -> 0 .. MaxWindows]
      /\ cal = [floors |-> cal.floors, gates |-> cal.gates, stats |-> cal.stats]
  BY DEF OnePiece, Calibrations
<1>5. ASSUME NEW c \in Channels
      PROVE  (IF same THEN cal.gates[c] ELSE 0) = cal.gates[c]
  BY <1>1, <1>5
<1>6. ASSUME NEW p \in Paths
      PROVE  (IF keeps(p) THEN cal.stats[p] ELSE 0) = cal.stats[p]
  <2>1. p[2] \in {"agg", "gate"} /\ p[1] \in Channels /\ p = <<p[1], p[2]>>
    BY DEF Paths
  <2>2. CASE p[2] = "gate"
    <3>1. cal.stats[p] \in {0, cal.gates[p[1]]}
      BY <2>1, <2>2, Zenon DEF OnePiece, OfOneWindow
    <3> QED BY <1>1, <2>1, <2>2, <3>1
  <2>3. CASE p[2] = "agg"
    BY <1>1, <2>3
  <2> QED BY <2>1, <2>2, <2>3
<1> HIDE DEF same, keeps, new
<1>7. /\ [c \in Channels |-> IF same THEN cal.gates[c] ELSE 0] = cal.gates
      /\ [p \in Paths |-> IF keeps(p) THEN cal.stats[p] ELSE 0] = cal.stats
  BY <1>4, <1>5, <1>6
<1>8. new = [cal EXCEPT !.gates = cal.gates, !.stats = cal.stats]
  BY <1>3, <1>7, Zenon
<1>9. new = cal
  BY <1>4, <1>8
<1> QED BY <1>9 DEF new

(* Of a zone, only what is stored of this zone is adopted. *)
LEMMA AdoptedAlone ==
  ASSUME NEW conf, NEW z, NEW store1, NEW store2,
         z \in DOMAIN store1 <=> z \in DOMAIN store2,
         z \in DOMAIN store1 => store1[z] = store2[z]
  PROVE  Adopted(conf, z, store1) = Adopted(conf, z, store2)
<1>1. CASE z \notin DOMAIN store1
  BY <1>1 DEF Adopted
<1>2. CASE z \in DOMAIN store1
  BY <1>2, Zenon DEF Adopted
<1> QED BY <1>1, <1>2

----------------------------------------------------------------------------
(* The steps                                                               *)

(* The flows write the sections they own and leave the baselines alone. *)
LEMMA FlowKeepsStore ==
  ASSUME OptionsOK(options), FlowStep
  PROVE  OptionsOK(options') /\ options'.store = options.store
<1>1. ASSUME NEW s, options' = Saved(s)
      PROVE  OptionsOK(options') /\ options'.store = options.store
  <2>1. CASE s.section = "zones"
    BY <1>1, <2>1 DEF Saved, OptionsOK
  <2>2. CASE s.section # "zones"
    <3> DEFINE zones == Over(s.zones, ZonesOf(options.zones, s.sensors))
    <3>1. options' = [options EXCEPT !.created = TRUE, !.sensors = s.sensors,
                                     !.zones = zones]
      BY <1>1, <2>2, Zenon DEF Saved
    <3> HIDE DEF zones
    <3> QED BY <3>1 DEF OptionsOK
  <2> QED BY <2>1, <2>2
<1>2. ASSUME NEW s, Finish(s)
      PROVE  OptionsOK(options') /\ options'.store = options.store
  BY <1>1, <1>2 DEF Finish, Save
<1>3. CASE options' = options
  BY <1>3
<1>4. CASE \E tuning \in Tunings : SetTuning(tuning)
  BY <1>4 DEF SetTuning, OptionsOK
<1>5. CASE \E kept \in SUBSET SensorIds, adding \in BOOLEAN : PickSensors(kept, adding)
  BY <1>1, <1>3, <1>5 DEF PickSensors, Save
<1>6. CASE \E name \in ZoneNames, form \in Forms, another \in BOOLEAN :
             NewZone(name, form, another)
  BY <1>2, <1>3, <1>6 DEF NewZone
<1>7. CASE \E name \in ZoneNames, form \in Forms : EditZone(name, form)
  BY <1>2, <1>3, <1>7 DEF EditZone
<1>8. CASE AcceptOverlap
  BY <1>1, <1>8 DEF AcceptOverlap, Save
<1> QED
  BY <1>3, <1>4, <1>5, <1>6, <1>7, <1>8
     DEF FlowStep, OpenWizard, OpenSection, AddSensor, Abandon

----------------------------------------------------------------------------
(* What the flows save                                                     *)

LEMMA ZonesOfSound ==
  ASSUME NEW zones, ZonesSound(zones), NEW sensors
  PROVE  /\ ZonesSound(ZonesOf(zones, sensors))
         /\ SensorsIn(ZonesOf(zones, sensors)) = SensorsIn(zones) \cap sensors
<1> DEFINE kept == ZonesOf(zones, sensors)
<1>1. /\ DOMAIN kept = {m \in DOMAIN zones : zones[m].sensor \in sensors}
      /\ \A n \in DOMAIN kept : kept[n] = zones[n]
  BY DEF ZonesOf
<1> HIDE DEF kept
<1>2. ZonesSound(kept) /\ SensorsIn(kept) = SensorsIn(zones) \cap sensors
  BY <1>1 DEF ZonesSound, SensorsIn
<1> QED BY <1>2 DEF kept

(* A zone that passed the form's validation *)
LEMMA WithSound ==
  ASSUME NEW zones, ZonesSound(zones), NEW name \in ZoneNames,
         name \notin DOMAIN zones, NEW form, NEW sensor,
         Valid(form, zones, sensor)
  PROVE  LET more == With(zones, name, Zone(form, sensor))
         IN  /\ ZonesSound(more)
             /\ SensorsIn(more) = SensorsIn(zones) \cup {sensor}
<1> DEFINE zone == Zone(form, sensor)
           more == With(zones, name, zone)
<1>1. /\ zone.sensor = sensor /\ zone.near = form.near /\ zone.far = form.far
      /\ zone.fallback = form.fallback
  BY DEF Zone
<1>2. /\ zone.near < zone.far
      /\ zone.fallback => \A n \in DOMAIN zones :
                            zones[n].sensor = zone.sensor => ~zones[n].fallback
  BY <1>1 DEF Valid
<1> HIDE DEF zone
<1>3. /\ DOMAIN more = DOMAIN zones \cup {name} /\ more[name] = zone
      /\ \A n \in DOMAIN zones : more[n] = zones[n]
  BY DEF With
<1> HIDE DEF more
<1>4. SensorsIn(more) = SensorsIn(zones) \cup {sensor}
  BY <1>1, <1>3 DEF SensorsIn
<1>5. ASSUME NEW m \in DOMAIN more, NEW n \in DOMAIN more,
             more[m].sensor = more[n].sensor, m # n
      PROVE  ~(more[m].fallback /\ more[n].fallback)
  <2>1. CASE m \in DOMAIN zones /\ n \in DOMAIN zones
    BY <1>3, <1>5, <2>1 DEF ZonesSound
  <2>2. CASE m = name
    BY <1>2, <1>3, <1>5, <2>2
  <2>3. CASE n = name
    BY <1>2, <1>3, <1>5, <2>3
  <2> QED BY <1>3, <2>1, <2>2, <2>3
<1>6. ZonesSound(more)
  BY <1>2, <1>3, <1>5 DEF ZonesSound
<1> QED BY <1>4, <1>6 DEF more, zone

LEMMA OverWith ==
  ASSUME NEW new, NEW old, NEW name, NEW entry
  PROVE  Over(With(new, name, entry), old) = With(Over(new, old), name, entry)
BY DEF Over, With

LEMMA OverNothing ==
  ASSUME NEW zones, NEW sensors
  PROVE  Over(NoZones, ZonesOf(zones, sensors)) = ZonesOf(zones, sensors)
BY DEF Over, NoZones, ZonesOf

LEMMA SavedSound ==
  ASSUME OptionsOK(options), ConfSound(options), NEW s, Finished(s)
  PROVE  ConfSound(Saved(s))
<1> DEFINE zones == Over(s.zones, ZonesOf(options.zones, s.sensors))
           o == Saved(s)
<1>1. CASE s.section = "zones"
  <2>1. o = [options EXCEPT !.zones = s.zones]
    BY <1>1 DEF Saved
  <2> HIDE DEF o
  <2>2. /\ o.zones = s.zones /\ o.created = options.created
        /\ o.sensors = options.sensors /\ o.tuning = options.tuning
    BY <2>1 DEF OptionsOK
  <2> QED BY <1>1, <2>2 DEF ConfSound, Finished, o
<1>2. CASE s.section # "zones"
  <2>1. o = [options EXCEPT !.created = TRUE, !.sensors = s.sensors, !.zones = zones]
    BY <1>2, Zenon DEF Saved
  <2>2. /\ s.sensors \subseteq SensorIds /\ s.sensors # {}
        /\ ZonesSound(zones) /\ SensorsIn(zones) = s.sensors
    BY <1>2, Zenon DEF Finished
  <2> HIDE DEF o, zones
  <2>3. /\ o.zones = zones /\ o.created = TRUE
        /\ o.sensors = s.sensors /\ o.tuning = options.tuning
    BY <2>1 DEF OptionsOK
  <2>4. ConfSound(o)
    BY <2>2, <2>3 DEF ConfSound
  <2> QED BY <2>4 DEF o
<1> QED BY <1>1, <1>2

LEMMA SaveSound ==
  ASSUME OptionsOK(options), ConfSound(options), NEW s, Finished(s), Save(s)
  PROVE  ConfSound(options') /\ SessionOK'
<1>1. options' = Saved(s) /\ session' = Idle
  BY DEF Save
<1>2. ConfSound(options')
  BY <1>1, SavedSound
<1>3. SessionOK'
  BY <1>1 DEF SessionOK, Idle
<1> QED BY <1>2, <1>3

(* An overlap is only warned of: what was to be saved still is. *)
LEMMA FinishSound ==
  ASSUME OptionsOK(options), ConfSound(options), NEW s, Finished(s), Finish(s),
         s = [section |-> s.section, step |-> s.step, sensors |-> s.sensors,
              pending |-> s.pending, zones |-> s.zones]
  PROVE  ConfSound(options') /\ SessionOK'
<1>1. CASE Save(s)
  BY <1>1, SaveSound
<1>2. CASE session' = [s EXCEPT !.step = "overlap"] /\ UNCHANGED options
  <2>1. /\ session'.section = s.section /\ session'.sensors = s.sensors
        /\ session'.zones = s.zones /\ session'.step = "overlap"
        /\ session' = [section |-> session'.section, step |-> session'.step,
                       sensors |-> session'.sensors, pending |-> session'.pending,
                       zones |-> session'.zones]
    BY <1>2
  <2>2. Finished(session)'
    BY <1>2, <2>1 DEF Finished
  <2>3. SessionOK'
    BY <2>1, <2>2 DEF SessionOK
  <2> QED BY <1>2, <2>3
<1> QED BY <1>1, <1>2 DEF Finish

LEMMA TailOf ==
  ASSUME NEW S, NEW q \in Seq(S), q # <<>>
  PROVE  /\ Tail(q) \in Seq(S) /\ Len(Tail(q)) = Len(q) - 1
         /\ \A i \in 2 .. Len(q) : Tail(q)[i - 1] = q[i]
<1>1. Len(q) \in Nat \ {0}
  OBVIOUS
<1>2. Tail(q) \in Seq(S) /\ Len(Tail(q)) = Len(q) - 1
  BY <1>1
<1>3. ASSUME NEW i \in 2 .. Len(q)
      PROVE  Tail(q)[i - 1] = q[i]
  BY <1>1, <1>2
<1> QED BY <1>2, <1>3

LEMMA PickSensorsSound ==
  ASSUME OptionsOK(options), ConfSound(options), SessionOK,
         NEW kept, NEW adding, PickSensors(kept, adding)
  PROVE  ConfSound(options') /\ SessionOK'
<1> DEFINE picked == [session EXCEPT !.sensors = kept, !.step = "add"]
           stored == ZonesOf(options.zones, kept)
<1>1. /\ session = [Idle EXCEPT !.section = session.section, !.step = "sensors"]
      /\ session.section # "zones"
      /\ kept \subseteq options.sensors /\ (kept # {} \/ adding)
  BY DEF PickSensors, SessionOK
<1>2. /\ picked.section = session.section /\ picked.sensors = kept
      /\ picked.step = "add" /\ picked.zones = NoZones /\ picked.pending = <<>>
      /\ picked = [section |-> picked.section, step |-> picked.step,
                   sensors |-> picked.sensors, pending |-> picked.pending,
                   zones |-> picked.zones]
  <2>1. session = [section |-> session.section, step |-> "sensors", sensors |-> {},
                   pending |-> <<>>, zones |-> NoZones]
    BY <1>1, Zenon DEF Idle, SessionOK
  <2>2. session.pending = <<>> /\ session.zones = NoZones
    BY <2>1
  <2>3. session = [section |-> session.section, step |-> session.step,
                   sensors |-> session.sensors, pending |-> session.pending,
                   zones |-> session.zones]
    BY Zenon DEF SessionOK
  <2>4. picked = [session EXCEPT !.sensors = kept, !.step = "add"]
    OBVIOUS
  <2> HIDE DEF picked
  <2> QED BY <2>2, <2>3, <2>4
<1> HIDE DEF picked
<1>3. Over(picked.zones, ZonesOf(options.zones, picked.sensors)) = stored
  BY <1>2, OverNothing
<1>4. /\ ZonesSound(stored) /\ SensorsIn(stored) = kept
      /\ kept \subseteq SensorIds
  <2>1. ZonesSound(stored) /\ SensorsIn(stored) = SensorsIn(options.zones) \cap kept
    BY ZonesOfSound DEF ConfSound
  <2> HIDE DEF stored
  <2> QED BY <1>1, <2>1 DEF ConfSound
<1>5. CASE adding
  <2>1. session' = picked /\ options' = options
    BY <1>5 DEF PickSensors, picked
  <2>2. ExistingZones' = stored
    BY <1>2, <1>3, <2>1 DEF ExistingZones, KeptZones
  <2> HIDE DEF stored
  <2>3. /\ session'.section # "zones" /\ session'.sensors = kept
        /\ session'.pending = <<>>
    BY <1>1, <1>2, <2>1
  <2>4. session'.pending \in Seq(session'.sensors)
    BY <2>3
  <2>5. Gathering'
    BY <1>4, <2>2, <2>3, <2>4, Zenon DEF Gathering
  <2>6. SessionOK'
    BY <1>2, <2>1, <2>5 DEF SessionOK
  <2> QED BY <2>1, <2>6
<1>6. CASE ~adding
  <2>1. Save(picked)
    BY <1>6 DEF PickSensors, picked
  <2>2. Finished(picked)
    BY <1>1, <1>2, <1>3, <1>4, <1>6 DEF Finished
  <2> QED BY <2>1, <2>2, SaveSound
<1> QED BY <1>5, <1>6

LEMMA AddSensorSound ==
  ASSUME ConfSound(options), SessionOK, NEW id \in SensorIds, NEW another,
         AddSensor(id, another)
  PROVE  ConfSound(options') /\ SessionOK'
<1> DEFINE sensors == session.sensors \cup {id}
           pending == Append(session.pending, id)
           step == IF another THEN "add" ELSE "new_zones"
<1>1. /\ Gathering /\ session.zones = NoZones
      /\ session' = [session EXCEPT !.sensors = sensors, !.pending = pending,
                                    !.step = step]
      /\ options' = options
  BY DEF AddSensor, SessionOK
<1>2. /\ session'.section = session.section /\ session'.sensors = sensors
      /\ session'.pending = pending /\ session'.zones = NoZones
      /\ session'.step = step /\ step \in {"add", "new_zones"}
      /\ session' = [section |-> session'.section, step |-> session'.step,
                     sensors |-> session'.sensors, pending |-> session'.pending,
                     zones |-> session'.zones]
  <2> HIDE DEF sensors, pending
  <2> QED BY <1>1 DEF SessionOK
<1>3. /\ session.pending \in Seq(session.sensors)
      /\ session.sensors \subseteq SensorIds /\ session.section # "zones"
      /\ \A s \in session.sensors :
           \/ s \in SensorsIn(ExistingZones)
           \/ \E i \in 1 .. Len(session.pending) : session.pending[i] = s
  BY <1>1 DEF Gathering
<1>4. /\ session.pending \in Seq(sensors) /\ pending \in Seq(sensors)
      /\ pending # <<>> /\ Len(pending) = Len(session.pending) + 1
      /\ Len(session.pending) \in Nat
      /\ pending[Len(session.pending) + 1] = id
      /\ \A i \in 1 .. Len(session.pending) : pending[i] = session.pending[i]
  BY <1>3
<1>5. /\ ExistingZones = ZonesOf(options.zones, session.sensors)
      /\ ExistingZones' = ZonesOf(options.zones, sensors)
  BY <1>1, <1>2, OverNothing DEF ExistingZones, KeptZones
<1>6. /\ ZonesSound(ExistingZones')
      /\ SensorsIn(ExistingZones) = options.sensors \cap session.sensors
      /\ SensorsIn(ExistingZones') = options.sensors \cap sensors
  BY <1>5, ZonesOfSound DEF ConfSound
<1>7. ASSUME NEW s \in sensors, s \notin options.sensors
      PROVE  \E i \in 1 .. Len(pending) : pending[i] = s
  <2>1. CASE s = id
    BY <1>4, <2>1
  <2>2. CASE s # id
    <3>1. PICK i \in 1 .. Len(session.pending) : session.pending[i] = s
      BY <1>3, <1>6, <1>7, <2>2
    <3>2. i \in 1 .. Len(pending) /\ pending[i] = s
      BY <1>4, <3>1
    <3> QED BY <3>2
  <2> QED BY <2>1, <2>2
<1>8. sensors \subseteq SensorIds
  BY <1>3
<1> HIDE DEF sensors, pending, step
<1>9. Gathering'
  BY <1>2, <1>3, <1>4, <1>6, <1>7, <1>8 DEF Gathering
<1>10. SessionOK'
  BY <1>2, <1>4, <1>9 DEF SessionOK
<1> QED BY <1>1, <1>10

LEMMA NewZoneSound ==
  ASSUME OptionsOK(options), ConfSound(options), SessionOK,
         NEW name \in ZoneNames, NEW form, NEW another,
         NewZone(name, form, another)
  PROVE  ConfSound(options') /\ SessionOK'
<1> DEFINE sensor == Head(session.pending)
           zones == With(session.zones, name, Zone(form, sensor))
           pending == IF another THEN session.pending ELSE Tail(session.pending)
           zoned == [session EXCEPT !.zones = zones, !.pending = pending]
           all == With(ExistingZones, name, Zone(form, sensor))
<1>1. /\ Gathering /\ session.pending # <<>> /\ session.step = "new_zones"
      /\ name \notin DOMAIN ExistingZones /\ Valid(form, ExistingZones, sensor)
  BY DEF NewZone, SessionOK
<1>2. IF zoned.pending # <<>> THEN session' = zoned /\ UNCHANGED options
                              ELSE Finish(zoned)
  BY Zenon DEF NewZone
<1>3. /\ session.pending \in Seq(session.sensors)
      /\ session.sensors \subseteq SensorIds /\ session.section # "zones"
      /\ ZonesSound(ExistingZones)
      /\ SensorsIn(ExistingZones) \subseteq session.sensors
      /\ \A s \in session.sensors :
           \/ s \in SensorsIn(ExistingZones)
           \/ \E i \in 1 .. Len(session.pending) : session.pending[i] = s
  BY <1>1 DEF Gathering
<1>4. /\ sensor \in session.sensors
      /\ pending \in Seq(session.sensors)
      /\ \A i \in 1 .. Len(session.pending) :
           \/ session.pending[i] = sensor
           \/ \E j \in 1 .. Len(pending) : pending[j] = session.pending[i]
  <2>1. sensor = session.pending[1] /\ Len(session.pending) \in Nat \ {0}
    BY <1>1, <1>3
  <2>2. CASE another
    BY <1>1, <1>3, <2>1, <2>2
  <2>3. CASE ~another
    <3>1. /\ pending \in Seq(session.sensors)
          /\ Len(pending) = Len(session.pending) - 1
          /\ \A i \in 2 .. Len(session.pending) : pending[i - 1] = session.pending[i]
      <4>1. pending = Tail(session.pending)
        BY <2>3
      <4> HIDE DEF pending
      <4> QED BY <1>1, <1>3, <4>1, TailOf
    <3> HIDE DEF pending
    <3>2. ASSUME NEW i \in 1 .. Len(session.pending), i # 1
          PROVE  \E j \in 1 .. Len(pending) : pending[j] = session.pending[i]
      <4>1. i - 1 \in 1 .. Len(pending) /\ pending[i - 1] = session.pending[i]
        BY <2>1, <3>1, <3>2
      <4> QED BY <4>1
    <3> QED BY <1>3, <2>1, <3>1, <3>2
  <2> QED BY <2>2, <2>3
<1> HIDE DEF sensor, pending
<1>5. /\ zoned.section = session.section /\ zoned.sensors = session.sensors
      /\ zoned.pending = pending /\ zoned.zones = zones
      /\ zoned.step = session.step
      /\ zoned = [section |-> zoned.section, step |-> zoned.step,
                  sensors |-> zoned.sensors, pending |-> zoned.pending,
                  zones |-> zoned.zones]
  <2>1. session = [section |-> session.section, step |-> session.step,
                   sensors |-> session.sensors, pending |-> session.pending,
                   zones |-> session.zones]
    BY DEF SessionOK
  <2>2. zoned = [session EXCEPT !.zones = zones, !.pending = pending]
    OBVIOUS
  <2> HIDE DEF zones, zoned
  <2> QED BY <2>1, <2>2
<1> HIDE DEF zoned
<1>6. Over(zoned.zones, ZonesOf(options.zones, zoned.sensors)) = all
  BY <1>5, OverWith DEF ExistingZones, KeptZones
<1>7. ZonesSound(all) /\ SensorsIn(all) = SensorsIn(ExistingZones) \cup {sensor}
  BY <1>1, <1>3, WithSound
<1> HIDE DEF all, zones
<1>8. SensorsIn(all) \subseteq session.sensors
  BY <1>3, <1>4, <1>7
<1>9. \A s \in session.sensors :
        \/ s \in SensorsIn(all)
        \/ \E i \in 1 .. Len(pending) : pending[i] = s
  BY <1>3, <1>4, <1>7
<1>10. CASE zoned.pending # <<>>
  <2>1. session' = zoned /\ options' = options
    BY <1>2, <1>10
  <2>2. ExistingZones' = all
    BY <1>6, <2>1 DEF ExistingZones, KeptZones
  <2>3. Gathering'
    BY <1>3, <1>4, <1>5, <1>7, <1>8, <1>9, <2>1, <2>2 DEF Gathering
  <2>4. SessionOK'
    BY <1>1, <1>5, <1>10, <2>1, <2>3 DEF SessionOK
  <2> QED BY <2>1, <2>4
<1>11. CASE zoned.pending = <<>>
  <2>1. Finish(zoned)
    BY <1>2, <1>11
  <2>2. Len(pending) = 0
    BY <1>5, <1>11
  <2>3. SensorsIn(all) = session.sensors
    <3>1. \A i \in 1 .. Len(pending) : FALSE
      BY <2>2
    <3> QED BY <1>8, <1>9, <3>1
  <2>4. Finished(zoned)
    BY <1>3, <1>4, <1>5, <1>6, <1>7, <2>3 DEF Finished
  <2> QED BY <1>5, <2>1, <2>4, FinishSound
<1> QED BY <1>10, <1>11

LEMMA EditZoneSound ==
  ASSUME OptionsOK(options), ConfSound(options), SessionOK,
         NEW name \in ZoneNames, NEW form, EditZone(name, form)
  PROVE  ConfSound(options') /\ SessionOK'
<1> DEFINE sensor == options.zones[name].sensor
           zone == Zone(form, sensor)
           zones == With(session.zones, name, zone)
           zoned == [session EXCEPT !.zones = zones]
<1>1. /\ Editing /\ session.step = "zones"
      /\ name \in DOMAIN options.zones /\ name \notin DOMAIN session.zones
      /\ Valid(form, session.zones, sensor)
  BY DEF EditZone, SessionOK
<1>2. IF DOMAIN zoned.zones # DOMAIN options.zones
      THEN session' = zoned /\ UNCHANGED options ELSE Finish(zoned)
  BY Zenon DEF EditZone
<1>3. /\ session.section = "zones" /\ options.created
      /\ ZonesSound(session.zones)
      /\ \A n \in DOMAIN session.zones :
           /\ n \in DOMAIN options.zones
           /\ session.zones[n].sensor = options.zones[n].sensor
  BY <1>1 DEF Editing
<1>4. ZonesSound(zones)
  BY <1>1, <1>3, WithSound
<1>5. zone.sensor = sensor
  BY DEF Zone
<1> HIDE DEF zone, sensor
<1>6. \A n \in DOMAIN zones :
        /\ n \in DOMAIN options.zones
        /\ zones[n].sensor = options.zones[n].sensor
  BY <1>1, <1>3, <1>5 DEF With, sensor
<1> HIDE DEF zones
<1>7. /\ zoned.section = "zones" /\ zoned.zones = zones /\ zoned.step = "zones"
      /\ zoned = [section |-> zoned.section, step |-> zoned.step,
                  sensors |-> zoned.sensors, pending |-> zoned.pending,
                  zones |-> zoned.zones]
  BY <1>1, <1>3 DEF SessionOK
<1> HIDE DEF zoned
<1>8. CASE DOMAIN zoned.zones # DOMAIN options.zones
  <2>1. session' = zoned /\ options' = options
    BY <1>2, <1>8
  <2>2. Editing'
    BY <1>3, <1>4, <1>6, <1>7, <2>1 DEF Editing
  <2>3. SessionOK'
    BY <1>7, <2>1, <2>2 DEF SessionOK
  <2> QED BY <2>1, <2>3
<1>9. CASE DOMAIN zoned.zones = DOMAIN options.zones
  <2>1. Finish(zoned)
    BY <1>2, <1>9
  <2>2. SensorsIn(zones) = options.sensors
    BY <1>6, <1>7, <1>9 DEF SensorsIn, ConfSound
  <2>3. Finished(zoned)
    BY <1>3, <1>4, <1>7, <2>2 DEF Finished
  <2> QED BY <1>7, <2>1, <2>3, FinishSound
<1> QED BY <1>8, <1>9

LEMMA FlowStepSound ==
  ASSUME OptionsOK(options), ConfSound(options), SessionOK, FlowStep
  PROVE  ConfSound(options') /\ SessionOK'
<1> DEFINE Goal == ConfSound(options') /\ SessionOK'
<1>1. ASSUME OpenWizard PROVE Goal
  BY <1>1 DEF OpenWizard, SessionOK, Idle
<1>2. ASSUME NEW section \in {"sensors", "zones", "tunables"}, OpenSection(section)
      PROVE  Goal
  <2>1. /\ session' = [Idle EXCEPT !.section = section, !.step = section]
        /\ options' = options /\ options.created
    BY <1>2 DEF OpenSection
  <2>2. /\ session'.section = section /\ session'.step = section
        /\ session'.zones = NoZones
        /\ session' = [section |-> session'.section, step |-> session'.step,
                       sensors |-> session'.sensors, pending |-> session'.pending,
                       zones |-> session'.zones]
        /\ session' = [Idle EXCEPT !.section = session'.section, !.step = session'.step]
    BY <2>1 DEF Idle
  <2>3. section = "zones" => Editing'
    BY <2>1, <2>2 DEF Editing, NoZones, ZonesSound
  <2>4. SessionOK'
    BY <2>2, <2>3 DEF SessionOK
  <2> QED BY <2>1, <2>4
<1>3. ASSUME NEW kept, NEW adding, PickSensors(kept, adding) PROVE Goal
  BY <1>3, PickSensorsSound
<1>4. ASSUME NEW id \in SensorIds, NEW another, AddSensor(id, another) PROVE Goal
  BY <1>4, AddSensorSound
<1>5. ASSUME NEW name \in ZoneNames, NEW form, NEW another,
             NewZone(name, form, another)
      PROVE  Goal
  BY <1>5, NewZoneSound
<1>6. ASSUME NEW name \in ZoneNames, NEW form, EditZone(name, form) PROVE Goal
  BY <1>6, EditZoneSound
<1>7. ASSUME AcceptOverlap PROVE Goal
  BY <1>7, SaveSound DEF AcceptOverlap, SessionOK
<1>8. ASSUME NEW tuning \in Tunings, SetTuning(tuning) PROVE Goal
  <2>1. /\ options' = [options EXCEPT !.tuning = tuning] /\ session' = Idle
        /\ tuning.gapMin < tuning.gapMax
    BY <1>8 DEF SetTuning
  <2>2. /\ options'.created = options.created /\ options'.sensors = options.sensors
        /\ options'.zones = options.zones /\ options'.tuning = tuning
    BY <2>1 DEF OptionsOK
  <2>3. ConfSound(options')
    BY <2>1, <2>2 DEF ConfSound
  <2>4. SessionOK'
    BY <2>1 DEF SessionOK, Idle
  <2> QED BY <2>3, <2>4
<1>9. ASSUME Abandon PROVE Goal
  BY <1>9 DEF Abandon, SessionOK, Idle
<1> HIDE DEF Goal
<1>10. Goal
  BY <1>1, <1>2, <1>3, <1>4, <1>5, <1>6, <1>7, <1>8, <1>9, Zenon DEF FlowStep
<1> QED BY <1>10 DEF Goal

(* What a zone is in force with is of one piece. *)
LEMMA InForceOnePiece ==
  ASSUME IInv
  PROVE  /\ DOMAIN inForce = DOMAIN loaded.zones
         /\ \A z \in DOMAIN inForce : /\ inForce[z] = Adopted(loaded, z, options.store)
                                     /\ OnePiece(inForce[z])
<1>1. /\ DOMAIN inForce = DOMAIN loaded.zones
      /\ \A z \in DOMAIN inForce : inForce[z] = Adopted(loaded, z, options.store)
  BY DEF IInv, InForceStored
<1>2. StoreOK(options.store)
  BY DEF IInv, OptionsOK
<1> QED BY <1>1, <1>2, AdoptedOK

(* A window either commits a calibration of one piece, which is stored of  *)
(* its zone and adopted from there again, or leaves everything as it was.  *)
LEMMA CloseWindowKeeps ==
  ASSUME IInv, NEW z, NEW w, CloseWindow(z, w)
  PROVE  IInv' /\ Survive
<1> DEFINE zone == loaded.zones[z]
           verdict == Assessed[w][zone.sensor][Owned(zone)]
           success == \A p \in Required(loaded, z) : verdict[p] \in Accepted
           cal == Committed(inForce[z], verdict, committed + 1)
<1>1. /\ z \in DOMAIN inForce /\ OnePiece(inForce[z])
      /\ DOMAIN inForce = DOMAIN loaded.zones
      /\ z \in recording \ recording'
  BY InForceOnePiece DEF CloseWindow, IInv
<1>2. /\ recording' \subseteq DOMAIN loaded'.zones
      /\ phase' = "down" => recording' = {}
      /\ disk' = disk /\ loaded' = loaded
  BY DEF CloseWindow, IInv
<1>3. CASE success
  <2>1. /\ committed' = committed + 1
        /\ inForce' = [inForce EXCEPT ![z] = cal]
        /\ options' = [options EXCEPT !.store = Persisted(z, cal)]
    BY <1>3, Zenon DEF CloseWindow
  <2>2. \A c \in Channels : verdict[<<c, "agg">>] \in Accepted
    <3>1. \A c \in Channels : <<c, "agg">> \in Required(loaded, z)
      BY DEF Required, Paths
    <3> QED BY <1>3, <3>1
  <2>3. committed + 1 \in 1 .. MaxWindows
    <3>1. committed < MaxWindows
      BY Zenon DEF CloseWindow
    <3> QED BY <3>1, EntryAssumption DEF IInv
  <2>4. OnePiece(cal) /\ Measured(cal)
    <3> HIDE DEF verdict
    <3> QED BY <1>1, <2>2, <2>3, CommittedOK
  <2> HIDE DEF cal, success, verdict
  <2>5. /\ options'.store = Persisted(z, cal)
        /\ options' = [created |-> options'.created, sensors |-> options'.sensors,
                       zones |-> options'.zones, tuning |-> options'.tuning,
                       store |-> options'.store]
    BY <2>1 DEF IInv, OptionsOK
  <2>6. /\ DOMAIN options'.store = DOMAIN options.store \cup {z}
        /\ options'.store[z] = Record(loaded, z, cal)
        /\ \A y \in DOMAIN options.store \ {z} : options'.store[y] = options.store[y]
    BY <2>5 DEF Persisted, With
  <2>7. StoreOK(options.store)
    BY DEF IInv, OptionsOK
  <2>8. OptionsOK(options')
    <3>1. options'.store[z].cal = cal
      BY <2>6 DEF Record
    <3> QED BY <2>4, <2>5, <2>6, <2>7, <3>1 DEF OptionsOK, StoreOK
  <2>9. Adopted(loaded, z, options'.store) = cal
    BY <2>4, <2>6, AdoptedAgain
  <2>10. ASSUME NEW y, y # z
         PROVE  Adopted(loaded, y, options'.store) = Adopted(loaded, y, options.store)
    BY <2>6, <2>10, AdoptedAlone
  <2>11. InForceStored'
    <3>1. inForce = [y \in DOMAIN loaded.zones |-> Adopted(loaded, y, options.store)]
      BY DEF IInv, InForceStored
    <3>2. inForce' = [y \in DOMAIN loaded.zones |-> Adopted(loaded, y, options'.store)]
      BY <1>1, <2>1, <2>9, <2>10, <3>1
    <3> QED BY <1>2, <3>2 DEF InForceStored
  <2>12. IInv'
    BY <1>2, <2>1, <2>3, <2>8, <2>11 DEF IInv
  <2>13. Survive
    BY <1>1, <2>1, <2>6 DEF Survive
  <2> QED BY <2>12, <2>13
<1>4. CASE ~success
  <2>1. UNCHANGED <<committed, inForce, options>>
    BY <1>4, Zenon DEF CloseWindow
  <2> QED BY <1>2, <2>1 DEF IInv, InForceStored, Survive
<1> QED BY <1>3, <1>4

LEMMA InitIInv == Init => IInv
<1> SUFFICES ASSUME Init PROVE IInv
  OBVIOUS
<1>1. OptionsOK(options) /\ OptionsOK(disk)
  BY DEF Init, OptionsOK, StoreOK, NoOptions, NoZones
<1>2. InForceStored
  BY DEF Init, InForceStored, Conf, NoOptions, NoZones
<1>3. recording = {} /\ committed \in 0 .. MaxWindows
  BY EntryAssumption DEF Init
<1> QED BY <1>1, <1>2, <1>3 DEF IInv

(* A step that drops what the controller runs on *)
LEMMA DroppedKeeps ==
  ASSUME Dropped
  PROVE  InForceStored' /\ recording' = {}
BY DEF Dropped, InForceStored, Conf, NoOptions, NoZones

LEMMA NextKeeps == IInv /\ [Next]_vars => IInv' /\ Survive
<1> SUFFICES ASSUME IInv, [Next]_vars PROVE IInv' /\ Survive
  OBVIOUS
<1>1. CASE Flow
  <2>1. OptionsOK(options') /\ options'.store = options.store
    BY <1>1, FlowKeepsStore DEF Flow, IInv
  <2>2. UNCHANGED <<disk, phase, loaded, inForce, recording, committed>>
    BY <1>1 DEF Flow
  <2> QED BY <2>1, <2>2 DEF IInv, InForceStored, Survive
<1>2. CASE Setup
  <2>1. InForceStored'
    BY <1>2 DEF Setup, InForceStored, Conf
  <2>2. recording' \subseteq DOMAIN loaded'.zones
    BY <1>2 DEF Setup, Conf, IInv
  <2> QED BY <1>2, <2>1, <2>2 DEF Setup, IInv, Survive
<1>3. CASE Forwarded
  BY <1>3 DEF Forwarded, IInv, InForceStored, Survive
<1>4. CASE Started
  BY <1>4 DEF Started, IInv, InForceStored, Survive
<1>5. CASE Unload
  BY <1>5 DEF Unload, IInv, InForceStored, Survive
<1>6. CASE Unloaded
  BY <1>6, DroppedKeeps DEF Unloaded, IInv, Survive
<1>7. CASE \E z \in ZoneNames : OpenWindow(z)
  BY <1>7 DEF OpenWindow, IInv, InForceStored, Survive
<1>8. CASE \E z \in ZoneNames, w \in Windows : CloseWindow(z, w)
  BY <1>8, CloseWindowKeeps
<1>9. CASE Flush
  BY <1>9 DEF Flush, IInv, InForceStored, Survive
<1>10. CASE Restart
  BY <1>10, DroppedKeeps DEF Restart, IInv, Survive, Dropped
<1>11. CASE UNCHANGED vars
  BY <1>11 DEF vars, IInv, InForceStored, Survive
<1> QED
  BY <1>1, <1>2, <1>3, <1>4, <1>5, <1>6, <1>7, <1>8, <1>9, <1>10, <1>11 DEF Next

LEMMA SpecIInv == Spec => []IInv
BY InitIInv, NextKeeps, PTL DEF Spec

----------------------------------------------------------------------------
(* What is saved, heard and told                                           *)

(* A committed window writes the baselines only. *)
LEMMA CloseWindowWrites ==
  ASSUME OptionsOK(options), NEW z, NEW w, CloseWindow(z, w)
  PROVE  /\ options'.created = options.created /\ options'.sensors = options.sensors
         /\ options'.zones = options.zones /\ options'.tuning = options.tuning
<1>1. CASE options' = options
  BY <1>1
<1>2. ASSUME NEW store, options' = [options EXCEPT !.store = store]
      PROVE  /\ options'.created = options.created /\ options'.sensors = options.sensors
             /\ options'.zones = options.zones /\ options'.tuning = options.tuning
  BY <1>2 DEF OptionsOK
<1>3. \/ options' = options
      \/ \E cal : options' = [options EXCEPT !.store = Persisted(z, cal)]
  BY Zenon DEF CloseWindow
<1> QED BY <1>1, <1>2, <1>3

LEMMA SessionKept ==
  ASSUME SessionOK, session' = session, options'.created = options.created,
         options'.sensors = options.sensors, options'.zones = options.zones
  PROVE  SessionOK'
<1>1. ExistingZones' = ExistingZones
  BY DEF ExistingZones, KeptZones
<1>2. Gathering => Gathering'
  BY <1>1 DEF Gathering
<1>3. Editing => Editing'
  BY DEF Editing
<1>4. Finished(session) => Finished(session)'
  BY DEF Finished
<1> QED BY <1>2, <1>3, <1>4 DEF SessionOK

LEMMA InitFlowInv == Init => FlowInv
<1> SUFFICES ASSUME Init PROVE FlowInv
  OBVIOUS
<1>1. /\ NoOptions.created = FALSE /\ NoOptions.sensors = {}
      /\ NoOptions.zones = NoZones /\ NoOptions.tuning = DefaultTuning
      /\ DOMAIN NoZones = {}
  BY DEF NoOptions, NoZones
<1>2. ConfSound(NoOptions)
  <2> HIDE DEF NoOptions
  <2> QED BY <1>1, OptionsFlowAssumption DEF ConfSound, SensorsIn, ZonesSound
<1>3. SessionOK
  BY DEF Init, SessionOK, Idle
<1> QED BY <1>2, <1>3 DEF Init, FlowInv

LEMMA NextFlowInv == IInv /\ FlowInv /\ [Next]_vars => FlowInv'
<1> SUFFICES ASSUME IInv, FlowInv, [Next]_vars PROVE FlowInv'
  OBVIOUS
<1>1. OptionsOK(options)
  BY DEF IInv
<1>2. ASSUME UNCHANGED <<options, session, disk>> PROVE FlowInv'
  BY <1>2, SessionKept DEF FlowInv
<1>3. ASSUME Flow PROVE FlowInv'
  BY <1>1, <1>3, FlowStepSound DEF Flow, FlowInv
<1>4. ASSUME NEW z, NEW w, CloseWindow(z, w) PROVE FlowInv'
  <2>1. session' = session /\ disk' = disk
    BY <1>4, Zenon DEF CloseWindow
  <2>2. SessionOK'
    BY <1>1, <1>4, <2>1, CloseWindowWrites, SessionKept DEF FlowInv
  <2>3. ConfSound(options')
    BY <1>1, <1>4, CloseWindowWrites DEF FlowInv, ConfSound
  <2> QED BY <2>1, <2>2, <2>3 DEF FlowInv
<1>5. ASSUME Flush PROVE FlowInv'
  BY <1>5, SessionKept DEF Flush, FlowInv
<1>6. ASSUME Restart PROVE FlowInv'
  BY <1>6 DEF Restart, FlowInv, SessionOK, Idle
<1>7. ASSUME NEW z, OpenWindow(z) PROVE FlowInv'
  BY <1>2, <1>7 DEF OpenWindow
<1>8. ASSUME Setup \/ Forwarded \/ Started \/ Unload \/ Unloaded \/ UNCHANGED vars
      PROVE  FlowInv'
  BY <1>2, <1>8 DEF Setup, Forwarded, Started, Unload, Unloaded, vars
<1> QED BY <1>3, <1>4, <1>5, <1>6, <1>7, <1>8, Zenon DEF Next

(* The entry, once created, stays. *)
LEMMA FlowKeepsEntry ==
  ASSUME OptionsOK(options), FlowStep, options.created
  PROVE  options'.created
<1>1. ASSUME NEW s, options' = Saved(s)
      PROVE  options'.created
  <2>1. CASE s.section = "zones"
    BY <1>1, <2>1 DEF Saved, OptionsOK
  <2>2. CASE s.section # "zones"
    <3> DEFINE zones == Over(s.zones, ZonesOf(options.zones, s.sensors))
    <3>1. options' = [options EXCEPT !.created = TRUE, !.sensors = s.sensors,
                                     !.zones = zones]
      BY <1>1, <2>2, Zenon DEF Saved
    <3> HIDE DEF zones
    <3> QED BY <3>1 DEF OptionsOK
  <2> QED BY <2>1, <2>2
<1>2. ASSUME NEW s, Finish(s) PROVE options'.created
  BY <1>1, <1>2 DEF Finish, Save
<1>3. CASE options' = options
  BY <1>3
<1>4. CASE \E tuning \in Tunings : SetTuning(tuning)
  BY <1>4 DEF SetTuning, OptionsOK
<1>5. CASE \E kept \in SUBSET SensorIds, adding \in BOOLEAN : PickSensors(kept, adding)
  BY <1>1, <1>3, <1>5 DEF PickSensors, Save
<1>6. CASE \E name \in ZoneNames, form \in Forms, another \in BOOLEAN :
             NewZone(name, form, another)
  BY <1>2, <1>3, <1>6 DEF NewZone
<1>7. CASE \E name \in ZoneNames, form \in Forms : EditZone(name, form)
  BY <1>2, <1>3, <1>7 DEF EditZone
<1>8. CASE AcceptOverlap
  BY <1>1, <1>8 DEF AcceptOverlap, Save
<1> QED
  BY <1>3, <1>4, <1>5, <1>6, <1>7, <1>8
     DEF FlowStep, OpenWizard, OpenSection, AddSensor, Abandon

(* What the listener hears of, it compares with what is loaded. *)
LEMMA Heard ==
  ASSUME ListenInv, NEW opts
  PROVE  /\ OptionsUpdated(opts) \in Nat /\ OptionsUpdated(opts) >= reloads
         /\ phase # "down" /\ Conf(opts) # loaded => OptionsUpdated(opts) > 0
BY DEF ListenInv, OptionsUpdated

LEMMA NextListenInv == IInv /\ ListenInv /\ [Next]_vars => ListenInv'
<1> SUFFICES ASSUME IInv, ListenInv, [Next]_vars PROVE ListenInv'
  OBVIOUS
<1>1. OptionsOK(options)
  BY DEF IInv
<1>2. ASSUME Flow PROVE ListenInv'
  <2>1. FlowStep /\ UNCHANGED <<disk, phase, loaded, baseline>>
    BY <1>2 DEF Flow
  <2>2. /\ options'.store = options.store
        /\ options.created => options'.created
    BY <1>1, <2>1, FlowKeepsStore, FlowKeepsEntry
  <2>3. \/ options' = options /\ reloads' = reloads
        \/ reloads' = OptionsUpdated(options')
    BY <1>2 DEF Flow
  <2>4. reloads' \in Nat
    BY <2>3, Heard DEF ListenInv
  <2>5. ChangeNotLost'
    <3>1. CASE options' = options /\ reloads' = reloads
      BY <2>1, <3>1 DEF ListenInv, ChangeNotLost
    <3>2. CASE reloads' = OptionsUpdated(options')
      BY <2>1, <3>2, Heard DEF ChangeNotLost
    <3> QED BY <2>3, <3>1, <3>2
  <2> QED BY <2>1, <2>2, <2>4, <2>5 DEF ListenInv
<1>3. ASSUME NEW z, NEW w, CloseWindow(z, w) PROVE ListenInv'
  <2>1. /\ UNCHANGED <<disk, phase, loaded, baseline>>
        /\ phase # "down"
        /\ reloads' = reloads \/ reloads' = OptionsUpdated(options')
    <3>1. /\ z \in recording /\ UNCHANGED <<disk, phase, loaded, baseline>>
          /\ reloads' = reloads \/ reloads' = OptionsUpdated(options')
      BY <1>3, Zenon DEF CloseWindow
    <3> QED BY <3>1 DEF IInv
  <2>2. options'.created = options.created /\ Conf(options') = Conf(options)
    BY <1>1, <1>3, CloseWindowWrites DEF Conf
  <2>3. reloads' \in Nat /\ reloads' >= reloads
    BY <2>1, Heard DEF ListenInv
  <2>4. ChangeNotLost'
    BY <2>1, <2>2, <2>3 DEF ListenInv, ChangeNotLost
  <2> QED BY <2>1, <2>2, <2>3, <2>4 DEF ListenInv
<1>4. ASSUME Setup PROVE ListenInv'
  BY <1>4 DEF Setup, ListenInv, ChangeNotLost
<1>5. ASSUME Forwarded \/ Started PROVE ListenInv'
  BY <1>5 DEF Forwarded, Started, ListenInv, ChangeNotLost
<1>6. ASSUME Unload PROVE ListenInv'
  BY <1>6 DEF Unload, ListenInv, ChangeNotLost
<1>7. ASSUME Unloaded PROVE ListenInv'
  BY <1>7 DEF Unloaded, Dropped, ListenInv, ChangeNotLost
<1>8. ASSUME NEW z, OpenWindow(z) PROVE ListenInv'
  BY <1>8 DEF OpenWindow, ListenInv, ChangeNotLost
<1>9. ASSUME Flush PROVE ListenInv'
  BY <1>9 DEF Flush, ListenInv, ChangeNotLost
<1>10. ASSUME Restart PROVE ListenInv'
  BY <1>10 DEF Restart, Dropped, ListenInv, ChangeNotLost
<1>11. ASSUME UNCHANGED vars PROVE ListenInv'
  BY <1>11 DEF vars, ListenInv, ChangeNotLost
<1> QED
  BY <1>2, <1>3, <1>4, <1>5, <1>6, <1>7, <1>8, <1>9, <1>10, <1>11, Zenon DEF Next

LEMMA InitListenInv == Init => ListenInv
BY DEF Init, ListenInv, ChangeNotLost, NoOptions

(* A zone is diagnosed from what is stored of it and what it runs on. *)
LEMMA DiagnosisAlone ==
  ASSUME NEW conf, NEW z, NEW store1, NEW store2, NEW cal,
         z \in DOMAIN store1 <=> z \in DOMAIN store2,
         z \in DOMAIN store1 => store1[z] = store2[z]
  PROVE  Diagnosis(conf, z, store1, cal) = Diagnosis(conf, z, store2, cal)
<1>1. CASE z \notin DOMAIN store1
  <2>1. z \notin DOMAIN store2
    BY <1>1
  <2>2. Diagnosis(conf, z, store1, cal) = "uncalibrated"
    BY <1>1, Zenon DEF Diagnosis
  <2>3. Diagnosis(conf, z, store2, cal) = "uncalibrated"
    BY <2>1, Zenon DEF Diagnosis
  <2> QED BY <2>2, <2>3
<1>2. CASE z \in DOMAIN store1
  BY <1>2, Zenon DEF Diagnosis
<1> QED BY <1>1, <1>2

LEMMA NextDiagnosisInv == IInv /\ DiagnosisInv /\ [Next]_vars => DiagnosisInv'
<1> SUFFICES ASSUME IInv, DiagnosisInv, [Next]_vars PROVE DiagnosisInv'
  OBVIOUS
<1>1. ASSUME Dropped PROVE DiagnosisInv'
  BY <1>1 DEF Dropped, DiagnosisInv, Conf, NoOptions, NoZones
<1>2. ASSUME Flow PROVE DiagnosisInv'
  <2>1. options'.store = options.store
    BY <1>2, FlowKeepsStore DEF Flow, IInv
  <2> QED BY <1>2, <2>1 DEF Flow, DiagnosisInv
<1>3. ASSUME NEW z, NEW w, CloseWindow(z, w) PROVE DiagnosisInv'
  <2>1. z \in recording /\ UNCHANGED <<phase, loaded>>
    BY <1>3, Zenon DEF CloseWindow
  <2>2. phase # "down" /\ z \in DOMAIN loaded.zones /\ known = options.store
    BY <2>1 DEF IInv, DiagnosisInv
  <2>3. CASE UNCHANGED <<inForce, options, known, status, issue>>
    BY <2>1, <2>3 DEF DiagnosisInv
  <2>4. ASSUME NEW cal,
               inForce' = [inForce EXCEPT ![z] = cal],
               options' = [options EXCEPT !.store = Persisted(z, cal)],
               known' = With(known, z, Record(loaded, z, cal)),
               status' = Diagnosed(z, known', cal),
               issue' = NeedsAttention(DOMAIN loaded.zones, status')
        PROVE  DiagnosisInv'
    <3>1. options'.store = Persisted(z, cal)
      BY <2>4 DEF IInv, OptionsOK
    <3>2. known' = options'.store
      BY <2>2, <2>4, <3>1 DEF Persisted
    <3>3. \A y : y # z =>
            Diagnosis(loaded, y, options'.store, inForce[y])
              = Diagnosis(loaded, y, options.store, inForce[y])
      <4>1. /\ DOMAIN options'.store = DOMAIN options.store \cup {z}
            /\ \A y \in DOMAIN options.store \ {z} : options'.store[y] = options.store[y]
        BY <3>1 DEF Persisted, With
      <4> QED BY <4>1, DiagnosisAlone
    <3>4. DOMAIN inForce = DOMAIN loaded.zones
      BY InForceOnePiece
    <3>5. status' = [y \in DOMAIN loaded.zones |->
                       Diagnosis(loaded, y, options'.store, inForce'[y])]
      <4>1. status = [y \in DOMAIN loaded.zones |->
                        Diagnosis(loaded, y, options.store, inForce[y])]
        BY DEF DiagnosisInv
      <4>2. status' = [status EXCEPT ![z] = Diagnosis(loaded, z, options'.store, cal)]
        BY <2>4, <3>2 DEF Diagnosed
      <4>3. /\ inForce'[z] = cal
            /\ \A y \in DOMAIN loaded.zones : y # z => inForce'[y] = inForce[y]
        BY <2>2, <2>4, <3>4
      <4> QED BY <2>2, <3>3, <4>1, <4>2, <4>3
    <3> QED BY <2>1, <2>2, <2>4, <3>2, <3>5 DEF DiagnosisInv
  <2> QED BY <1>3, <2>3, <2>4, Zenon DEF CloseWindow
<1>4. ASSUME Setup PROVE DiagnosisInv'
  BY <1>4 DEF Setup, DiagnosisInv, Conf
<1>5. ASSUME Forwarded PROVE DiagnosisInv'
  BY <1>5 DEF Forwarded, DiagnosisInv
<1>6. ASSUME Started PROVE DiagnosisInv'
  BY <1>6 DEF Started, DiagnosisInv
<1>7. ASSUME Unload PROVE DiagnosisInv'
  BY <1>7 DEF Unload, DiagnosisInv
<1>8. ASSUME NEW z, OpenWindow(z) PROVE DiagnosisInv'
  BY <1>8 DEF OpenWindow, DiagnosisInv
<1>9. ASSUME Flush PROVE DiagnosisInv'
  BY <1>9 DEF Flush, DiagnosisInv
<1>10. ASSUME Unloaded \/ Restart PROVE DiagnosisInv'
  BY <1>1, <1>10 DEF Unloaded, Restart
<1>11. ASSUME UNCHANGED vars PROVE DiagnosisInv'
  BY <1>11 DEF vars, DiagnosisInv
<1> QED
  BY <1>2, <1>3, <1>4, <1>5, <1>6, <1>7, <1>8, <1>9, <1>10, <1>11, Zenon DEF Next

LEMMA InitDiagnosisInv == Init => DiagnosisInv
BY DEF Init, DiagnosisInv, Conf, NoOptions, NoZones

EntryInv == IInv /\ FlowInv /\ ListenInv /\ DiagnosisInv

LEMMA SpecEntryInv == Spec => []EntryInv
<1>1. Init => EntryInv
  BY InitIInv, InitFlowInv, InitListenInv, InitDiagnosisInv DEF EntryInv
<1>2. EntryInv /\ [Next]_vars => EntryInv'
  BY NextKeeps, NextFlowInv, NextListenInv, NextDiagnosisInv DEF EntryInv
<1> QED BY <1>1, <1>2, PTL DEF Spec

(* A ready zone runs on what is stored of it. *)
LEMMA ReadyIsReady ==
  ASSUME NEW conf, NEW z, NEW store, NEW cal, StoreOK(store),
         Diagnosis(conf, z, store, cal) = "ready", cal = Adopted(conf, z, store)
  PROVE  /\ \A c \in Channels : cal.floors[c] # 0
         /\ GatesRequested(conf, z) =>
              \A c \in GatesConfigured(conf, z) : cal.gates[c] # 0
<1>1. z \in DOMAIN store
  <2>1. z \notin DOMAIN store => Diagnosis(conf, z, store, cal) = "uncalibrated"
    BY Zenon DEF Diagnosis
  <2> QED BY <2>1
<1>2. Trusted(conf, z, store[z]) /\ ~GateReasons(conf, z, store[z], cal)
  <2> DEFINE amiss == \/ ~Trusted(conf, z, store[z])
                      \/ GateReasons(conf, z, store[z], cal)
  <2>1. amiss => Diagnosis(conf, z, store, cal) = "recalibration_required"
    BY <1>1, Zenon DEF Diagnosis
  <2> QED BY <2>1
<1>3. cal.floors = store[z].cal.floors
  <2>1. OnePiece(store[z].cal)
    BY <1>1 DEF StoreOK
  <2>2. \E gates, stats :
          cal = [store[z].cal EXCEPT !.gates = gates, !.stats = stats]
    BY <1>1, <1>2, Zenon DEF Adopted
  <2>3. store[z].cal = [floors |-> store[z].cal.floors, gates |-> store[z].cal.gates,
                        stats |-> store[z].cal.stats]
    BY <2>1 DEF OnePiece, Calibrations
  <2> QED BY <2>2, <2>3
<1>4. \A c \in Channels : cal.floors[c] # 0
  BY <1>1, <1>3 DEF StoreOK, Measured
<1> QED BY <1>2, <1>4 DEF GateReasons

----------------------------------------------------------------------------

(* A statistic in force or stored is of the window of its floor, and the   *)
(* two aggregate floors of a zone are of one window (on_baseline_end       *)
(* 774-798, engine._seed 133-171): for any windows and edits.              *)
THEOREM OfOnePieceForever == Spec => []StatsMatchFloors
<1>1. IInv => StatsMatchFloors
  <2> SUFFICES ASSUME IInv PROVE StatsMatchFloors
    OBVIOUS
  <2>1. \A z \in DOMAIN inForce : OfOneWindow(inForce[z])
    BY InForceOnePiece DEF OnePiece
  <2>2. \A z \in DOMAIN options.store : OfOneWindow(options.store[z].cal)
    BY DEF IInv, OptionsOK, StoreOK, OnePiece
  <2> QED BY <2>1, <2>2 DEF StatsMatchFloors
<1> QED BY <1>1, SpecIInv, PTL

(* While the saved settings are those it was built from, a controller runs *)
(* on what a new setup would adopt (persist 319-350, engine._seed): any    *)
(* number of windows after its start.                                      *)
THEOREM RestartIsNeutral == Spec => []RestartChangesNothing
<1>1. IInv => RestartChangesNothing
  BY InForceOnePiece DEF RestartChangesNothing
<1> QED BY <1>1, SpecIInv, PTL

(* Only a committed window and a restart ever change the stored baselines, *)
(* the window those of its zone alone (_save 446-453, persist 322 and 369).*)
THEOREM BaselinesOutlive == Spec => BaselinesSurvive
<1>1. IInv /\ [Next]_vars => [Survive]_vars
  BY NextKeeps
<1> QED BY <1>1, SpecIInv, PTL DEF Spec, BaselinesSurvive

(* The types of the entry's state: baselines only of an entry there is,    *)
(* each zone of the running controller diagnosed and calibrated, and the   *)
(* reload baseline what the controller was built from (__init__.py 83-125).*)
THEOREM EntryTypeCorrect == Spec => []EntryTypeOK
<1>1. EntryInv => EntryTypeOK
  <2> SUFFICES ASSUME EntryInv PROVE EntryTypeOK
    OBVIOUS
  <2>1. ASSUME NEW opts \in {options, disk}
        PROVE  /\ opts.created \in BOOLEAN /\ opts.sensors \subseteq SensorIds
               /\ DOMAIN opts.zones \subseteq ZoneNames /\ opts.tuning \in Tunings
               /\ \A z \in DOMAIN opts.store : opts.store[z].cal \in Calibrations
               /\ opts.store # NoZones => opts.created
    <3>1. OptionsOK(opts) /\ ConfSound(opts) /\ (opts.store # NoZones => opts.created)
      BY DEF EntryInv, IInv, FlowInv, ListenInv
    <3> QED BY <3>1 DEF OptionsOK, StoreOK, OnePiece, ConfSound, ZonesSound
  <2>2. /\ DOMAIN inForce = DOMAIN loaded.zones
        /\ \A z \in DOMAIN inForce : inForce[z] \in Calibrations
    BY InForceOnePiece DEF EntryInv, OnePiece
  <2>3. DOMAIN status = DOMAIN loaded.zones
    BY DEF EntryInv, DiagnosisInv
  <2>4. recording \subseteq DOMAIN loaded.zones
    BY DEF EntryInv, IInv
  <2>5. Serving => baseline = {loaded}
    BY DEF EntryInv, ListenInv, Serving
  <2> QED BY <2>1, <2>2, <2>3, <2>4, <2>5 DEF EntryTypeOK
<1> QED BY <1>1, SpecEntryInv, PTL

(* Whatever sessions of the flows were opened, left and saved, in whatever *)
(* order, the entry can be set up from what is saved (config_flow._save    *)
(* 446-453, _validate_zone, const.py 1-41).                                *)
THEOREM SavedConfIsSound == Spec => []SavedConfSound
<1>1. EntryInv => SavedConfSound
  BY DEF EntryInv, FlowInv, ConfSound, ZonesSound, SensorsIn, SavedConfSound
<1> QED BY <1>1, SpecEntryInv, PTL

(* What is told of a calibration is so, after any windows, edits, reloads  *)
(* and restarts (_diagnose_zone, persist 369-375, sync_issue 289-312).     *)
THEOREM DiagnosisIsTrue == Spec => []DiagnosisTrue
<1>1. EntryInv => DiagnosisTrue
  <2> SUFFICES ASSUME EntryInv PROVE DiagnosisTrue
    OBVIOUS
  <2>1. ASSUME NEW z \in DOMAIN status
        PROVE  /\ status[z] = Diagnosis(loaded, z, options.store, inForce[z])
               /\ status[z] = "ready" =>
                    /\ \A c \in Channels : inForce[z].floors[c] # 0
                    /\ GatesRequested(loaded, z) =>
                         \A c \in GatesConfigured(loaded, z) : inForce[z].gates[c] # 0
    <3>1. /\ z \in DOMAIN loaded.zones
          /\ status[z] = Diagnosis(loaded, z, options.store, inForce[z])
      BY DEF EntryInv, DiagnosisInv
    <3>2. inForce[z] = Adopted(loaded, z, options.store)
      BY <3>1, InForceOnePiece DEF EntryInv
    <3>3. StoreOK(options.store)
      BY DEF EntryInv, IInv, OptionsOK
    <3> QED BY <3>1, <3>2, <3>3, ReadyIsReady
  <2>2. /\ phase \in {"running", "unloading"} /\ issue =>
             NeedsAttention(DOMAIN loaded.zones, status)
        /\ phase = "running" /\ ~issue => ~NeedsAttention(DOMAIN loaded.zones, status)
    BY DEF EntryInv, DiagnosisInv
  <2> QED BY <2>1, <2>2 DEF DiagnosisTrue
<1> QED BY <1>1, SpecEntryInv, PTL

(* A controller that runs on other settings than those saved is about to   *)
(* be reloaded (__init__._async_options_updated), wherever in its setup or *)
(* reload they were saved.                                                 *)
THEOREM NoChangeIsLost == Spec => []ChangeNotLost
<1>1. EntryInv => ChangeNotLost
  BY DEF EntryInv, ListenInv
<1> QED BY <1>1, SpecEntryInv, PTL
=============================================================================
