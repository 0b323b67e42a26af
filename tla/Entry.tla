-------------------------------- MODULE Entry --------------------------------
(***************************************************************************)
(* The life of the config entry: setup, reload and unload (__init__.py),   *)
(* the calibration a window commits and persists (core/evidence.py,        *)
(* calibration.py) and the one a setup adopts (core/engine._seed), while   *)
(* the operator edits the options (module OptionsFlow).                    *)
(*                                                                         *)
(* A floor or a statistic is named by the number of the window it came     *)
(* from, 0 being the default floor and the analytic statistic.  Home       *)
(* Assistant keeps the options in memory and writes them to disk later.    *)
(***************************************************************************)
EXTENDS OptionsFlow, Coverage

CONSTANTS
  GateEntities,     \* per sensor, the channels with gate entities
  GateCount,        \* gates of a radar; a zone is measured in gates
  Windows,          \* what a calibration window may have collected
  MaxWindows,       \* bound: committed windows
  MaxSaves          \* bound: changes saved by the flows

ASSUME EntryAssumption ==
  /\ GateEntities \in [SensorIds -> SUBSET Channels]
  /\ GateCount \in Nat /\ MaxWindows \in Nat /\ MaxSaves \in Nat

VARIABLES
  disk,        \* the options as last written out
  phase,       \* of the entry: down, setup, waiting, running or unloading
  loaded,      \* the options the running controller was built from
  inForce,     \* per zone, the floors, gate families and statistics in use
  recording,   \* the zones with an open window
  known,       \* CalibrationManager._known_baselines
  status,      \* CalibrationManager._diagnostics
  issue,       \* the Repairs warning is raised
  committed,   \* how many windows have committed
  baseline,    \* hass.data[DATA_RELOAD_BASELINE], empty when popped
  reloads,     \* reloads that wait for the entry
  saves        \* how many changes the flows have saved

vars == <<options, session, disk, phase, loaded, inForce, recording, known,
          status, issue, committed, baseline, reloads, saves>>

NoOptions == [created |-> FALSE, sensors |-> {}, zones |-> NoZones,
              tuning |-> DefaultTuning, store |-> NoZones]

(* _reload_relevant: the options without the baselines *)
Conf(opts) == [sensors |-> opts.sensors, zones |-> opts.zones,
               tuning |-> opts.tuning]

(* gating.owned_gates, gates being one unit long *)
Owned(zone) == {g \in 0 .. GateCount - 1 : g < zone.far /\ g + 1 > zone.near}

----------------------------------------------------------------------------
(* Baselines: what is stored of a zone and what a setup adopts of it       *)

Default == [floors |-> [c \in Channels |-> 0], gates |-> [c \in Channels |-> 0],
            stats |-> [p \in Paths |-> 0]]

(* The context a record was made in; the gates are listed only if any      *)
(* family was ready (persist 349).                                         *)
Context(conf, z, cal) ==
  [sensor |-> conf.zones[z].sensor, floor |-> conf.tuning.floor,
   stat |-> conf.tuning.stat,
   gates |-> IF \E c \in Channels : cal.gates[c] # 0
             THEN Owned(conf.zones[z]) ELSE {}]

(* A mutant of Record: a gate family is stored only beside the other one. *)
RecordPaired(conf, z, cal) ==
  LET both == \A c \in Channels : cal.gates[c] # 0
  IN  [cal |-> [cal EXCEPT !.gates = IF both THEN @ ELSE Default.gates],
       context |-> Context(conf, z, cal)]

Record(conf, z, cal) == [cal |-> cal, context |-> Context(conf, z, cal)]

Trusted(conf, z, rec) ==
  /\ rec.context.sensor = conf.zones[z].sensor
  /\ rec.context.floor = conf.tuning.floor

(* engine._seed 107-171: floors of the same sensor and floor settings, a   *)
(* gate family of the very gates the zone owns, a statistic of the same    *)
(* transform on a path that is in use.                                     *)
Adopted(conf, z, store) ==
  IF z \notin DOMAIN store \/ ~Trusted(conf, z, store[z]) THEN Default
  ELSE LET cal == store[z].cal
           same == store[z].context.gates = Owned(conf.zones[z])
       IN  [cal EXCEPT
              !.gates = [c \in Channels |-> IF same THEN @[c] ELSE 0],
              !.stats = [p \in Paths |->
                 IF /\ store[z].context.stat = conf.tuning.stat
                    /\ p[2] = "gate" => same /\ cal.gates[p[1]] # 0
                 THEN @[p] ELSE 0]]

----------------------------------------------------------------------------
(* Diagnosis (calibration._diagnose_zone)                                  *)

GatesRequested(conf, z) == conf.tuning.useGates /\ Owned(conf.zones[z]) # {}
GatesConfigured(conf, z) == GateEntities[conf.zones[z].sensor]

(* The conditions under which a reason is added to a recorded baseline *)
GateReasons(conf, z, rec, cal) ==
  /\ GatesRequested(conf, z)
  /\ \/ GatesConfigured(conf, z) = {}
     \/ /\ Trusted(conf, z, rec)
        /\ rec.context.gates # Owned(conf.zones[z])
     \/ \E c \in GatesConfigured(conf, z) : cal.gates[c] = 0

StatReasons(conf, z, rec) ==
  /\ Trusted(conf, z, rec)
  /\ \E p \in Paths :
       /\ p[2] = "gate" => GatesRequested(conf, z) /\ p[1] \in GatesConfigured(conf, z)
       /\ rec.cal.stats[p] # 0
       /\ \/ rec.context.stat # conf.tuning.stat
          \/ p[2] = "gate" /\ rec.context.gates # Owned(conf.zones[z])

Diagnosis(conf, z, store, cal) ==
  CASE z \notin DOMAIN store -> "uncalibrated"
    [] z \in DOMAIN store
         /\ (\/ ~Trusted(conf, z, store[z])
             \/ GateReasons(conf, z, store[z], cal)
             \/ StatReasons(conf, z, store[z])) -> "recalibration_required"
    [] OTHER -> "ready"

NeedsAttention(zones, diagnoses) == \E z \in zones : diagnoses[z] # "ready"

----------------------------------------------------------------------------
(* Closing a window (evidence.on_baseline_end, calibration.persist)        *)

(* What the window's rows show of a sensor: gates only where it has them *)
Collected(w, s) ==
  [w EXCEPT !.rows = [i \in DOMAIN @ |->
     [@[i] EXCEPT !.gates = [c \in Channels |->
        IF c \in GateEntities[s] THEN @[c] ELSE <<>>]]]]

VerdictsOn(w, s) ==
  [gates \in SUBSET (0 .. GateCount - 1) |-> Verdict(Collected(w, s), gates)]

(* The verdict on every window for every zone there can be *)
Assessed == [w \in Windows |-> [s \in SensorIds |-> VerdictsOn(w, s)]]

Required(conf, z) ==
  {p \in Paths : \/ p[2] = "agg"
                 \/ GatesRequested(conf, z) /\ p[1] \in GatesConfigured(conf, z)}

(* A mutant of Committed: a statistic outlives the floor it was taken over. *)
CommittedStatsKept(cal, verdict, n) ==
  [floors |-> [c \in Channels |-> n],
   gates |-> [c \in Channels |->
      IF verdict[<<c, "gate">>] \in Accepted THEN n ELSE cal.gates[c]],
   stats |-> [p \in Paths |->
      IF verdict[p] = "calibrated" THEN n ELSE cal.stats[p]]]

(* Both aggregate floors are replaced, a gate family only where accepted,  *)
(* and a quiescent path goes back to its analytic statistic (775-798).     *)
Committed(cal, verdict, n) ==
  [floors |-> [c \in Channels |-> n],
   gates |-> [c \in Channels |->
      IF verdict[<<c, "gate">>] \in Accepted THEN n ELSE cal.gates[c]],
   stats |-> [p \in Paths |->
      CASE verdict[p] = "calibrated" -> n
        [] verdict[p] = "quiescent" -> 0
        [] OTHER -> cal.stats[p]]]

(* A mutant of Diagnosed: the diagnosis of a committed zone is not renewed. *)
DiagnosedLate(z, store, cal) == status

Diagnosed(z, store, cal) ==
  [status EXCEPT ![z] = Diagnosis(loaded, z, store, cal)]

(* A mutant of OptionsUpdated: only an entry whose setup is over reloads. *)
OptionsUpdatedLoaded(opts) ==
  IF phase \in {"down", "setup"} \/ baseline = {Conf(opts)}
  THEN reloads ELSE reloads + 1

(* _async_options_updated, a listener of the loaded entry whose task Home  *)
(* Assistant starts with the save: reload unless only baselines changed    *)
OptionsUpdated(opts) ==
  IF phase = "down" \/ baseline = {Conf(opts)} THEN reloads ELSE reloads + 1

OpenWindow(z) ==
  /\ phase \in {"setup", "waiting", "running", "unloading"}
  /\ z \in DOMAIN loaded.zones /\ committed < MaxWindows
  /\ recording' = recording \cup {z}
  /\ UNCHANGED <<options, session, disk, phase, loaded, inForce, known, status,
                 issue, committed, baseline, reloads, saves>>

(* A mutant of Persisted: only the zones of this run are written. *)
PersistedAlone(z, cal) == [y \in {z} |-> Record(loaded, z, cal)]

(* calibration.persist: the committed zone over the others as stored now *)
Persisted(z, cal) == With(options.store, z, Record(loaded, z, cal))

(* No rows are sampled before the tick clock starts. *)
CloseWindow(z, w) ==
  LET zone == loaded.zones[z]
      verdict == Assessed[w][zone.sensor][Owned(zone)]
      success == \A p \in Required(loaded, z) : verdict[p] \in Accepted
      cal == Committed(inForce[z], verdict, committed + 1)
  IN  /\ z \in recording /\ committed < MaxWindows
      /\ phase \in {"setup", "waiting"} => w.rows = <<>>
      /\ recording' = recording \ {z}
      /\ IF success
         THEN /\ committed' = committed + 1
              /\ inForce' = [inForce EXCEPT ![z] = cal]
              /\ options' = [options EXCEPT !.store = Persisted(z, cal)]
              /\ known' = With(known, z, Record(loaded, z, cal))
              /\ status' = Diagnosed(z, known', cal)
              /\ issue' = NeedsAttention(DOMAIN loaded.zones, status')
              /\ reloads' = OptionsUpdated(options')
         ELSE UNCHANGED <<committed, inForce, options, known, status, issue, reloads>>
      /\ UNCHANGED <<session, disk, phase, loaded, baseline, saves>>

----------------------------------------------------------------------------
(* Setup, start and unload                                                 *)

(* async_setup_entry up to the platforms: controller, engine and listener *)
Setup ==
  /\ phase = "down" /\ options.created
  /\ loaded' = Conf(options)
  /\ baseline' = {Conf(options)}
  /\ inForce' = [z \in DOMAIN options.zones |->
                   Adopted(Conf(options), z, options.store)]
  /\ known' = options.store
  /\ status' = [z \in DOMAIN options.zones |->
                  Diagnosis(Conf(options), z, options.store, inForce'[z])]
  /\ phase' = "setup"
  /\ UNCHANGED <<options, session, disk, recording, issue, committed, reloads, saves>>

(* The platforms are set up; the controller waits for Home Assistant. *)
Forwarded ==
  /\ phase = "setup" /\ phase' = "waiting"
  /\ UNCHANGED <<options, session, disk, loaded, inForce, recording, known, status,
                 issue, committed, baseline, reloads, saves>>

Started ==
  /\ phase = "waiting" /\ phase' = "running"
  /\ issue' = NeedsAttention(DOMAIN loaded.zones, status)
  /\ UNCHANGED <<options, session, disk, loaded, inForce, recording, known, status,
                 committed, baseline, reloads, saves>>

(* A reload takes the entry's lock: the platforms are unloaded first, while *)
(* the controller still runs.                                              *)
Unload ==
  /\ phase \in {"waiting", "running"} /\ reloads > 0
  /\ phase' = "unloading" /\ reloads' = reloads - 1
  /\ UNCHANGED <<options, session, disk, loaded, inForce, recording, known, status,
                 issue, committed, baseline, saves>>

(* A mutant of Dropped: the windows of the stopped controller live on. *)
DroppedWindowsKept ==
  /\ phase' = "down" /\ issue' = FALSE /\ baseline' = {}
  /\ loaded' = Conf(NoOptions)
  /\ inForce' = NoZones /\ known' = NoZones /\ status' = NoZones
  /\ UNCHANGED recording

(* Without a controller there is nothing that runs on a calibration. *)
Dropped ==
  /\ phase' = "down" /\ recording' = {} /\ issue' = FALSE /\ baseline' = {}
  /\ loaded' = Conf(NoOptions)
  /\ inForce' = NoZones /\ known' = NoZones /\ status' = NoZones

(* The controller stops with its timers and windows, then all is dropped. *)
Unloaded ==
  /\ phase = "unloading" /\ Dropped
  /\ UNCHANGED <<options, session, disk, committed, reloads, saves>>

----------------------------------------------------------------------------
(* A step of a flow; the listener hears of changed options. *)
Flow ==
  /\ saves < MaxSaves /\ FlowStep
  /\ IF options' # options
     THEN saves' = saves + 1 /\ reloads' = OptionsUpdated(options')
     ELSE UNCHANGED <<saves, reloads>>
  /\ UNCHANGED <<disk, phase, loaded, inForce, recording, known, status, issue,
                 committed, baseline>>

Flush ==
  /\ disk # options /\ disk' = options
  /\ UNCHANGED <<options, session, phase, loaded, inForce, recording, known, status,
                 issue, committed, baseline, reloads, saves>>

(* The process ends, with or without notice: what was not written is lost. *)
Restart ==
  /\ phase # "down"
  /\ options' = disk /\ session' = Idle /\ Dropped
  /\ reloads' = 0
  /\ saves' = IF disk.created THEN saves ELSE 0
  /\ UNCHANGED <<disk, committed>>

Init ==
  /\ options = NoOptions /\ disk = NoOptions
  /\ session = Idle
  /\ phase = "down" /\ loaded = Conf(NoOptions)
  /\ inForce = NoZones /\ known = NoZones /\ status = NoZones
  /\ recording = {} /\ issue = FALSE /\ committed = 0
  /\ baseline = {} /\ reloads = 0 /\ saves = 0

Next ==
  \/ Flow
  \/ Setup \/ Forwarded \/ Started \/ Unload \/ Unloaded
  \/ \E z \in ZoneNames : OpenWindow(z)
  \/ \E z \in ZoneNames, w \in Windows : CloseWindow(z, w)
  \/ Flush \/ Restart

Spec == Init /\ [][Next]_vars

----------------------------------------------------------------------------
(* Properties                                                              *)

Serving == phase \in {"waiting", "running", "unloading"}

Calibrations ==
  [floors : [Channels -> 0 .. MaxWindows], gates : [Channels -> 0 .. MaxWindows],
   stats : [Paths -> 0 .. MaxWindows]]

EntryTypeOK ==
  /\ \A opts \in {options, disk} :
       /\ opts.created \in BOOLEAN /\ opts.sensors \subseteq SensorIds
       /\ DOMAIN opts.zones \subseteq ZoneNames /\ opts.tuning \in Tunings
       /\ \A z \in DOMAIN opts.store : opts.store[z].cal \in Calibrations
       /\ opts.store # NoZones => opts.created
  /\ DOMAIN inForce = DOMAIN status
  /\ \A z \in DOMAIN inForce : inForce[z] \in Calibrations
  /\ recording \subseteq DOMAIN loaded.zones
  /\ Serving => DOMAIN inForce = DOMAIN loaded.zones /\ baseline = {loaded}

(* What the controller works with is what a restart would work with: as    *)
(* long as the settings are those it was built from, a new setup adopts    *)
(* from the stored baselines the floors, families and statistics of the    *)
(* windows that are in force, whatever was committed since (persist,       *)
(* _seed).  How far background adaptation has moved their values since is  *)
(* not in the model.                                                       *)
RestartChangesNothing ==
  Serving /\ Conf(options) = loaded =>
    \A z \in DOMAIN inForce : inForce[z] = Adopted(loaded, z, options.store)

(* A statistic is only ever scored against the floor it was taken over,    *)
(* and the two aggregate floors of a zone are of one window: no rejected   *)
(* path, no change of settings and no restart leaves a mixture (3.7).      *)
OfOneWindow(cal) ==
  /\ cal.floors["move"] = cal.floors["still"]
  /\ \A c \in Channels :
       /\ cal.stats[<<c, "agg">>] \in {0, cal.floors[c]}
       /\ cal.stats[<<c, "gate">>] \in {0, cal.gates[c]}

StatsMatchFloors ==
  /\ \A z \in DOMAIN inForce : OfOneWindow(inForce[z])
  /\ \A z \in DOMAIN options.store : OfOneWindow(options.store[z].cal)

(* Baselines survive everything but a window: no flow, setup, reload or    *)
(* rejected window touches them, a committed window changes its own zone   *)
(* only, and a restart goes back to what was written out (_save 446-453,   *)
(* persist 322 and 369, on_baseline_end 774).                              *)
Survive ==
  options'.store # options.store =>
    \/ options'.store = disk.store /\ phase' = "down"
    \/ \E z \in recording \ recording' :
         /\ committed' = committed + 1
         /\ DOMAIN options'.store = DOMAIN options.store \cup {z}
         /\ \A y \in DOMAIN options.store \ {z} :
              options'.store[y] = options.store[y]

BaselinesSurvive == [][Survive]_vars

(* What the operator is told is so: a zone's diagnosis is the one its      *)
(* stored baseline deserves now, a ready zone has a recorded floor and     *)
(* every family it was asked for in force, and once the controller has     *)
(* started the warning is raised exactly while some zone is not ready.     *)
DiagnosisTrue ==
  /\ Serving => \A z \in DOMAIN status :
       /\ status[z] = Diagnosis(loaded, z, options.store, inForce[z])
       /\ status[z] = "ready" =>
            /\ \A c \in Channels : inForce[z].floors[c] # 0
            /\ GatesRequested(loaded, z) =>
                 \A c \in GatesConfigured(loaded, z) : inForce[z].gates[c] # 0
  /\ phase \in {"running", "unloading"} /\ issue =>
       NeedsAttention(DOMAIN loaded.zones, status)
  /\ phase = "running" /\ ~issue => ~NeedsAttention(DOMAIN loaded.zones, status)

(* No edit is lost: a controller that runs on other settings than those    *)
(* that are saved is about to be reloaded, wherever in its setup, unload   *)
(* or reload the edit was saved (_async_options_updated).                  *)
ChangeNotLost ==
  phase \in {"setup", "waiting", "running"} /\ loaded # Conf(options) =>
    reloads > 0
=============================================================================
