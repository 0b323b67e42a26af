# Presence Conductor in TLA+

Presence Conductor is a Home Assistant integration that turns the reports of
mmWave radars into zone occupancy, activity, room state and home presence. Its
core (`custom_components/presence_conductor/core/`) is a synchronous engine
without clock or I/O: every call carries the current time and returns a plan of
timers and events for the adapter to carry out. `docs/ENGINE_SPEC.md` numbers
the rules the code cites (1.1 to 8.7); the modules here are translated from the
code and cite the rules for orientation.

Paths below are relative to `custom_components/presence_conductor/`.

## 1. The system

| Component | State | Operations | Correct when |
|---|---|---|---|
| **Sensor views** `observation.py`, `discovery.py` | per radar the cached flags, distances, energies, gates, availability and four observation counters | `update` on an entity's report, `frame`, `build_view`, `build_initial_snapshot` | a counter moves exactly when that quantity was measured; a rebuilt view starts over |
| **Controller** `controller.py` | the views, the callbacks of the pending timers, the tick subscription | `_on_entity_measurement`, `submit`, `_on_started`, tick, timer callbacks, `_apply_plan`, `async_stop` | availability reaches the engine before the frame; timers of the engine and of the adapter agree |
| **Engine** `core/engine.py`, `events.py` | `EngineState`, `_last_advance`, `_home_on`, the pending keys | `_seed`, `start`, `submit`, `on_timer`, `_advance`, `_on_frame` | every call first integrates the time passed, then applies its effect, then refreshes the fusion |
| **Evidence** `core/evidence.py`, `gating.py`, `stats.py` | scores per zone, observation times per sensor, floors and calibrated statistics | `apply_frame`, `ingest_frame`, `evidence_rate`, `on_record_baseline`, `on_baseline_end`, `_adapt_background` | an observation counts once and for its budget only; a calibrated zone stays pinned; a window commits wholly or not at all |
| **Occupancy filter** `core/filter.py`, `belief.py` | belief `lam`, latch `occupied`, the attack chain, `motion` | `advance_zone`, `set_lambda`, `on_frame`, `on_motion_off` | latch and belief agree; an attack rests on spaced candidates; motion ends |
| **Health** `core/health.py` | `health` per zone, `last_frame_at`, the watchdog | `on_frame`, `on_availability`, `on_stale` | no trusted zone is unwatched; blind zones hold their outputs |
| **Activity** `core/activity.py` | `activity`, `occupied_since`, dominance clocks | `on_occupied`, `on_vacated`, `tick_zone` | activity, latch and starting time agree; a traversal is announced once |
| **Fusion** `core/fusion.py` | rooms (recomputed), `lam_home`, `_home_on` | `refresh` | blind zones are left out; the home fades only while it is seen empty |
| **Timers and plan** `core/timers.py`, `plan.py` | the pending keys, the plan under construction | start, cancel, emit | restart replaces; disabled plans emit only control events |
| **Calibration store** `calibration.py` | baselines in the entry's options, `_known_baselines`, the diagnosis per zone, the Repairs issue | `persist`, `refresh`, `sync_issue` | a commit survives a restart and causes no reload; what the operator is told is so |
| **Setup** `__init__.py` | `hass.data` with the reload baseline | setup, unload, options update, the `record_baseline` service | a reload happens exactly for changes that matter, and none is missed |
| **Entities** `entity.py`, `sensor.py`, `binary_sensor.py`, `switch.py`, ... | last published value and time of the confidence gate; the restored switch | project `EngineState`, publish or hold back | the published value follows the state |
| **Configuration** `config_flow.py`, `config.py`, `const.py` | a session: the pending sensors, the zones entered so far | wizard, sensors, zones, tunables | whatever is saved can be set up; baselines are never lost |

**How they interact.** Everything runs on one event loop, so a call is atomic;
what interleaves is calls. An entity's report updates the cached view, then
submits `SensorAvailability` if the availability changed and the complete view as
a frame if the required entities are there. The tick submits `Tick`, the switch
`SetEnabled`, the service and the button `RecordBaseline`; a timer callback calls
`on_timer`. Each of them is `_advance(now)`, the event's effect, `fusion.refresh`,
and a plan whose timers and events the controller applies before it returns. Then the
entities are signalled and write what they project. A window that commits writes the
entry's options, and so does a finished flow; the options listener tells the two apart
and reloads the entry for the second.

**What is hard.** Frames are re-emitted from a cache, so staleness is told by
counters and ages and never by the arrival of a frame. Timers race with the
reports that restart them, may run late, and lose their meaning in blindness.
Outputs are frozen, suppressed or pinned by three independent conditions
(blind, disabled, recording), each of which can begin and end inside the others.
The engine is used before it is started. Nothing ends an occupancy but decay and
the watchdog. A calibration is measured under settings that change under it, is stored
apart from them, and is read back by a controller built from other settings; the entry
may be edited, reloaded and restarted in any phase of its setup, and what was saved last
may not have been written out. `PROJECT.json` lists these as hazards, each at its line.

## 2. The modules

| Module | Models | Shape |
|---|---|---|
| `Belief` | `core/belief.py`, the thresholds of `ConductorEngine.__init__` | operators |
| `Timers` | `core/timers.py`, the timer half of `core/plan.py` and of the controller | operators on a registry |
| `ZoneFilter` | `core/filter.py`, `core/activity.py`, the scoring of `core/evidence.py` | operators on one `ZoneState` |
| `Estimator` | `core/engine.py` with `core/health.py`, driven by `controller.py` and `observation.py` | state machine, one action per call |
| `AttackLog` | `Estimator` with a history of the candidates it was given | history variable |
| `Reports` | what one entity's report may change of a frame | relation |
| `Fusion` | `core/fusion.py` | operators |
| `ZonePromise` | what the estimator promises of a zone | abstract state machine |
| `Home` | `ZonePromise` composed with the home's fusion: what `Engine` implements | abstract state machine |
| `Engine` | `Estimator` composed with `Fusion`; implements `Home` | state machine, fairness |
| `Gating` | `core/gating.py`: distances, masks, gate ownership, energies | operators |
| `Views` | `observation.py`, the entity callbacks of `controller.py`, `apply_frame`'s reading of a frame; implements `Reports` | state machine |
| `Coverage` | the verdict of `on_baseline_end` on every evidence path | operators |
| `OptionsFlow` | `config_flow.py` | part of a state machine |
| `Entry` | `__init__.py`, `calibration.py`, the commit of a window and `_seed`, composed with `OptionsFlow` and `Coverage` | state machine |
| `Adapter` | plan application, publication, timers and stop in `controller.py`; the entities' write rules, the confidence gate, the switch | state machine |
| `Background` | `Estimator` with the clocks of background adaptation | state machine with histories |
| `BeliefProofs`, `ZoneFilterProofs`, `EstimatorProofs`, `EngineProofs` | theorems on the estimator, each on top of the one before | proofs |
| `ViewsProofs`, `AdapterProofs`, `EntryProofs` | theorems on the other components | proofs |
| `MCEstimator`, `MCAttack`, `MCEngine`, `MCViews`, `MCEntry`, `MCAdapter`, `MCBackground` | instances for TLC | definitions of constants |

How they hang together: `Views` shows that whatever Home Assistant writes, the engine is
given frames that `Reports` allows; `Estimator` takes any such frame; `Engine` adds the
fusion and implements `Home`; `Adapter` carries out any plan a handler can make, with
the timer operations of each handler; `Entry` surrounds them with the configuration the
controller is built from.

### State of the estimator and engine

`zones[z]` is a `ZoneState` without its diagnostics, `sensors[s]` a `SensorState`,
`views[s]` the controller's `SensorView`. `timers` is one registry for the keys the
engine holds pending and the callbacks the adapter holds for them: the controller
applies a plan before any other callback can run, so the two sets differ only
inside a call. `events` is what the last plan emits, which lets action properties
speak of events. `started` is that `start()` has run, `clocked` that `_last_advance`
is set: commands may precede the start, and the first call of all integrates nothing.

### Time

The engine reads no clock, so neither does the model: an action takes the time
`dt` since the last call, and a timestamp is kept as its age at the last advance.
Ages saturate where no guard can tell larger ones apart (`ObsCap`, `FrameCap`,
`GapCap`, `TDwell`, `TSettle`); this is exact. `dt` is free within its bound except
that it may not carry a pending timer past its delay by more than `MaxLate`.

Every call begins with the same `_advance`, and a zone is advanced by
`AdvancedZone(z, dt)` in all of them: age its stamps, integrate the belief segment by
segment, run the hysteresis once, and run the activity machine once. As in the code,
`IntegrateBelief` cuts the interval where an observation window ends (`Cuts`), evaluates
the rate at each segment's midpoint (`MidRate`), relaxes over the whole segment
(`AdvanceBelief`) and clamps at its end. A call after `dt`
therefore does what a tick after `dt` and the same call after 0 do together, except
that their events are in one plan. `Tick` ranges over `0 .. MaxDt` and the other calls
over `0 .. CallDt`; the runs take `CallDt = 0`, which reaches the same states. The
proofs hold for any `CallDt`.

### Actions of the estimator

| Action | Code |
|---|---|
| `Init` | `build_initial_snapshot` and `_seed`: zones whose radar reports somebody start occupied, without a starting time |
| `Start` | `_on_started` and `start`: views rebuilt, clocks adopted, a watchdog for every available radar |
| `Report` | `_on_entity_measurement` while the required entities are there: availability, then `_on_frame` (health, evidence, filter) |
| `Outage` | the same while they are not: `on_availability`, no frame |
| `Tick`, `SetEnabled`, `RecordBaseline` | the branches of `submit` |
| `StaleTimer`, `MotionOffTimer`, `BaselineEndTimer` | the branches of `on_timer` |

A change of availability and the frame that follows it are two calls of the engine, with
no time between them. The announcement does what a `Tick` does, but for the flag it sets;
so `Report` sets the flag with the frame, and a radar that returns reports at `dt = 0`,
after the tick that its announcement is.

`Report` is a relation on what one entity's report may change of a cached view
(`Reports`): which counters advance, and which readings may differ. A frame that
certifies nothing is one of its cases. After an outage the counters are ahead of
what the engine saw, and after the start they belong to a rebuilt view; `Certified`
gives the engine's comparison for each.

### The cached views (`Views`)

`hass` is what Home Assistant's entities show, `view` the controller's `SensorView` of
one radar, `lead` its counters, `shown` the last frame as the engine read it. A counter of the view is kept
as its lead over the engine's: only whether they differ is asked, so 0 and 1 suffice.
`Write` is `_on_entity_measurement` with `SensorView.update`, for any role of the
radar and any value of its entity: a number, unavailable, or unreadable. `Start`
rebuilds the view, `Commit` stands for a window that makes a zone use its gates,
`Wait` lets flags age.

### The entry (`Entry`, `OptionsFlow`)

`options` is the config entry's options dict, `disk` what was last written of it,
`loaded` the part the running controller was built from, `inForce` the floors, gate
families and statistics in use, `known`, `status` and `issue` the state of the
`CalibrationManager`, `baseline` the copy in `hass.data` the listener compares with,
`session` the open flow. A floor or statistic is the number of the window it came from.

| Action | Code |
|---|---|
| `Flow` | one step of `PresenceConductorConfigFlow` or `ConductorOptionsFlow`, and the listener if it saved |
| `Setup`, `Forwarded`, `Started` | `async_setup_entry` up to the platforms, after them, and `_on_started` |
| `Unload`, `Unloaded` | `async_unload_entry` around the platforms |
| `OpenWindow`, `CloseWindow` | `record_baseline` and the end of the window: verdict, commit, `persist` or `refresh`, `sync_issue`, the listener |
| `Flush`, `Restart` | Home Assistant writes the entry out; the process ends |

`CloseWindow` computes the verdict of every evidence path by `Coverage!Verdict` from the
rows of a window, restricted to the gates the zone owns and the entities its radar has.

### The adapter (`Adapter`)

Here the engine's pending keys (`pending`) and the controller's handles and callbacks
(`registry`) are separate. The engine is left open: a call does the timer operations of
its handler, in their order, and may leave any state behind. `Plan` and `AppliedTimers`
are the plan's bookkeeping and the order in which the controller carries it out: starts
first, then cancels. `shown` is what each entity last wrote; one plain output and one confidence
stand for all entities of their kind. `lag`, a history, is how long the confidence has
differed from the state while the gate was in charge.

### What is abstracted

* **Log-odds** are a small integer scale with the code's order of thresholds. The
  exponential that relaxes a belief over a segment is the one of the integers: `n` units
  take `n` times `1/tau` of what is left to the equilibrium, rounded away from zero so that
  it arrives, as the clamped reals do to any resolution. It has the property the code
  claims of `math.exp` (`belief.py` 36-37), that two segments under one rate are one; that the
  code's choice of segments preserves it over changing rates and clamps is checked and proved.
* **A zone's reading** of a channel is its raw statistic, whether a distance
  attributes it to the zone, and whether gate energies cover it. Distances, margins
  and floors are the instance's choice of readings.
* **The commit of a window** succeeds or fails freely, but never while the sensor
  is unavailable. `Coverage` and `Entry` model when it does. The commit changes which
  statistic a zone reads, so `Rescoring` lets its readings change with it.
* **Floors** are names in `Entry` and the choice of readings in `Estimator` and `Views`;
  `Background` keeps the times of their adaptation and not their values.
* **Payloads** of events, peaks, dwell seconds, diagnostics and the tolerance of the
  spacing test for floating-point error are left out.

## 3. What is checked

All bounds are CONSTANTS of the `.cfg` files.

| Run | Question | Result |
|---|---|---|
| `estimator` | do belief, latch, activity, motion, chain, health and timers of a zone stay consistent through every order of calls? | holds |
| `attack` | does a confirmed attack rest on enough spaced candidates of one path? | holds |
| `engine` | does the engine with two zones of one radar implement `Home`? | holds |
| `rooms` | do a room and the home rest on their watched zones alone when one of two radars is blind? | holds |
| `engine_fair` | what must eventually happen? | holds |
| `frames` | does the engine only get frames the estimator is checked against, and does it tell measured from re-emitted? | holds |
| `entry` | do calibrations, diagnosis and reloads stay right over edits, windows, reloads and crashes? | holds |
| `adapter` | do the two timer registries agree, and do the entities show the engine? | holds |
| `settled`, `cadence`, `unavailable`, `background` | four statements of comments and the spec | violated, section 4 |

**`estimator`.** One radar with one aggregate zone; somebody or nobody moves, and a faint
still return, whose flag has dropped, is there or not. `TDwell = 4`, `TSettle = 1`,
`StaleAfter = 2` and `MaxLate = 1` let dwell outlive the watchdog, a takeover fit into
it and a callback be late; `TauDecay = 5` lets an occupancy survive long enough in
silence for the watchdog to be what ends it. Two candidates make an attack.
`ObsBudget = 2` and `ObsHold = 1` cut an interval of up to four units, the longest that is
compared, in one place or in two. Zones interact only through their shared watchdog
(`engine` has two zones for that) and through the fusion. About 138,000 states.

* `BlindOrWatched`, `SilenceNoticed`: no zone is trusted without a watchdog, and none
  is occupied and trusted longer than a late watchdog takes. The second bites where
  `TDwell > StaleAfter + MaxLate`, as at the defaults (45 s, 30 s); the age of an occupancy
  is not kept beyond `TDwell`.
* `MotionHeld`: motion and its hold agree, also after a hold ran out in blindness.
* `CalibrationPinned`: no report, outage or timer disturbs the asserted emptiness.
* `HysteresisHolds`, `ActivityConsistent`, `ChainGrounded`: records assigned in
  different functions agree after every call.
* `CadenceInvariant`: the segments of one long advance and those of two short ones leave
  the same belief, also across the end of a window and at the bounds, and the same latch
  unless a window ends in between. What happens then is the question of run `cadence`.
* `BlindZonesFreeze`, `OnsetJustified`, `PassByExact`: what a step may do to a blind
  zone, what may begin an occupancy, and exactly which departures are announced.

**`attack`.** `AttackLog` logs every candidate since the last interruption and the
property reads the log, not the chain. Three candidates, so that a middle one has a
gap on either side; the gate path is measured to be correlated over two units, so
the two paths have different windows.

**`engine`.** Two zones of one radar in a room each. `StaleAfter = 1` and one-candidate
attacks keep it small; what it adds to `estimator` is the interplay of two zones under one
watchdog, where either must blind both. The zones are interchangeable. `ImplementsHome`
says that every call is a step of `Home` under the mapping `ShownZone`.

**`rooms`.** Two radars with one zone each in one room, so that the room and the home have
members of mixed health: a radar may be lost, time out and return while the other goes on.
Before the first something stands still for good and somebody walks past now and then; the
second sees nobody, which is what lets the home fade out while the first is blind and
occupied, as the hazard needs.
`ObsBudget = ObsHold = 0` and one-candidate attacks let beliefs jump instead of climb, and
all timers last one unit. `LamHomeOn` is above `LamOn`, so that a zone may be occupied and the
home off. The `VIEW` leaves out `events` and the ages of frames, which no later step and none
of these four properties reads. About 78,000 states.

* `RoomsShowTheWatched`: a room is known exactly with a watched member, and occupied, settled
  or in motion exactly as its watched members are, whatever a blind one still holds.
* `HomeCoversZones`: the home is as convinced as every healthy occupied zone, and on beside
  one above `theta_home_on`, whatever it faded to before.
* `HomeLeftOnlyByAbsence`, `HomeFadesOnlyInSight`: presence ends, and belief fades, only
  where somebody healthy looks and sees nobody.

**`engine_fair`.** One zone under `FairEngineSpec`: `DepartureNoticed`, `MotionEnds`,
`CalibrationCloses`, `HomeEmpties`. With one zone of one radar nothing a second one
did could keep the first occupied, for they share nothing but the watchdog, which a
second zone only makes fire more.

**`frames`.** One radar with two zones, the second the default zone; a move channel with
energy, distance, flag and one gate, each of which may become unavailable (the energy
also unreadable), and a plain still channel with energy, distance and a general target
flag that stay as they are. Distances 2 and 3 lie in the first and the second zone, and
the first zone owns the radar's first gate, which has an entity. `DistanceHold = 1` with
ages up to 2 covers before, at and past the hold. About 130,000 states.

* `FramesAreReports`: consecutive frames are related by `Reports!Certified`, which is
  what `Estimator` assumes of its environment: the two models fit together.
* `HeldDistanceBounded`: a held distance never outlives the hold, measured from the
  entity's own last flag, over outages and rebuilt views.
* `SamplesCertified`: the engine counts as measured exactly what was.

**`entry`.** Two sensors and two zone names, three zone forms (the near half as fallback,
the full range, an invalid one), four settings (the defaults; another statistic; other
floors without gates; an invalid one), seven windows, one of each way a window can go.
Two commits and two saves: a commit before and one after a change, and a change during
a reload that another change caused. The zone names are interchangeable. About 330,000
states.

* `SavedConfSound`: whatever the sessions saved, an entry can be set up from it.
* `RestartChangesNothing`, `StatsMatchFloors`, `BaselinesSurvive`: what is in force is of the
  windows that are stored, in one piece, and nothing but a window or a lost write changes
  that. Background adaptation moves the values in force since (spec 3.4), which are not
  modelled; a restart returns to the stored ones.
* `DiagnosisTrue`: diagnosis and warning are those the stored baselines deserve.
* `ChangeNotLost`: a controller that runs on old settings is about to be reloaded, even if
  the change was saved during setup, before the platforms were there, or in an unload.

**`adapter`.** One radar with two zones, so that keys of one kind and of three kinds
coexist; `Interval = 3` against calls every 0 or 1, so the gate passes, holds and
flushes; unavailable, 0 and 1 as values. About 48,000 states.

* `RegistriesAgree`: after every call the engine's keys, the handles and the callbacks
  agree, and an open window has its callback.
* `ConfidenceLands`: a confidence held back is published within one interval.
* `OutputsFollow`: outputs follow an enabled engine at once and freeze with a disabled one.

**`cadence`, `settled`, `unavailable`.** Small instances of `MCEstimator`.

**`background`.** One zone; ages up to 4 against `TBackground = 1`.

**Fairness.** Weak fairness of the start, of a tick with `dt >= 1`, and of each due
timer. `async_at_started` runs `_on_started` once Home Assistant is up, or at once;
`async_track_time_interval` runs the tick until the controller stops; `async_call_later`
runs a callback that is not cancelled (`controller.py` 191-211, 374-384). The
registry lets no tick pass a due callback by more than `MaxLate`, so time cannot run
ahead of them. Nothing is assumed of the radars, which may report for ever or be
silent for ever, or of the operator.

**Deadlock** is checked in every run; a call is always possible. The entry can always be
restarted, loaded or edited.

**Mutants.** Next to several operators stands a mutant of it, commented as such: the
change a plausible bug would make. No specification uses them; they are the evidence
that each property can fail.

## 4. Where the code and its comments disagree

1. **`settled`** - `core/activity.py` 60-61 says that one dominant frame followed by
   silence must not mature into a takeover. The dominance clocks compare the scores
   of the last frame, and scores do not lapse with their observation: a zone enters
   `SETTLED` after its still channel has gone silent.
2. **`cadence`** - `docs/ENGINE_SPEC.md` 62-63 says that results are invariant to tick
   cadence and scheduler pauses. The belief is (`CadenceInvariant`), but latch and activity
   are evaluated once per advance. A belief just under `theta_on` that gets one positive
   observation rises over it within `obs_budget` and then falls back between the thresholds:
   with a tick in between the zone is occupied, and stays so; after a pause of the scheduler
   it is empty.
3. **`unavailable`** - `core/health.py` 52-53 says that unavailable entities make a zone
   UNKNOWN immediately. `_on_started` replaces the cached views, their availability
   included, and submits nothing: a radar lost between the snapshot and the start
   stays healthy, and later reports see no change of availability to submit.
4. **`background`** - `docs/ENGINE_SPEC.md` 152-153 says that adaptation stops while the
   radar is unavailable or the zone is calibrating, and `core/evidence.py` 374 that the
   floor is held. It is, but `last_adapt_at` is kept, so the first step afterwards is
   weighted with all the time in between, the blind or recording part included.

## 5. What is proved

Every invariant and every action property of a passing run, and the refinement of
`Home` by `Engine`, is a theorem about the run's specification for all values of the
constants, so the bounds of section 3 limit only what is said of liveness. Each proof
module begins with the invariant its theorems come from.

**One zone (`BeliefProofs`, `ZoneFilterProofs`).** `BeliefProofs` is about one belief that
is integrated unit by unit (`Integral`): an integral of any length exists and is clamped
throughout, two integrals agree from where they meet if their rates do, one without
evidence of presence never rises to the onset threshold, and one under a steady rate goes
one way and never past its equilibrium. The same for the home's fading. Integrals are
recursive functions and the induction theorems cannot be used here, so each of these is
proved by the least-number principle (`Least`, from the well-foundedness of the naturals):
no unit is the first to violate it. `ZoneFilterProofs` shows of the operators on one zone that they keep its type
and `ZoneSound`, the conjunction of what latch, belief, activity, clocks, chain and
recording owe each other.

**The estimator (`EstimatorProofs`).** `IInv` is inductive, and `TypeOK`, `BlindOrWatched`,
`MotionHeld`, `CalibrationPinned`, `HysteresisHolds`, `ActivityConsistent` and `ChainGrounded`
follow. It adds to these what makes them inductive:

* before the start no watchdog is pending and a zone is healthy exactly if its radar
  is available, because `start` arms by availability what `BlindOrWatched` reads by
  health (`Watched`);
* motion and hold agree in one direction even in a blind zone: a pending hold belongs
  to a zone in motion, else a recovery could find a hold for a zone at rest (`Holding`);
* a recording zone is unoccupied, scoreless and unchained whether or not its window
  is still pending, so that closing the window leaves a zone that satisfies the rest
  (`ZoneSound`);
* an occupied zone has its starting time only from the start on (`Stamped`): adopted
  occupancies have none.

The proof of a step has one lemma per action, each citing what the operators on zones
and on the registry do. The others rest on `IInv`:

* `SilenceNoticed` needs to know when the running watchdog was armed. `Vigilant` adds
  `Attentive`: the last measured frame of a radar with somebody in a zone, or that zone's
  onset, is no older than the watchdog (a watchdog that fires on an occupied zone blinds it,
  and one that is re-armed finds the zones empty, so a later onset is younger); and
  `Dormant`: before the start nothing was measured and no occupancy has a starting time,
  from which `Attentive` holds as soon as `start` arms the watchdogs.
* `CadenceInvariant` is about the operators alone, as the code composes them. No window ends
  inside a segment, so the rate at its midpoint is the rate in each of its units, and the
  clamped end of a segment is where the belief clamped unit by unit arrives
  (`SegmentIntegral`); segment by segment, the whole advance is (`BeliefIntegral`). An integral
  by units has no cuts of its own, and both schedules count the ages of the observations
  alike, also where they saturate; so the two short advances are the parts of the long one
  (`AdvanceTwice`). Where no window ends the rate is steady, and a belief that has crossed a
  threshold stays across it (`SteadyLatch`).
* `BlindZonesFreeze`, `OnsetJustified` and `PassByExact` are proved action by action.
  An onset is traced through `AdvancedZone` to a rate that was positive, which only a score
  within its budget gives, or to the chain that this report completes.

**Assumptions:** `BeliefAssumption`, `ZoneFilterAssumption`, `TimersAssumption`,
`EstimatorAssumption`. They are the option ranges of `config_flow.py` 69-108, except that the
forms set each tunable by itself (`config_flow.py` 87-98) and so also admit four combinations
that `BeliefAssumption` excludes: `theta_on` above `p_max`, a zone that nothing can occupy;
`theta_off` below `p_min`, a zone that nothing can vacate; `p_prior` below `p_min`; and `p_prior`,
`theta_on` and `theta_off` all equal to 0.5, where the latch could be both at its upper and at
its lower threshold. Nothing is claimed of these.

**The engine (`EngineProofs`).** `EngineInv` adds to `IInv` that nothing runs or waits before the
clock is set, and `HomeCoversZones`. `RoomsShowTheWatched` follows from it: health is the
watchdog (`Watched`), motion is the hold (`Holding`), and a room's severity is the greatest
of its healthy members', one of which attains it (`RoomAgrees`). `ImplementsHome` is
proved by showing, for each action, that every zone does a `ZoneStep` under the mapping
`ShownZone`, and that the refresh of the home reads nothing of a zone but what it shows
(`ShowsEnough`); initial states map to initial states. `HomeLeftOnlyByAbsence` and
`HomeFadesOnlyInSight` need what one call does to the home: its ratchet is a maximum,
and its fading a relaxation. For the `attack` run, `ChainsEarned` says that a live chain of
any length stands on as many logged candidates, linked by their spacing (`Links`), and
that these are recent enough for their logged ages to be exact; a chain at rest claims nothing.
**Assumptions:** those of the estimator and `FusionAssumption`.

**The views (`ViewsProofs`).** Of the gating operators: for any layout, distance,
flag and age, which zones a target may be attributed to (`TargetAttributed`): two share it only
where their masks overlap, as those of adjacent zones do by twice the margin; a zone whose
mask does not hold it is the default zone, alone, and only for a flag without a distance; a
flag that is off places only a distance within the hold; and a target whose flag is on is
lost only outside every mask. For any gate size the gate a target stands in is owned by the zone whose mask holds it
(`MaskCoveredByGates`). Of the specification, `ViewsTypeOK`, `FramesAreReports`,
`SamplesCertified` and `HeldDistanceBounded`, for any mapped entities and values. `LeadInv` says
what the counters of a view lead by: nothing while the engine has seen it, and a channel's
never without the frame's; `AgeInv` that the engine's age of a flag is never less than the
entity's own; `ShownInv` that what the engine last read is the view at an earlier age of
its flags. The last is what `FramesAreReports` rests on: a role that was not measured
leaves a channel's scores alone, and only the lapse of a distance may change where they
count. **Assumptions:** `GatingAssumption`; `ViewsAssumption`: energies and distances are
mapped, everything mapped is a role of the radar, and there are finitely many.

**The adapter (`AdapterProofs`).** `AdapterTypeOK`, `RegistriesAgree`, `ConfidenceLands`,
`OutputsFollow`, for any radars, zones, values and interval. Its `IInv` has five parts:
`Control` (the types), `Registered` (the three registries are one set, and a recording zone's
window is in it), `ShownOK`, `GateSound` (the gate remembers what its entity shows; the lag
is never longer than the age of the last publication, which is what bounds it by the
interval; and a running enabled entity has published, else a restart of the gate could hold
back a first value) and `Told` (an entity that is not limited shows the engine unless it is
frozen, which is what the freeze has to keep). That applying all starts before the cancels
(`controller.py` 311-314) gives the same registry as the handler's own order needs that no handler starts a key it
also cancels (`OpsOK`); each handler is shown to be so. **Assumption:** `AdapterAssumption`.

**The entry (`EntryProofs`).** All seven properties of the `entry` run, for any sensors, zones,
settings, windows, saves and restarts. Four invariants, inductive together as `EntryInv`:

* `IInv`, for `StatsMatchFloors`, `RestartChangesNothing` and `BaselinesSurvive`. Its heart is
  `InForceStored`: what is in force of a zone is what its stored baseline gives under the
  settings the controller was built from, in every phase and whatever the saved settings
  are by now, while `RestartChangesNothing` says so of unchanged settings only. A commit
  keeps it because a record is adopted from the store exactly as it was written
  (`AdoptedAgain`), which needs that a statistic is never of another window than its floor
  (`OnePiece`).
* `FlowInv`, for `SavedConfSound`: what is saved is sound, and an open session is on its way to
  something sound. A session that gathers zones has for each of its sensors a zone, new or
  stored, or still waits for one (`Gathering`); one that edits zones has edited stored ones
  and not moved them to another sensor (`Editing`); one that asks about an overlap holds
  what it would save (`Finished`). It relies on the open session being the only one.
* `ListenInv`, for `ChangeNotLost`: whenever an entry is up, the listener's baseline is what its
  controller was built from, so every change is seen as one.
* `DiagnosisInv`, for `DiagnosisTrue`: diagnosis and warning are renewed with what they are
  made from, in every phase and not only when they are shown.

`AcceptedIsWatched` is about the verdict of a window with any rows, in any order: an accepted
path had no silence longer than `stale_after` anywhere, before the first observation and
after the last included. The code compares neighbours only, so the proof takes the
greatest observation before an instant and its successor.

**Assumptions:** `OptionsFlowAssumption`, `EntryAssumption`, `CoverageAssumption`; the bounds on
windows and saves are any numbers.

**What the proofs changed.** Three formulas that their runs had accepted turned out to be
false or too narrow in general, each for thresholds or timings the runs did not have, and
were restated from the code:

* `OnsetJustified` did not have the case that a report first brings its zone up to date, which
  vacates it, and then sets it again by a chain whose last candidate is of the same burst.
* `PassByExact` forbade the pass-by of an occupancy that ends and begins anew in one report.
* `ZonePromise` allowed an attack only from what was shown before the call. With `p_attack`
  below `theta_on`, which the forms admit, a zone may first decay below its lower
  threshold and then be lifted between the two, and stays empty (`Attacks`).

`EstimatorAssumption` and `ZoneFilterAssumption` now also say that the hold of motion and the
evidence gains are not negative, as the forms do.

**Only model-checked.** `DepartureNoticed`, `MotionEnds`, `CalibrationCloses` and `HomeEmpties`:
liveness under fairness is out of the prover's reach. So are theorems cited through an
`INSTANCE`, which is why the proof modules share theirs by `EXTENDS`. Where a definition had
been written with `@@` or a fold over
a set of functions, which the provers cannot unfold, it is now a function constructor or a
comprehension (`With`, `Over`, `States`) that says the same. The four violations of
section 4 are shown by TLC's counterexamples.

## 6. What is not modelled

* **Values of floors and scores**: the robust estimation of a floor, its slow drift
  between frames, the standardisation of a score. The properties are about which
  measurement a number rests on, never how large it is.
* **Sampling of a window's rows on the ticks** is not a process of its own: `Windows` gives
  the rows a window may have collected.
* **Entry**: device registration, an entry without sensors, a manual reload, a platform
  that fails to unload, baselines stored by older versions without their context.
* **Flows**: forms, labels, suggestions and the parsing of their options; sessions that
  overlap, which Home Assistant permits (one at a time here); `discovery.py`, which
  suggests entities and keeps nothing.
* **Entities** other than the gate and the switch: projections of `EngineState`, and event
  entities that pass an outcome on.
* **Readers**: diagnostics and `tools/replay.py`; wording, logging and translations.

Home Assistant itself is modelled as the code uses it: a listener of an entry's options
is started with the save that concerns it, a reload takes the entry's lock, options are
written out later, and `async_call_later` calls back unless it was cancelled.

## 7. Plan

The components of section 1 are modelled as far as section 6 says, and all that the passing
runs check but liveness is proved. What is left:

1. Two options sessions open at once, each saving what it read when it was opened.
   `FlowInv` shows where this bites: `Gathering`, `Editing` and `Finished` relate the session
   to the options as they are now.
2. The sampling of a window's rows on the ticks as a process, so that `AcceptedIsWatched`
   becomes a property of a run.
3. `Background`: what its clocks do guarantee in spite of section 4, that no step of the
   adaptation is taken while the zone is blind, recording or occupied.
