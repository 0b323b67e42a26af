CONSTANTS
  s1 = s1
  s2 = s2
  a = a
  b = b
  room = room
  SensorIds = {s1, s2}
  ZoneNames = {a, b}
  Forms <- RangeForms
  Tunings <- SomeTunings
  DefaultTuning <- Defaults
  GateEntities <- MoveGates
  GateCount = 2
  StatMinRows = 2
  EnergyQuantum = 1
  StaleAfter = 2
  Windows <- SomeWindows
  MaxWindows = 2
  MaxSaves = 2
SYMMETRY Symmetry
SPECIFICATION Spec
INVARIANTS
  EntryTypeOK
  SavedConfSound
  RestartChangesNothing
  StatsMatchFloors
  DiagnosisTrue
  ChangeNotLost
PROPERTIES
  BaselinesSurvive
