CONSTANTS
  s1 = s1
  s2 = s2
  z1 = z1
  z2 = z2
  z3 = z3
  Sensors = {s1, s2}
  Zones = {z1, z2}
  SensorOf <- TwoRadars
  MoveViews <- FirstRadarMove
  StillViews <- FirstRadarStill
  LamMin = 0
  LamMax = 4
  LamPrior = 1
  LamAttack = 4
  LamOn = 3
  LamOff = 2
  TauDecay = 3
  KMove = 1
  KStill = 1
  KBias = 1
  UCap = 2
  ObsBudget = 0
  ObsHold = 0
  ScoreMean = 1
  ZCap = 3
  ZNegCap = 1
  AttackTail = 5
  AttackConfirm = 1
  AttackGapMin = 1
  AttackGapMax = 2
  LeastGap = 1
  DefaultGapWidth = 1
  Decorrelation <- NoDecorrelation
  ZMotion = 2
  TDwell = 1
  TSettle = 1
  MaxLate = 0
  StaleAfter = 1
  MotionHold = 1
  BaselineDuration = 1
  MaxDt = 1
  CallDt = 0
  RoomOf <- OneRoom
  LamHomeOn = 4
  LamHomeOff = 2
  TauHome = 2
SPECIFICATION EngineSpec
INVARIANTS
  RoomsShowTheWatched
  HomeCoversZones
PROPERTIES
  HomeLeftOnlyByAbsence
  HomeFadesOnlyInSight
VIEW NextDepends
