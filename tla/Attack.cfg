CONSTANTS
  s1 = s1
  z1 = z1
  z2 = z2
  Sensors = {s1}
  Zones = {z1}
  SensorOf <- OneRadar
  MoveViews <- AttackViews
  StillViews <- QuietViews
  LamMin = 0
  LamMax = 6
  LamPrior = 1
  LamAttack = 5
  LamOn = 4
  LamOff = 2
  TauDecay = 2
  KMove = 1
  KStill = 1
  KBias = 3
  UCap = 2
  ObsBudget = 0
  ObsHold = 0
  ScoreMean = 1
  ZCap = 3
  ZNegCap = 1
  AttackTail = 5
  AttackConfirm = 3
  AttackGapMin = 1
  AttackGapMax = 2
  LeastGap = 1
  DefaultGapWidth = 1
  Decorrelation <- SlowGates
  ZMotion = 3
  TDwell = 0
  TSettle = 0
  MaxLate = 0
  StaleAfter = 3
  MotionHold = 1
  BaselineDuration = 1
  MaxDt = 2
  CallDt = 0
SPECIFICATION LogSpec
INVARIANTS
  ConfirmedBySpacedCandidates
