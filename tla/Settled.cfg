CONSTANTS
  s1 = s1
  s2 = s2
  z1 = z1
  z2 = z2
  z3 = z3
  Sensors = {s1}
  Zones = {z1}
  SensorOf <- Single
  MoveViews <- AggregateMove
  StillViews <- AggregateStill
  LamMin = 0
  LamMax = 6
  LamPrior = 1
  LamAttack = 5
  LamOn = 4
  LamOff = 2
  TauDecay = 3
  KMove = 1
  KStill = 1
  KBias = 1
  UCap = 2
  ObsBudget = 1
  ObsHold = 1
  ScoreMean = 1
  ZCap = 3
  ZNegCap = 1
  AttackTail = 5
  AttackConfirm = 2
  AttackGapMin = 1
  AttackGapMax = 2
  LeastGap = 1
  DefaultGapWidth = 1
  Decorrelation <- NoDecorrelation
  ZMotion = 2
  TDwell = 4
  TSettle = 3
  MaxLate = 1
  StaleAfter = 3
  MotionHold = 1
  BaselineDuration = 2
  MaxDt = 2
  CallDt = 0
SPECIFICATION Spec
PROPERTIES
  SettledOnLiveStill
