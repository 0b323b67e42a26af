CONSTANTS
  ZoneOrder <- TwoZones
  Near <- Starts
  Far <- Ends
  Fallbacks <- FarIsDefault
  Margin = 1
  GateSize = 4
  GateCount = 2
  DistanceHold = 1
  MaxEnergy = 2
  Shows <- Readings
  GateZones <- NearHasGates
SPECIFICATION Spec
INVARIANTS
  ViewsTypeOK
  HeldDistanceBounded
PROPERTIES
  FramesAreReports
  SamplesCertified
