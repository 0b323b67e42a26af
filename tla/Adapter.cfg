CONSTANTS
  s1 = s1
  a = a
  b = b
  Sensors = {s1}
  Zones = {a, b}
  Values = {0, 1}
  Interval = 3
  MaxDt = 1
SPECIFICATION Spec
INVARIANTS
  AdapterTypeOK
  RegistriesAgree
  ConfidenceLands
PROPERTIES
  OutputsFollow
