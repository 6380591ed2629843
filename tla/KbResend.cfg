SPECIFICATION Spec
CONSTANTS
  MaxQueue = 2
  MaxResends = 5
INVARIANTS
  ThreeResends
