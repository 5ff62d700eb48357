SPECIFICATION Spec
CONSTANTS
  e1 = e1
  e2 = e2
  e3 = e3
  Timed <- MCTimed
  None = None
  Modulus = 14
  LazyDelay = 2
  MaxDelay = 4
  MaxLate = 2
  MaxTime = 32
SYMMETRY Symmetry
CHECK_DEADLOCK FALSE
INVARIANTS NearestFirst NoneMissed LazyBounded
PROPERTY NotEarly
