SPECIFICATION Spec
CONSTANTS
  None = None
  Session = {s1, s2}
  Anonymous = {}
  Key = {k1, k2, k3, k4}
  Keep = 2
  MaxPinned = 2
  Calm = TRUE
  MaxBuilds = 4
  MaxKills = 1
SYMMETRY Symmetry
INVARIANTS TypeOK   SweepBounds
CHECK_DEADLOCK FALSE
