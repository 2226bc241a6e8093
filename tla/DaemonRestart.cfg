SPECIFICATION Spec
CONSTANTS
  None = None
  Ensure = {e1}
  Daemon = {d1, d2, d3}
  Installer = {i1, i2}
  Stalls = TRUE
  SlowLoad = TRUE
  Recognised = TRUE
  MaxKills = 0
  MaxAborts = 1
  MaxTable = 2
SYMMETRY Symmetry
INVARIANT RestartReloads
CHECK_DEADLOCK FALSE
