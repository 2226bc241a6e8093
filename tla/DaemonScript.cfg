SPECIFICATION Spec
CONSTANTS
  None = None
  Ensure = {e1}
  Daemon = {d1, d2}
  Installer = {i1}
  Stalls = FALSE
  SlowLoad = FALSE
  Recognised = FALSE
  MaxKills = 0
  MaxAborts = 0
  MaxTable = 1
SYMMETRY Symmetry
INVARIANT RestartReloads
CHECK_DEADLOCK FALSE
