SPECIFICATION FairSpec
CONSTANTS
  None = None
  Ensure = {e1, e2}
  Daemon = {d1, d2, d3, d4}
  Installer = {i1}
  Stalls = FALSE
  SlowLoad = FALSE
  Recognised = TRUE
  MaxKills = 1
  MaxAborts = 0
  MaxTable = 1
PROPERTIES EnsureReturns ServiceRecovers
CHECK_DEADLOCK FALSE
