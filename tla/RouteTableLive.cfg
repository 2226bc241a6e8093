SPECIFICATION FairSpec
CONSTANTS
  w = w  v = v  r = r  f = f  g = g  h = h  a = a  b = b  c = c  d = d  x = x
  None = None
  NoPath = NoPath
  Process = {w, r}
  Path = {f, g}
  Content = {a, b, x}
  Refused = {x}
  Package <- NoPackage
  Ops <- WatcherAndRouter
  Native = FALSE
  OwnModel = FALSE
  PriorRows = None
  InitRows = None
  MaxEdits = 2
  MaxCrashes = 0
  MaxRows = 3
PROPERTY IndexConverges
CHECK_DEADLOCK FALSE
