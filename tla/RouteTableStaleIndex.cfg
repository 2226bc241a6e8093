SPECIFICATION SerialSpec
CONSTANTS
  w = w  v = v  r = r  f = f  g = g  h = h  a = a  b = b  c = c  d = d  x = x
  None = None
  NoPath = NoPath
  Process = {w, v}
  Path = {f, g, h}
  Content = {a, b, c, d, x}
  Refused = {x}
  Package <- PackageF
  Ops <- TwoWriters
  Native = FALSE
  OwnModel = TRUE
  PriorRows = None
  InitRows <- ThreeRows
  MaxEdits = 1
  MaxCrashes = 0
  MaxRows = 4
PROPERTY OnlyPruneDropsRoutes
CHECK_DEADLOCK FALSE
