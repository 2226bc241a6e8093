SPECIFICATION Spec
CONSTANTS
  w = w  v = v  r = r  f = f  g = g  h = h  a = a  b = b  c = c  d = d  x = x
  None = None
  NoPath = NoPath
  Process = {w, r}
  Path = {f, g}
  Content = {a, b, x}
  Refused = {x}
  Package <- PackageF
  Ops <- PruningWriter
  Native = TRUE
  OwnModel = TRUE
  PriorRows = None
  InitRows <- TwoRows
  MaxEdits = 2
  MaxCrashes = 0
  MaxRows = 3
 
PROPERTY OnlyPruneDropsRoutes
CHECK_DEADLOCK FALSE
