SPECIFICATION Spec
CONSTANTS
  w = w  v = v  r = r  f = f  g = g  h = h  a = a  b = b  c = c  d = d  x = x
  None = None
  NoPath = NoPath
  Process = {w, r}
  Path = {f, g}
  Content = {a, b, x}
  Refused = {x}
  Package <- NoPackage
  Ops <- AppendingWriter
  Native = FALSE
  OwnModel = TRUE
  PriorRows = None
  InitRows <- OneRow
  MaxEdits = 2
  MaxCrashes = 1
  MaxRows = 3
INVARIANTS TypeOK RowsPaired MetaNeverAhead OneRowPerPath  
CHECK_DEADLOCK FALSE
