CONSTANTS
  u1 = u1  u2 = u2  f1 = f1  f2 = f2  a = a  b = b  c = c  x = x  y = y  n = n
  Url = {u1, u2}
  File = {f1, f2}
  Content = {a, b, c, x, y, n}
  Releases <- Distinct
  Failing = {x}
  Warning = {y}
  Routable = {a, b, c, y}
  MaxName = 3
  MaxFaults = 1
  ManifestName = ManifestName
  None = None
  User = User
SPECIFICATION Spec
INVARIANTS TypeOK InstalledIsOneRelease HubIsVetted RowsMatchHub InstalledIsRouted
PROPERTIES  ImplementsHub
