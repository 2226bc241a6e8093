CONSTANTS
  f = f
  g = g
  n = n
  u = u
  out = out
  none = none
  Path <- MCPath
  Under <- MCUnder
  Named <- MCNamed
  Outside = out
  Missing = none
  Package <- MCPackage
  MaxFiles = 2
  pa = pa
  pb = pb
  x = x
  y = y
  Peer <- MCPeer
  Id = {1, 2}
  Content = {x, y}
  Rank <- MCRank
  TieKey <- MCTieKey
  Given <- MCGiven
  ScoreLists <- MCScoreLists
  Sizes = {1, 2, 3, 5}
  Phrase = {1, 2, 3}
  Scores <- MCScores
  RouteKey <- MCRouteKey
  Repos <- MCRepos
  PerSignalK = 2
  BundleSize = 3
  MaxSeen = 4
  Tables <- Fits
  TooLong = {"long"}
  MaxRoutes = 3
  MaxSeeds = 2
  MaxCrashes = 1
  Server = {1, 2}
  Inboxes <- MCInboxes
  Backlog = 0
  MaxVersion = 2
  MaxDeaths = 1
  Session = {1, 2}
  Request <- MCRequest
  Cats = {c0, c1}
  Vacant = c0
  MaxTopK = 2
  MaxMinted = 3
  MaxTime = 1
  Registry <- MCRegistry
  UserFiles <- MCUserFiles
  Webs <- MCWebs
  Relevant <- MCRelevant
  NameKey <- MCNameKey
  MaxListed = 3
  None = None
  Ensure = {e1, e2, e3}
  Daemon = {d1, d2, d3}
  Installer = {}
  Stalls = FALSE
  SlowLoad = FALSE
  Recognised = TRUE
  MaxKills = 2
  MaxAborts = 0
  MaxTable = 0
SPECIFICATION PartsSpec
SYMMETRY Symmetry
INVARIANTS
  RoutedWasVetted
  HubLinksResolve
  MergeIsOrderFree
  TopKIsExact
  BundleHoldsBest
  
  AnswersAreServed
  ChainIsOneSession
  
  TypeOK
  SoleDaemon
CHECK_DEADLOCK FALSE
