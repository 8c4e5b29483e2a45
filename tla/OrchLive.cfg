SPECIFICATION FairRunSpec
CONSTANTS
  web = web
  fuku = fuku
  server = server
  root = root
  child = child
  None = None
  Main = Main
  NumTiers = 1
  TierOf <- OneTier
  Services = {web}
  Tasks = {t1}
  Procs = {1, 2, 3, 4}
  Workers = 1
  Attempts = 2
  Probed = {web}
  Watched = {web}
  UI = FALSE
  Strays = {fuku, server, root, child}
  Self = fuku
  Foreign = {root}
  Matching <- Dirs
  Leader <- Groups
INVARIANTS CleanedUp
PROPERTIES ShutdownCompletes RestartResolves
