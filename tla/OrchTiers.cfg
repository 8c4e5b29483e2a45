SPECIFICATION Spec
CONSTANTS
  db = db
  web = web
  None = None
  Main = Main
  NumTiers = 2
  TierOf <- TwoTiers
  Services = {db, web}
  Tasks = {t1}
  Procs = {1, 2, 3}
  Workers = 2
  Attempts = 1
  Probed = {web}
  Watched = {web}
  UI = TRUE
INVARIANTS TiersInOrder TierReadyMeansStarted ShutdownInOrder RegistryConsistent
