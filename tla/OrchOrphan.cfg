SPECIFICATION Spec
CONSTANTS
  db = db
  web = web
  None = None
  Main = Main
  NumTiers = 1
  TierOf <- OneTier
  Services = {web}
  Tasks = {t1}
  Procs = {1, 2}
  Workers = 1
  Attempts = 1
  Probed = {web}
  Watched = {web}
  UI = FALSE
INVARIANTS StoppedMeansTerminated
