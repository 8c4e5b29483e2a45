SPECIFICATION Spec
CONSTANTS
  db = db
  web = web
  None = None
  Main = Main
  NumTiers = 1
  TierOf <- OneTier
  Services = {web}
  Tasks = {t1, t2}
  Procs = {1, 2, 3}
  Workers = 2
  Attempts = 2
  Probed = {web}
  Watched = {web}
  UI = FALSE
INVARIANTS GuardExclusive SlotsExact RemovedMeansGone IntendedStopSilent NoneLost RunningIsRegistered
PROPERTIES RegistrySpec
