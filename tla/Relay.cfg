SPECIFICATION FairSpec
CONSTANTS
  Clients = {c1}
  Services = {api, db}
  Requests <- AllOrApi
  Buffer = 1
  History = 2
  MaxLogs = 5
  c1 = c1
  api = api
  db = db
CHECK_DEADLOCK FALSE
INVARIANTS HistoryIsLast StreamExact ReplayWhole OpenWhileRegistered
PROPERTIES StopReturns
