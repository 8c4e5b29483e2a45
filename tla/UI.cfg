SPECIFICATION FairSpec
CONSTANTS
  db = db
  web = web
  None = None
  Services = {db, web}
  ServiceOrder <- MCServiceOrder
  Queries = {"", "-", "web", "zzz"}
  Blank = {"", "-"}
  Match <- MCMatch
  Empty = ""
PROPERTIES SelectionStays BothEnd
CHECK_DEADLOCK FALSE
