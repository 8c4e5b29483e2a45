SPECIFICATION FairSpec
CONSTANTS
  db = db
  web = web
  None = None
  Services = {db, web}
  ServiceOrder <- MCServiceOrder
  Queries = {""}
  Blank = {""}
  Match <- MCMatch
  Empty = ""
PROPERTIES QuitEnds
CHECK_DEADLOCK FALSE
