SPECIFICATION FairSpec
CONSTANTS
  a = a
  b = b
  lib = lib
  sub = sub
  deep = deep
  None = None
  Services = {a, b}
  Dirs = {lib, sub, deep}
  Parent <- Tree
  Root <- Own
  Shared <- BSharesLib
  Ignored <- BSkipsDeep
  Existing = {lib}
  MaxGen = 3
  MaxChanges = 2
CHECK_DEADLOCK FALSE
INVARIANTS WatchKept ChangeNotLost
PROPERTIES ChangeReported
