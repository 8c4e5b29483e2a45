SPECIFICATION FairSpec
CONSTANTS
  Services = {db}
  MaxLife = 3
  MaxWatch = 1
  MaxLag = 2
  MaxSecs = 1
  MaxKeys = 1
INVARIANTS StartupOnTimeline
PROPERTIES UINewest Settles
CHECK_DEADLOCK FALSE
