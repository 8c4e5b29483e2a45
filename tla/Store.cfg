SPECIFICATION FairSpec
CONSTANTS
  Services = {db, web}
  Pids = {p1, p2}
  MaxSeq = 3
  Zero = Zero
INVARIANTS CountsExact LatestWins UsageOfShownPid NothingLeftOver
PROPERTIES SamplingResumes
