SPECIFICATION FairSpec
CONSTANTS
  Publishers = {p1, p2}
  Subs = {s1}
  Buffer = 1
  MaxSeq = 3
  None = None
CHECK_DEADLOCK FALSE
INVARIANTS CriticalKept NoSendOnClosed
PROPERTIES DeliversInOrder CriticalDelivered CloseReturns
