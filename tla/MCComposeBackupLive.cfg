\* A process and the next one, under fairness.
CONSTANTS
  Pids = {p1, p2}
  Msgs = {m1, m2}
  NoMsg = NoMsg
  MaxCrashes = 1
  MaxFailures = 1
SPECIFICATION FairSpec
PROPERTIES
  EventuallyBackedUp
  StopReturns
  RecoveredAtNextStart
