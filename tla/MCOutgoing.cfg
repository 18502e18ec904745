\* Two processes that may end, and two messages; one connection is lost.
CONSTANTS
  Pids = {p1, p2}
  Msgs = {m1, m2}
  NoMsg = NoMsg
  DraftsFolder = TRUE
  MaxDrops = 1
  MaxFailures = 2
SPECIFICATION FairSpec
INVARIANTS
  TypeOK
  OneCopy
  NothingLost
  NotStranded
PROPERTIES
  EventuallySettled
