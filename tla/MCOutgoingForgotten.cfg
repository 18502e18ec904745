\* Two queued messages fail while the user interface is busy.
CONSTANTS
  Pids = {p1}
  Msgs = {m1, m2}
  NoMsg = NoMsg
  DraftsFolder = TRUE
  MaxDrops = 1
  MaxFailures = 2
SPECIFICATION FairSpec
PROPERTIES
  QueuedNotForgotten
