\* Another process ends its composing while a dead one's backup waits.
CONSTANTS
  Pids = {p1, p2}
  Msgs = {m1, m2}
  NoMsg = NoMsg
  MaxCrashes = 1
  MaxFailures = 0
SPECIFICATION Spec
PROPERTIES
  OrphanNotDiscarded
