\* Three processes, two of which may crash, and two messages.
CONSTANTS
  Pids = {p1, p2, p3}
  Msgs = {m1, m2}
  NoMsg = NoMsg
  MaxCrashes = 2
  MaxFailures = 1
SYMMETRY Symmetry
SPECIFICATION Spec
INVARIANTS
  TypeOK
  FinishedGone
  UniqueCopy
PROPERTIES
  BackupHeldWhileComposing
