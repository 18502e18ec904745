\* A message, two validities, one mishap: bodys are read, messages thrown away.
CONSTANTS
  MaxUid = 1
  MaxValidity = 2
  MaxAsked = 1
  MaxMishaps = 1
  UserActions = {"headers", "bodys", "trash"}
SPECIFICATION FairSpec
INVARIANTS
  LostOnlyIfUnsafe
PROPERTIES
  EventuallyCurrent
