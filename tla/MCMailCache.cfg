\* Two uids, two validities, one mishap: the cache and the view of the folder.
CONSTANTS
  MaxUid = 2
  MaxValidity = 2
  MaxAsked = 1
  MaxMishaps = 1
  UserActions = {"uids", "headers"}
SPECIFICATION Spec
INVARIANTS
  TypeOK
  
  ViewWillBeTold
