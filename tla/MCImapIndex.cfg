\* Two uids, two validities, one end of the program.
CONSTANTS
  MaxUid = 2
  MaxValidity = 2
  MaxQueue = 1
  MaxRestarts = 1
SPECIFICATION FairSpec
INVARIANTS
  TypeOK
  

  
