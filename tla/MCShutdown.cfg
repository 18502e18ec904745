SPECIFICATION FairSpec
CONSTANTS
  Msgs = {m1, m2}
  NoMsg = NoMsg
  MaxRequests = 1
INVARIANTS TypeOK CleanEnd
 
