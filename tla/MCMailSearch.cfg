\* Two searches, the second of which may overtake the first.
\* The user may have no more searches to start: the system stops then.
CONSTANTS
  FirstMails = 3
  MaxMails = 4
  Height = 1
  MaxSearches = 2
  MaxFailures = 1
  MaxDeletes = 1
SPECIFICATION FairSpec
INVARIANTS
  TypeOK
  RowsInOrder
PROPERTIES
  
  EventuallyShown
CHECK_DEADLOCK FALSE
