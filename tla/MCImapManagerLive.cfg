\* A request and a prefetch, one connection loss: everything is answered.
CONSTANTS
  Actions = {}
  Requests = {r1}
  ViewPrefetches = {}
  FullPrefetches = {f1}
  Searches = {}
  NoItem = NoItem
  Items <- MCItems
  QueueOf <- MCQueueOf
  Connect = TRUE
  OAuth = FALSE
  MaxLosses = 1
  MaxRefreshes = 0
SPECIFICATION FairSpec
PROPERTIES
  PrefetchYields
  
  
