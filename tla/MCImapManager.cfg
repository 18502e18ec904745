\* An action, a request and a server search; one loss, one expired token.
CONSTANTS
  Actions = {a1}
  Requests = {r1}
  ViewPrefetches = {}
  FullPrefetches = {}
  Searches = {s1}
  NoItem = NoItem
  Items <- MCItems
  QueueOf <- MCQueueOf
  Connect = TRUE
  OAuth = TRUE
  MaxLosses = 1
  MaxRefreshes = 1
SPECIFICATION Spec
INVARIANTS
  TypeOK
  OnePlace
  NoLostWakeup
  NotifyNotMissed
  AttemptsBounded
  FailureEarned
  RefusedOnlyOffline
PROPERTIES
  ServiceSpec
