SPECIFICATION FairSpec
CONSTANTS
  service_count = 2
  TASK_CAPACITY = 2
  RESULT_CAPACITY = 5
  SERVICE_QUERY_TIMEOUT = 1
  IDS = 11
  INT_BITS = 2
  BACKOFF_MAX = 1
INVARIANTS
  PendingIsInFlight
  NoResultDropped
PROPERTIES
  QueriesEnd
  StopCompletes
