SPECIFICATION StatusSpec
CONSTANTS
  Service = {1}
  MAX_PENDING_REQUESTS = 2
  DEFAULT_TIMEOUT = 1
  BACKOFF_MAX_SEC = 1
  TIMEOUT_RESET_THRESHOLD = 2
  INT_BITS = 2
  Free = Free
  service_count = 1
  NameOf <- MCNames
  SERVICE_REFRESH_INTERVAL = 1
  Controlled = {1}
  Restless = {1}
INVARIANTS
  PendingIffInFlight
PROPERTIES
  QueriesEnd
  EventualConsistency
