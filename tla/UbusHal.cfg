SPECIFICATION HalSpec
CONSTANTS
  Service = {s1}
  MAX_PENDING_REQUESTS = 3
  DEFAULT_TIMEOUT = 2
  BACKOFF_MAX_SEC = 3
  TIMEOUT_RESET_THRESHOLD = 2
  INT_BITS = 4
  Free = Free
INVARIANTS
  ExactlyOneCallback
  NoDanglingRequest
PROPERTIES
  BackoffExpires
  ImplementsApi
