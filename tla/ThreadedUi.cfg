SPECIFICATION Spec
CONSTANTS
  CAPACITY = 1
  MAX_KEYS = 2
  ANIM_TICKS = 2
  MAX_EXPIRED = 1
  PAGES = 2
  Enterable = {1}
  Keys <- MCKeys
INVARIANTS
  InUseIsHeld
  NothingLeaks
  RequestNotLost
PROPERTIES
  TicksKeepComing
  SignalEnds
CHECK_DEADLOCK FALSE
