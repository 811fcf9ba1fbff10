SPECIFICATION Spec
CONSTANTS
  CAPACITY = 3
  MAX_KEYS = 4
  MAX_TICKS = 2
  Timeouts = {"forever", "some", "zero"}
INVARIANTS
  NoLostWakeup
  KeysAccounted
PROPERTIES
  IsChannel
