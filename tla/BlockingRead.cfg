SPECIFICATION KeysSpec
CONSTANTS
  NUM_BUTTONS = 3
  LONG_PRESS = 2
  DEBOUNCE = 1
  MAX_PENDING_EVENTS = 4
  READ_MAX = 3
  MAX_GPIO_EVENTS_PER_POLL = 3
  FIFO_SIZE = 2
  MAX_LATE = 1
CHECK_DEADLOCK FALSE
PROPERTIES
  TimerIsServed
