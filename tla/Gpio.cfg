SPECIFICATION GpioSpec
CONSTANTS
  GPIO_NUM_BUTTONS = 2
  GPIO_LONG_PRESS = 2
  GPIO_DEBOUNCE = 1
  MAX_PENDING_EVENTS = 2
  READ_MAX = 2
  FIFO_SIZE = 3
  MAX_LATE = 1
INVARIANTS
  NothingLeftBehind
  OneEventPerHold
PROPERTIES
  NoEventOverwritten
  ShortPressIsShort
  LongPressComes
