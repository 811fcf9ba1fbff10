SPECIFICATION RingSpec
CONSTANTS
  key = key
  tick = tick
  ticks = ticks
  None = None
  Junk = Junk
  Item <- MCItem
  Merged <- MCMerged
  Matches <- MCMatches
  CAPACITY = 3
  MAX_PUSHES = 5
PROPERTIES
  RingIsQueue
