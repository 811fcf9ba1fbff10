SPECIFICATION PageSpec
CONSTANTS
  service_count = 2
  VISIBLE_LINES = 1
  MAX_CONTROLS = 1
  NoDialog = NoDialog
INVARIANTS
  SelectionVisible
  DialogInEnterMode
PROPERTIES
  ConfirmedIsShown
  TransitionsEnd
