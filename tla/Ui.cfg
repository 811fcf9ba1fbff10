SPECIFICATION UiSpec
CONSTANTS
  page_count = 3
  CanEnter = {2}
  SettingsPage = 2
  UI_TICK_ANIM = 1
  UI_TICK_STATIC = 2
  SLIDE_TICKS = 2
  SHAKE_TICKS = 2
  MODE_TICKS = 2
  IDLE_TIMEOUT = 4
  ENTER_TIMEOUT = 5
  MAX_LATE = 1
INVARIANTS
  DisplayFollowsScreen
  TimerFollowsScreen
  EnteredPageIsCurrent
  DarkMeansView
PROPERTIES
  IdleScreenGoesOff
  IdleLeavesEnterMode
