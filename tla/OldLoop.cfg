SPECIFICATION Spec
CONSTANTS
  PAGE_COUNT = 2
  PAGE_SERVICES = 1
  SERVICES = 2
  SHOWN_SERVICES = 1
  FRAME_INTERVAL = 2
  FRAME_INTERVAL_ANIM = 1
  STATUS_UPDATE = 2
  SERVICE_REFRESH_INTERVAL = 3
  MENU_TIMEOUT = 4
  IDLE_FRAME = 4
  TITLE_ANIM_ENTER_FRAMES = 2
  TITLE_ANIM_REJECT_FRAMES = 2
  BLOCKING = 3
INVARIANTS
  NothingLeftDue
  PanelIsCurrent
  MenuIsVisible
PROPERTIES
  MenuEnds
