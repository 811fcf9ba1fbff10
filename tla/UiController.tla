---------------------------- MODULE UiController ----------------------------
(***************************************************************************)
(* The screen, the pages and their two modes (src/src/page_controller.c),   *)
(* the refresh of the display (src/src/ui_controller.c) and the two         *)
(* handlers of src/src/main.c that drive them: a button event and the UI    *)
(* timer.  Each handler runs to its end on the uloop thread and is one      *)
(* action; it ends with a render when one is needed, so that needs_render   *)
(* is FALSE, and power_on equals the screen state, between two handlers.    *)
(*                                                                          *)
(* Time is counted in ticks; stored instants are kept as ages.  A button    *)
(* event carries its own time stamp, which is `late` ticks old when main    *)
(* handles it, and the page controller takes that for the current time.     *)
(* Stamps may go back: an edge keeps its instant while it waits, a long     *)
(* press and the UI timer are stamped when they run.                        *)
(***************************************************************************)
EXTENDS Integers

CONSTANTS
  page_count,
  CanEnter,             \* the pages with can_enter
  SettingsPage,         \* the page whose keys switch the auto sleep
  UI_TICK_ANIM, UI_TICK_STATIC,        \* periods of the UI timer, in ticks
  SLIDE_TICKS, SHAKE_TICKS, MODE_TICKS, \* durations of the animations
  IDLE_TIMEOUT,         \* UI_AUTO_SLEEP_MS
  ENTER_TIMEOUT,        \* DEFAULT_ENTER_MODE_TIMEOUT_MS
  MAX_LATE              \* bound: age of a button event when it is handled

ASSUME UiAssumption ==
  /\ page_count \in Nat /\ page_count > 1
  /\ CanEnter \subseteq 0 .. page_count - 1 /\ SettingsPage \in CanEnter
  /\ UI_TICK_ANIM \in Nat \ {0} /\ UI_TICK_STATIC \in Nat \ {0}
  /\ SLIDE_TICKS \in Nat \ {0} /\ SHAKE_TICKS \in Nat \ {0} /\ MODE_TICKS \in Nat \ {0}
  /\ IDLE_TIMEOUT \in Nat \ {0} /\ ENTER_TIMEOUT \in Nat \ {0}
  /\ MAX_LATE \in Nat

Page == 0 .. page_count - 1
Key == {"K1", "K2", "K3"}
Anim == {"none", "slide", "shake", "enter", "exit"}
Off == -1     \* no timer; no page entered

\* Ages beyond every timeout are not told apart.
AGE_MAX == SLIDE_TICKS + SHAKE_TICKS + MODE_TICKS + IDLE_TIMEOUT + ENTER_TIMEOUT + MAX_LATE

VARIABLES
  screen_on,    \* screen_state; power_on
  display_on,   \* what the display was last told
  current_page,
  page_mode,
  anim,
  to_page,      \* of the last slide
  anim_age,     \* since anim.start_ms
  activity_age, \* since last_activity_ms
  enter_age,    \* since enter_mode_start_ms
  auto_off,     \* g_auto_screen_off_enabled
  entered,      \* the page that had on_enter and no on_exit yet
  g_ui_timer    \* ticks until the UI timer fires, or Off

pageVars == <<current_page, page_mode, entered>>
animVars == <<anim, to_page, anim_age>>
vars == <<screen_on, display_on, pageVars, animVars, activity_age, enter_age, auto_off, g_ui_timer>>

----------------------------------------------------------------------------
(* Animations *)

Duration(a) ==
  CASE a = "slide" -> SLIDE_TICKS
    [] a = "shake" -> SHAKE_TICKS
    [] OTHER -> MODE_TICKS

\* now_ms - start_ms is unsigned: an animation that starts after the instant of
\* the event is taken for one that ended long ago.
anim_is_complete(a, age, late) ==
  a = "none" \/ age - late >= Duration(a) \/ age < late

start_animation(a, late) == anim' = a /\ anim_age' = late

----------------------------------------------------------------------------
(* Modes *)

\* Defect: the page is not told.
exit_enter_mode_Silent(late) ==
  /\ page_mode' = "VIEW"
  /\ start_animation("exit", late)
  /\ UNCHANGED <<current_page, to_page, entered>>

exit_enter_mode(late) ==
  /\ page_mode' = "VIEW"
  /\ start_animation("exit", late)
  /\ entered' = Off
  /\ UNCHANGED <<current_page, to_page>>

\* The key that enters: on_enter of a page that allows it, else the title shakes.
try_enter_mode(late) ==
  /\ page_mode = "VIEW"
  /\ IF current_page \in CanEnter
     THEN /\ page_mode' = "ENTER" /\ entered' = current_page
          /\ enter_age' = late
          /\ start_animation("enter", late)
     ELSE /\ start_animation("shake", late)
          /\ UNCHANGED <<page_mode, entered, enter_age>>
  /\ UNCHANGED <<current_page, to_page>>

Neighbour(d) == (current_page + d + page_count) % page_count

\* current_page follows when the animation has ended.
switch_page(d, late) ==
  /\ to_page' = Neighbour(d)
  /\ start_animation("slide", late)
  /\ UNCHANGED pageVars

----------------------------------------------------------------------------
(* The display and the UI timer, as every handler leaves them *)

Render(needs_render) == display_on' = IF needs_render THEN screen_on' ELSE display_on

NextTimeout == IF anim' # "none" THEN UI_TICK_ANIM ELSE UI_TICK_STATIC

\* Defect: a timer that is set is not set again.
schedule_ui_timer_Once(left) ==
  g_ui_timer' = IF screen_on' /\ left = Off THEN NextTimeout ELSE left

\* With the screen off a timer that is set is left to run out.
schedule_ui_timer(left) == g_ui_timer' = IF screen_on' THEN NextTimeout ELSE left

----------------------------------------------------------------------------
(* page_controller_handle_key: one action per way it takes *)

AnimationRuns(late) == ~anim_is_complete(anim, anim_age, late)

\* Defect: the wake up asks for no render.
Wakes_Silently(late) ==
  /\ ~screen_on
  /\ screen_on' = TRUE
  /\ Render(FALSE)
  /\ UNCHANGED <<pageVars, animVars, enter_age, auto_off>>

\* "Screen off - any key wakes screen", and does nothing else.
Wakes(late) ==
  /\ ~screen_on
  /\ screen_on' = TRUE
  /\ Render(TRUE)
  /\ UNCHANGED <<pageVars, animVars, enter_age, auto_off>>

\* "Don't process keys during animation".
KeyIgnored(late) ==
  /\ screen_on /\ AnimationRuns(late)
  /\ screen_on' = screen_on
  /\ Render(FALSE)
  /\ UNCHANGED <<pageVars, animVars, enter_age, auto_off>>

Accepts(mode, late) == screen_on /\ ~AnimationRuns(late) /\ page_mode = mode

EndsEnterMode(key, long, late) ==
  /\ Accepts("ENTER", late) /\ key = "K2" /\ long
  /\ screen_on' = screen_on
  /\ exit_enter_mode(late)
  /\ enter_age' = late
  /\ Render(TRUE)
  /\ UNCHANGED auto_off

\* The page's on_key: it takes short keys only.
PageKey(key, long, late) ==
  /\ Accepts("ENTER", late) /\ ~(key = "K2" /\ long)
  /\ screen_on' = screen_on
  /\ anim' = "none" /\ enter_age' = late
  /\ \E taken \in BOOLEAN :
       /\ taken => ~long
       /\ auto_off' \in IF taken /\ key = "K2" /\ current_page = SettingsPage THEN BOOLEAN ELSE {auto_off}
       /\ Render(taken)
  /\ UNCHANGED <<pageVars, to_page, anim_age>>

SwitchesPage(key, long, late) ==
  /\ Accepts("VIEW", late) /\ key \in {"K1", "K3"} /\ ~long
  /\ screen_on' = screen_on
  /\ switch_page(IF key = "K1" THEN -1 ELSE 1, late)
  /\ Render(TRUE)
  /\ UNCHANGED <<enter_age, auto_off>>

EntersMode(key, long, late) ==
  /\ Accepts("VIEW", late) /\ key = "K2" /\ long
  /\ screen_on' = screen_on
  /\ try_enter_mode(late)
  /\ Render(TRUE)
  /\ UNCHANGED auto_off

TurnsOff(key, long, late) ==
  /\ Accepts("VIEW", late) /\ key = "K2" /\ ~long
  /\ screen_on' = FALSE
  /\ anim' = "none"
  /\ Render(TRUE)
  /\ UNCHANGED <<pageVars, to_page, anim_age, enter_age, auto_off>>

\* No page takes a key in view mode.
KeyUnused(key, long, late) ==
  /\ Accepts("VIEW", late) /\ key \in {"K1", "K3"} /\ long
  /\ screen_on' = screen_on
  /\ anim' = "none"
  /\ Render(FALSE)
  /\ UNCHANGED <<pageVars, to_page, anim_age, enter_age, auto_off>>

handle_button_event(key, long, late) ==
  /\ activity_age' = late
  /\ \/ Wakes(late)
     \/ KeyIgnored(late)
     \/ EndsEnterMode(key, long, late)
     \/ PageKey(key, long, late)
     \/ SwitchesPage(key, long, late)
     \/ EntersMode(key, long, late)
     \/ TurnsOff(key, long, late)
     \/ KeyUnused(key, long, late)
  /\ schedule_ui_timer(g_ui_timer)

----------------------------------------------------------------------------
(* page_controller_tick, in ui_controller_tick *)

\* Defects: the screen goes off in enter mode too; only at the very instant.
IdleTooLong_AnyMode == auto_off /\ screen_on /\ activity_age >= IDLE_TIMEOUT
IdleTooLong_Exactly == auto_off /\ screen_on /\ page_mode # "ENTER" /\ activity_age = IDLE_TIMEOUT

IdleTooLong == auto_off /\ screen_on /\ page_mode # "ENTER" /\ activity_age >= IDLE_TIMEOUT

\* Defect: the auto sleep setting governs enter mode as well.
EnterTooLong_AutoOff == auto_off /\ page_mode = "ENTER" /\ enter_age >= ENTER_TIMEOUT

EnterTooLong == page_mode = "ENTER" /\ enter_age >= ENTER_TIMEOUT

\* The exit animation starts in this tick, so it is not complete.
LeavesEnterMode == EnterTooLong /\ exit_enter_mode(0)

AnimationEnds ==
  /\ ~EnterTooLong
  /\ anim # "none" /\ anim_is_complete(anim, anim_age, 0)
  /\ current_page' = IF anim = "slide" THEN to_page ELSE current_page
  /\ anim' = "none"
  /\ UNCHANGED <<page_mode, entered, to_page, anim_age>>

NothingEnds ==
  /\ ~EnterTooLong
  /\ anim = "none" \/ ~anim_is_complete(anim, anim_age, 0)
  /\ UNCHANGED <<pageVars, animVars>>

\* A tick renders what it changed, every frame of an animation and, on a static
\* page, the status it has just gathered.
ui_timer_cb ==
  /\ g_ui_timer = 0
  /\ screen_on' = (screen_on /\ ~IdleTooLong)
  /\ LeavesEnterMode \/ AnimationEnds \/ NothingEnds
  /\ Render(IdleTooLong \/ EnterTooLong \/ anim # "none" \/ screen_on')
  /\ schedule_ui_timer(Off)
  /\ UNCHANGED <<activity_age, enter_age, auto_off>>

OneOlder(age) == IF age < AGE_MAX THEN age + 1 ELSE age

\* uloop may be late: a timer that is due stays at 0.
Tick ==
  /\ anim_age' = OneOlder(anim_age)
  /\ activity_age' = OneOlder(activity_age)
  /\ enter_age' = OneOlder(enter_age)
  /\ g_ui_timer' = IF g_ui_timer > 0 THEN g_ui_timer - 1 ELSE g_ui_timer
  /\ UNCHANGED <<screen_on, display_on, pageVars, anim, to_page, auto_off>>

----------------------------------------------------------------------------
\* ui_controller_init, and the first tick, render and timer of main.
Init ==
  /\ screen_on = TRUE /\ display_on = TRUE
  /\ current_page = 1 /\ page_mode = "VIEW" /\ entered = Off
  /\ anim = "none" /\ to_page = 0 /\ anim_age = AGE_MAX
  /\ activity_age = 0 /\ enter_age = AGE_MAX
  /\ auto_off = FALSE
  /\ g_ui_timer = UI_TICK_STATIC

Next ==
  \/ \E key \in Key, long \in BOOLEAN, late \in 0 .. MAX_LATE : handle_button_event(key, long, late)
  \/ ui_timer_cb
  \/ Tick

UiSafety == Init /\ [][Next]_vars

\* Time passes and uloop runs the timer when it is due.
UiSpec == UiSafety /\ WF_vars(Tick) /\ WF_vars(ui_timer_cb)

----------------------------------------------------------------------------
(* Properties *)

\* Types of all variables.
UiTypeOK ==
  /\ screen_on \in BOOLEAN /\ display_on \in BOOLEAN /\ auto_off \in BOOLEAN
  /\ current_page \in Page /\ to_page \in Page
  /\ page_mode \in {"VIEW", "ENTER"}
  /\ entered \in {Off} \cup Page
  /\ anim \in Anim
  /\ anim_age \in 0 .. AGE_MAX /\ activity_age \in 0 .. AGE_MAX /\ enter_age \in 0 .. AGE_MAX
  /\ g_ui_timer \in {Off} \cup 0 .. UI_TICK_ANIM + UI_TICK_STATIC

\* The controller only talks to the display in a render, and a handler renders
\* only when it thinks something changed: no handler forgets a switch of the
\* screen, so the panel never stays lit, or dark, against screen_state.
DisplayFollowsScreen == display_on = screen_on

\* The refresh policy (architecture.md: fast while animating, slow on a static
\* page, none with the screen off).  While the screen is on a timer is set, and no
\* animation waits for the slow one: otherwise the display freezes.
TimerFollowsScreen ==
  screen_on => g_ui_timer \in 0 .. (IF anim # "none" THEN UI_TICK_ANIM ELSE UI_TICK_STATIC)

\* on_enter and on_exit come in pairs, for the same page: the page that thinks it
\* has the keys is the one on display, in enter mode, and one that allows it.
EnteredPageIsCurrent ==
  entered = IF page_mode = "ENTER" /\ current_page \in CanEnter THEN current_page ELSE Off

\* Enter mode has a timeout, which needs the UI timer, which a dark screen does
\* not have: the screen never goes off in enter mode, whatever order the idle
\* timeout, the enter timeout and the keys come in.
DarkMeansView == ~screen_on => page_mode = "VIEW"

\* With auto sleep on and nobody at the keys, the screen goes off for good.
NoKeys == activity_age > MAX_LATE
IdleScreenGoesOff == <>[](NoKeys /\ auto_off) => <>[]~screen_on

\* Enter mode does not outlast the user, auto sleep or not.
IdleLeavesEnterMode == <>[]NoKeys => <>[](page_mode = "VIEW")
=============================================================================
