------------------------- MODULE UiControllerProofs -------------------------
(***************************************************************************)
(* The invariants of UiController, for every number of pages, every period  *)
(* and every timeout.  Four of them are inductive together with one fact    *)
(* they do not state: a slide only runs in view mode.                       *)
(***************************************************************************)
EXTENDS UiController, TLAPS

\* In enter mode the page cannot change under the user: no slide is under way.
SlidesInView == page_mode = "ENTER" => anim # "slide" /\ current_page \in CanEnter

UiInv ==
  /\ UiTypeOK
  /\ DisplayFollowsScreen
  /\ TimerFollowsScreen
  /\ EnteredPageIsCurrent
  /\ DarkMeansView
  /\ SlidesInView

\* The ring of pages is closed under its two neighbours.
LEMMA NeighbourIsPage ==
  ASSUME current_page \in Page
  PROVE  Neighbour(-1) \in Page /\ Neighbour(1) \in Page
BY UiAssumption DEF Neighbour, Page

\* Both periods of the UI timer are positive and below the bound of its type.
LEMMA Periods ==
  /\ NextTimeout \in 0 .. UI_TICK_ANIM + UI_TICK_STATIC
  /\ NextTimeout = IF anim' # "none" THEN UI_TICK_ANIM ELSE UI_TICK_STATIC
  /\ NextTimeout \in Nat
BY UiAssumption DEF NextTimeout

\* An age that has just been reset to a time stamp, or to now, is an age.
LEMMA Ages ==
  /\ AGE_MAX \in Nat
  /\ 0 .. MAX_LATE \subseteq 0 .. AGE_MAX
  /\ 0 \in 0 .. AGE_MAX
BY UiAssumption DEF AGE_MAX

----------------------------------------------------------------------------
(* Keys *)

\* What the proof needs to know of a key, whichever way it takes: the types, that
\* the display was told, and how the modes moved.
KeyEffect ==
  /\ screen_on' \in BOOLEAN /\ display_on' = screen_on'
  /\ auto_off' \in BOOLEAN
  /\ current_page' = current_page
  /\ to_page' \in Page /\ anim' \in Anim
  /\ anim_age' \in 0 .. AGE_MAX /\ enter_age' \in 0 .. AGE_MAX
  /\ page_mode' \in {"VIEW", "ENTER"}
  /\ EnteredPageIsCurrent' /\ DarkMeansView' /\ SlidesInView'

\* page_controller_handle_key keeps every part of the invariant but the timer,
\* which is set after it.
LEMMA KeySteps ==
  ASSUME UiInv,
         NEW key \in Key, NEW long \in BOOLEAN, NEW late \in 0 .. MAX_LATE,
         handle_button_event(key, long, late)
  PROVE  KeyEffect
<1> USE Ages DEF UiInv, UiTypeOK, DisplayFollowsScreen, EnteredPageIsCurrent, DarkMeansView,
                 SlidesInView, Render, KeyEffect, pageVars, animVars
<1>late. late \in 0 .. AGE_MAX
  OBVIOUS
<1>1. CASE Wakes(late)
  BY <1>1 DEF Wakes
<1>2. CASE KeyIgnored(late)
  BY <1>2 DEF KeyIgnored
<1>3. CASE EndsEnterMode(key, long, late)
  BY <1>3, <1>late DEF EndsEnterMode, Accepts, exit_enter_mode, start_animation, Anim
<1>4. CASE PageKey(key, long, late)
  BY <1>4, <1>late DEF PageKey, Accepts, Anim
<1>5. CASE SwitchesPage(key, long, late)
  <2>1. to_page' \in Page
    BY <1>5, NeighbourIsPage DEF SwitchesPage, switch_page
  <2> QED
    BY <1>5, <1>late, <2>1 DEF SwitchesPage, Accepts, switch_page, start_animation, Anim
<1>6. CASE EntersMode(key, long, late)
  <2>1. CASE current_page \in CanEnter
    BY <1>6, <1>late, <2>1 DEF EntersMode, Accepts, try_enter_mode, start_animation, Anim
  <2>2. CASE current_page \notin CanEnter
    BY <1>6, <1>late, <2>2 DEF EntersMode, Accepts, try_enter_mode, start_animation, Anim
  <2> QED
    BY <2>1, <2>2
<1>7. CASE TurnsOff(key, long, late)
  BY <1>7 DEF TurnsOff, Accepts, Anim
<1>8. CASE KeyUnused(key, long, late)
  BY <1>8 DEF KeyUnused, Accepts, Anim
<1> QED
  BY <1>1, <1>2, <1>3, <1>4, <1>5, <1>6, <1>7, <1>8 DEF handle_button_event

\* A handled button event keeps the invariant.
LEMMA ButtonKeepsInv ==
  ASSUME UiInv,
         NEW key \in Key, NEW long \in BOOLEAN, NEW late \in 0 .. MAX_LATE,
         handle_button_event(key, long, late)
  PROVE  UiInv'
<1>1. KeyEffect
  BY KeySteps
<1>2. activity_age' \in 0 .. AGE_MAX
  BY Ages DEF handle_button_event
<1>3. entered' \in {Off} \cup Page
  BY <1>1 DEF KeyEffect, EnteredPageIsCurrent, UiInv, UiTypeOK
<1>4. g_ui_timer' = IF screen_on' THEN NextTimeout ELSE g_ui_timer
  BY DEF handle_button_event, schedule_ui_timer
<1>5. g_ui_timer' \in {Off} \cup 0 .. UI_TICK_ANIM + UI_TICK_STATIC
  BY <1>4, Periods DEF UiInv, UiTypeOK
<1>6. UiTypeOK'
  BY <1>1, <1>2, <1>3, <1>5 DEF KeyEffect, UiInv, UiTypeOK
<1>7. TimerFollowsScreen'
  BY <1>4, Periods DEF TimerFollowsScreen
<1> QED
  BY <1>1, <1>6, <1>7 DEF UiInv, KeyEffect, DisplayFollowsScreen

----------------------------------------------------------------------------
(* The UI timer and time *)

\* A tick of the UI timer keeps the invariant.  When the idle timeout and the enter
\* timeout fall together the idle one waits: it asks for view mode first.
LEMMA TimerKeepsInv ==
  ASSUME UiInv, ui_timer_cb
  PROVE  UiInv'
<1> USE Ages DEF UiInv
<1>0. UiTypeOK
  OBVIOUS
<1>1. screen_on' \in BOOLEAN /\ display_on' = screen_on'
  BY DEF ui_timer_cb, Render, IdleTooLong, UiTypeOK, DisplayFollowsScreen
<1>2. /\ current_page' \in Page /\ to_page' \in Page
      /\ anim' \in Anim /\ anim_age' \in 0 .. AGE_MAX
      /\ page_mode' \in {"VIEW", "ENTER"} /\ entered' \in {Off} \cup Page
  <2>1. CASE LeavesEnterMode
    BY <2>1 DEF LeavesEnterMode, exit_enter_mode, start_animation, Anim, UiTypeOK
  <2>2. CASE AnimationEnds
    BY <2>2 DEF AnimationEnds, Anim, UiTypeOK
  <2>3. CASE NothingEnds
    BY <2>3 DEF NothingEnds, pageVars, animVars, UiTypeOK
  <2> QED
    BY <2>1, <2>2, <2>3 DEF ui_timer_cb
<1>3. EnteredPageIsCurrent' /\ SlidesInView'
  <2>1. CASE LeavesEnterMode
    BY <2>1 DEF LeavesEnterMode, exit_enter_mode, start_animation, UiTypeOK, EnteredPageIsCurrent, SlidesInView
  <2>2. CASE AnimationEnds
    BY <2>2 DEF AnimationEnds, UiTypeOK, EnteredPageIsCurrent, SlidesInView
  <2>3. CASE NothingEnds
    BY <2>3 DEF NothingEnds, pageVars, animVars, EnteredPageIsCurrent, SlidesInView
  <2> QED
    BY <2>1, <2>2, <2>3 DEF ui_timer_cb
<1>4. DarkMeansView'
  <2>1. CASE LeavesEnterMode
    BY <2>1 DEF LeavesEnterMode, exit_enter_mode, DarkMeansView
  <2>2. CASE ~LeavesEnterMode
    <3>1. page_mode' = page_mode
      BY <2>2 DEF ui_timer_cb, AnimationEnds, NothingEnds, pageVars
    <3> QED
      BY <3>1 DEF ui_timer_cb, IdleTooLong, DarkMeansView, UiTypeOK
  <2> QED
    BY <2>1, <2>2
<1>5. g_ui_timer' = IF screen_on' THEN NextTimeout ELSE Off
  BY DEF ui_timer_cb, schedule_ui_timer
<1>6. TimerFollowsScreen'
  BY <1>1, <1>5, Periods DEF TimerFollowsScreen
<1>7. activity_age' = activity_age /\ enter_age' = enter_age /\ auto_off' = auto_off
  BY DEF ui_timer_cb
<1>8. g_ui_timer' \in {Off} \cup 0 .. UI_TICK_ANIM + UI_TICK_STATIC
  BY <1>1, <1>5, Periods
<1>9. UiTypeOK'
  BY <1>0, <1>1, <1>2, <1>7, <1>8 DEF UiTypeOK
<1> QED
  BY <1>1, <1>3, <1>4, <1>6, <1>9 DEF DisplayFollowsScreen

\* Time only lowers the UI timer, to 0 at the lowest.
LEMMA TickKeepsInv ==
  ASSUME UiInv, Tick
  PROVE  UiInv'
<1>1. \A age \in 0 .. AGE_MAX : OneOlder(age) \in 0 .. AGE_MAX
  BY Ages DEF OneOlder
<1>2. g_ui_timer' \in {Off} \cup 0 .. UI_TICK_ANIM + UI_TICK_STATIC
  BY UiAssumption DEF Tick, UiInv, UiTypeOK, Off
<1>3. UiTypeOK'
  BY <1>1, <1>2 DEF Tick, UiInv, UiTypeOK, pageVars
<1>4. TimerFollowsScreen'
  BY UiAssumption DEF Tick, UiInv, UiTypeOK, TimerFollowsScreen, Off
<1> QED
  BY <1>3, <1>4 DEF Tick, UiInv, DisplayFollowsScreen, EnteredPageIsCurrent, DarkMeansView,
                    SlidesInView, pageVars

----------------------------------------------------------------------------
(* The theorems *)

LEMMA UiInvInductive == UiSafety => []UiInv
<1>1. Init => UiInv
  <2> SUFFICES ASSUME Init PROVE UiInv
    OBVIOUS
  <2>1. current_page \in Page /\ to_page \in Page
    BY UiAssumption DEF Init, Page
  <2>2. g_ui_timer \in 0 .. UI_TICK_STATIC /\ g_ui_timer \in 0 .. UI_TICK_ANIM + UI_TICK_STATIC
    BY UiAssumption DEF Init
  <2>3. activity_age \in 0 .. AGE_MAX /\ anim_age \in 0 .. AGE_MAX /\ enter_age \in 0 .. AGE_MAX
    BY Ages DEF Init
  <2>4. screen_on \in BOOLEAN /\ display_on \in BOOLEAN /\ auto_off \in BOOLEAN
    BY DEF Init
  <2>5. UiTypeOK
    BY <2>1, <2>2, <2>3, <2>4 DEF Init, UiTypeOK, Anim
  <2> QED
    BY <2>2, <2>5 DEF Init, UiInv, DisplayFollowsScreen, TimerFollowsScreen, EnteredPageIsCurrent,
                      DarkMeansView, SlidesInView
<1>2. UiInv /\ [Next]_vars => UiInv'
  <2> SUFFICES ASSUME UiInv, [Next]_vars
               PROVE  UiInv'
    OBVIOUS
  <2>1. CASE \E key \in Key, long \in BOOLEAN, late \in 0 .. MAX_LATE : handle_button_event(key, long, late)
    BY <2>1, ButtonKeepsInv
  <2>2. CASE ui_timer_cb
    BY <2>2, TimerKeepsInv
  <2>3. CASE Tick
    BY <2>3, TickKeepsInv
  <2>4. CASE UNCHANGED vars
    BY <2>4 DEF vars, pageVars, animVars, UiInv, UiTypeOK, DisplayFollowsScreen, TimerFollowsScreen,
                EnteredPageIsCurrent, DarkMeansView, SlidesInView
  <2> QED
    BY <2>1, <2>2, <2>3, <2>4 DEF Next
<1> QED
  BY <1>1, <1>2, PTL DEF UiSafety

\* Every page number, mode, age and timer of the controller stays in its range,
\* the wrap at both ends of the ring of pages included.
THEOREM UiTypeCorrect == UiSafety => []UiTypeOK
<1>1. UiInv => UiTypeOK
  BY DEF UiInv
<1> QED
  BY <1>1, UiInvInductive, PTL

\* No handler ends with the panel lit, or dark, against screen_state.
THEOREM DisplayIsTold == UiSafety => []DisplayFollowsScreen
<1>1. UiInv => DisplayFollowsScreen
  BY DEF UiInv
<1> QED
  BY <1>1, UiInvInductive, PTL

\* While the screen is on the UI timer is set, at the pace of what is shown.
THEOREM ScreenNeverFreezes == UiSafety => []TimerFollowsScreen
<1>1. UiInv => TimerFollowsScreen
  BY DEF UiInv
<1> QED
  BY <1>1, UiInvInductive, PTL

\* A page that was entered stays on display until it is told that it was left.
THEOREM EnterPairsWithExit == UiSafety => []EnteredPageIsCurrent
<1>1. UiInv => EnteredPageIsCurrent
  BY DEF UiInv
<1> QED
  BY <1>1, UiInvInductive, PTL

\* The screen is never dark in enter mode, whatever the two timeouts are.
THEOREM NeverDarkInEnterMode == UiSafety => []DarkMeansView
<1>1. UiInv => DarkMeansView
  BY DEF UiInv
<1> QED
  BY <1>1, UiInvInductive, PTL
=============================================================================
