------------------------------ MODULE OldLoop -------------------------------
(***************************************************************************)
(* The single-threaded daemon before the rewrite (src_old/main.c): one loop *)
(* that waits for a button or the next deadline, handles the button, runs   *)
(* the timed tasks that are due and draws.  Buttons (gpio_button.c) are its *)
(* input: any event may come at any time.  Calls on ubus and page slides    *)
(* block the loop and let time pass, and so do the timed tasks, which       *)
(* reckon their new deadlines from the time before them.                    *)
(*                                                                          *)
(* Deadlines count down.                                                    *)
(***************************************************************************)
EXTENDS Integers, Sequences, FiniteSetsExt

CONSTANTS
  PAGE_COUNT, PAGE_SERVICES,        \* pages are 0 .. PAGE_COUNT - 1
  SERVICES,                         \* entries of services[]
  SHOWN_SERVICES,                   \* lines on the panel: 3
  FRAME_INTERVAL, FRAME_INTERVAL_ANIM, STATUS_UPDATE, SERVICE_REFRESH_INTERVAL,
  MENU_TIMEOUT, IDLE_FRAME,         \* in one unit of time
  TITLE_ANIM_ENTER_FRAMES, TITLE_ANIM_REJECT_FRAMES,
  BLOCKING                          \* bound: how long a handler, or a round of tasks, takes

ASSUME OldLoopAssumption ==
  /\ PAGE_COUNT \in Nat \ {0} /\ PAGE_SERVICES \in 0 .. PAGE_COUNT - 1
  /\ SERVICES \in Nat /\ SHOWN_SERVICES \in Nat
  /\ FRAME_INTERVAL_ANIM \in Nat \ {0} /\ FRAME_INTERVAL \in Nat \ {0}
  /\ STATUS_UPDATE \in Nat \ {0} /\ SERVICE_REFRESH_INTERVAL \in Nat \ {0}
  /\ MENU_TIMEOUT \in Nat \ {0} /\ IDLE_FRAME \in Nat \ {0}
  /\ TITLE_ANIM_ENTER_FRAMES \in Nat \ {0} /\ TITLE_ANIM_REJECT_FRAMES \in Nat \ {0}
  /\ BLOCKING \in Nat

Event == {"K1", "K2", "K3", "K2 long", "other long"}
Frames == [none |-> 0, enter |-> TITLE_ANIM_ENTER_FRAMES, reject |-> TITLE_ANIM_REJECT_FRAMES]

VARIABLES
  pc,                \* "wait", "handle", "tasks", "down"
  event,             \* what gpio_button_wait returned
  running,
  left,              \* time until next_frame, next_status, next_service, the menu's end
  spent,             \* time gone by, when the loop waits, since the now_ms the tasks worked with
  current_page, display_on, menu_active, menu_selected,
  title_anim,        \* [type, frame]
  dirty,
  services,          \* those that rc knows, in order: [svc, running]
  panel              \* what has been drawn last

vars == <<pc, event, running, left, spent, current_page, display_on, menu_active, menu_selected,
          title_anim, dirty, services, panel>>
viewVars == <<current_page, menu_active, menu_selected, services>>

-----------------------------------------------------------------------------
(* Services and drawing *)

Listing(S, r) ==
  [i \in 1 .. Cardinality(S) |->
     LET s == CHOOSE t \in S : Cardinality({u \in S : u < t}) = i - 1
     IN [svc |-> s, running |-> r[s]]]

\* sys_status_update_services: what rc does not answer for, or does not know, is left out.
Lists == {Listing(S, r) : S \in SUBSET (1 .. SERVICES), r \in [1 .. SERVICES -> BOOLEAN]}

\* Drawing the menu first brings the selection back into the list.
Selected(n, list) == IF list # <<>> /\ n >= Len(list) THEN 0 ELSE n

\* What a page shows: on the services page the first lines, in the menu with the
\* selected one inverted.  Values of the system are left out.
View(page, menu, selected, list) ==
  [page |-> page,
   menu |-> menu /\ page = PAGE_SERVICES,
   lines |-> IF page = PAGE_SERVICES THEN SubSeq(list, 1, Min({SHOWN_SERVICES, Len(list)})) ELSE <<>>,
   selected |-> IF menu /\ page = PAGE_SERVICES THEN selected ELSE 0]

NoAnim == [type |-> "none", frame |-> 0]
is_animating == title_anim.type # "none"

\* After a frame: the next one, or the end of the animation.
advance_title_anim(a) ==
  IF a.type # "none" /\ a.frame + 1 < Frames[a.type] THEN [a EXCEPT !.frame = @ + 1] ELSE NoAnim

Init ==
  /\ pc = "wait" /\ event = "none" /\ running = TRUE
  /\ left = [frame |-> FRAME_INTERVAL, status |-> STATUS_UPDATE,
             service |-> SERVICE_REFRESH_INTERVAL, menu |-> 0]
  /\ spent = 0
  /\ current_page \in {1 % PAGE_COUNT}
  /\ display_on = TRUE /\ menu_active = FALSE /\ menu_selected = 0
  /\ title_anim = NoAnim /\ dirty = FALSE
  /\ services \in Lists
  /\ panel = View(current_page, FALSE, 0, services)

-----------------------------------------------------------------------------
(* Waiting *)

\* Deadlines that are only compared with the present are counted no further once they are reached.
Pass(l, d) ==
  [frame |-> l.frame - d, status |-> Max({0, l.status - d}),
   service |-> Max({0, l.service - d}), menu |-> Max({-1, l.menu - d})]

\* The nearest deadline; those of the service list and of the menu only when they matter.
timeout ==
  Min({left.frame, left.status}
        \cup (IF current_page = PAGE_SERVICES THEN {left.service} ELSE {})
        \cup (IF menu_active THEN {left.menu} ELSE {}))

\* gpio_button_wait: an event at any time, none after the timeout or, while a button is
\* held, before.
gpio_button_wait ==
  /\ pc = "wait" /\ running /\ pc' = "handle" /\ spent' = 0
  /\ \E d \in 0 .. Max({0, timeout}) :
       /\ left' = Pass(left, d)
       /\ event' \in Event \cup (IF d > 0 \/ timeout <= 0 THEN {"none"} ELSE {})
  /\ UNCHANGED <<running, viewVars, display_on, title_anim, dirty, panel>>

-----------------------------------------------------------------------------
(* handle_button *)

Handled == pc = "handle" /\ pc' = "tasks" /\ event' = "none" /\ UNCHANGED <<running, spent>>
Quick == UNCHANGED left
Blocks(l) == \E d \in 0 .. BLOCKING : left' = Pass(l, d)

NoButton ==
  /\ Handled /\ event = "none" /\ Quick
  /\ UNCHANGED <<viewVars, display_on, title_anim, dirty, panel>>

\* Any button wakes the display, and does no more.
Wake ==
  /\ Handled /\ event # "none" /\ ~display_on
  /\ display_on' = TRUE /\ dirty' = TRUE /\ Quick
  /\ UNCHANGED <<viewVars, title_anim, panel>>

Pressed(e) == Handled /\ event = e /\ display_on

\* handle_button starts a menu command by bringing the selection back into the list.
Current == Selected(menu_selected, services)

MenuMove(e, step) ==
  /\ Pressed(e) /\ menu_active /\ services # <<>>
  /\ menu_selected' = (Current + step) % Len(services)
  /\ left' = [left EXCEPT !.menu = MENU_TIMEOUT] /\ dirty' = TRUE
  /\ UNCHANGED <<current_page, menu_active, services, display_on, title_anim, panel>>

\* ubus_service_action blocks; when it succeeds the state is flipped at once.
MenuAct ==
  /\ Pressed("K2") /\ menu_active /\ services # <<>>
  /\ menu_selected' = Current
  /\ services' \in {services, [services EXCEPT ![Current + 1].running = ~@]}
  /\ \E d \in 0 .. BLOCKING : left' = [Pass(left, d) EXCEPT !.menu = MENU_TIMEOUT]
  /\ dirty' = TRUE
  /\ UNCHANGED <<current_page, menu_active, display_on, title_anim, panel>>

MenuExit ==
  /\ Pressed("K2 long") /\ menu_active
  /\ menu_selected' = Current
  /\ menu_active' = FALSE /\ dirty' = TRUE /\ Quick
  /\ UNCHANGED <<current_page, services, display_on, title_anim, panel>>

\* An empty list and the other long presses leave the menu as it is.
MenuIgnores ==
  /\ Handled /\ display_on /\ menu_active /\ Quick
  /\ event = "other long" \/ (event \in {"K1", "K2", "K3"} /\ services = <<>>)
  /\ menu_selected' = Current
  /\ UNCHANGED <<current_page, menu_active, services, display_on, title_anim, dirty, panel>>

\* Turning the page refreshes the list when the services page is left or reached, then
\* slides, and leaves the new page on the panel.
TurnPage(e, step) ==
  /\ Pressed(e) /\ ~menu_active
  /\ current_page' = (current_page + step) % PAGE_COUNT
  /\ IF PAGE_SERVICES \in {current_page, current_page'} THEN services' \in Lists ELSE UNCHANGED services
  /\ Blocks(left)
  /\ panel' = View(current_page', FALSE, menu_selected, services')
  /\ UNCHANGED <<menu_active, menu_selected, display_on, title_anim, dirty>>

\* Defect: the menu, too, lets K2 switch the display off.
PowerOff_FromMenu ==
  /\ Pressed("K2") /\ Quick
  /\ display_on' = FALSE /\ title_anim' = NoAnim
  /\ UNCHANGED <<viewVars, dirty, panel>>

\* toggle_display: the animation ends with it.
PowerOff ==
  /\ Pressed("K2") /\ ~menu_active /\ Quick
  /\ display_on' = FALSE /\ title_anim' = NoAnim
  /\ UNCHANGED <<viewVars, dirty, panel>>

start_title_anim(type) == title_anim' = [type |-> type, frame |-> 0] /\ dirty' = TRUE

\* menu_enter takes the time before it asks for the services.
MenuEnter ==
  /\ Pressed("K2 long") /\ ~menu_active /\ current_page = PAGE_SERVICES
  /\ menu_active' = TRUE /\ menu_selected' = 0
  /\ services' \in Lists
  /\ Blocks([left EXCEPT !.menu = MENU_TIMEOUT])
  /\ start_title_anim("enter")
  /\ UNCHANGED <<current_page, display_on, panel>>

Reject ==
  /\ Pressed("K2 long") /\ ~menu_active /\ current_page # PAGE_SERVICES /\ Quick
  /\ start_title_anim("reject")
  /\ UNCHANGED <<viewVars, display_on, panel>>

PageIgnores ==
  /\ Pressed("other long") /\ ~menu_active /\ Quick
  /\ UNCHANGED <<viewVars, display_on, title_anim, dirty, panel>>

handle_button ==
  \/ NoButton \/ Wake
  \/ MenuMove("K1", -1) \/ MenuMove("K3", 1) \/ MenuAct \/ MenuExit \/ MenuIgnores
  \/ TurnPage("K1", -1) \/ TurnPage("K3", 1)
  \/ PowerOff \/ MenuEnter \/ Reject \/ PageIgnores

-----------------------------------------------------------------------------
(* The timed tasks and the drawing *)

StatusDue == left.status = 0
ServicesDue == current_page = PAGE_SERVICES /\ left.service = 0

\* Defect: the menu outlives its deadline by a moment.
MenuDue_Late == menu_active /\ left.menu < 0

MenuDue == menu_active /\ left.menu <= 0

\* Defect: the end of the menu draws nothing.
Redraw_NotMenu == dirty \/ StatusDue \/ ServicesDue

\* Each of the tasks asks for a redraw.
Redraw == dirty \/ StatusDue \/ ServicesDue \/ MenuDue

\* The next frame on the grid of intervals that lies ahead.
NextFrame(frame, interval) == CHOOSE n \in 1 .. interval : (n - frame) % interval = 0

\* Defect: refreshing the list counts as an input to the menu.
Restart_Touching(l) ==
  [l EXCEPT !.status = IF StatusDue THEN STATUS_UPDATE ELSE @,
            !.service = IF ServicesDue THEN SERVICE_REFRESH_INTERVAL ELSE @,
            !.menu = IF ~menu_active' THEN 0 ELSE IF ServicesDue THEN MENU_TIMEOUT ELSE @]

\* A task that was due is due again an interval from now.
Restart(l) ==
  [l EXCEPT !.status = IF StatusDue THEN STATUS_UPDATE ELSE @,
            !.service = IF ServicesDue THEN SERVICE_REFRESH_INTERVAL ELSE @,
            !.menu = IF menu_active' THEN @ ELSE 0]

\* A frame that is needed is drawn at once if the next one is more than a frame of
\* animation away, otherwise when that one is due.
need_render == Redraw \/ is_animating
FrameTime == IF left.frame > FRAME_INTERVAL_ANIM THEN 0 ELSE left.frame
Renders == need_render /\ FrameTime <= 0

Draw ==
  IF display_on
  THEN /\ menu_selected' = IF menu_active' /\ current_page = PAGE_SERVICES
                           THEN Selected(menu_selected, services') ELSE menu_selected
       /\ panel' = View(current_page, menu_active', menu_selected', services')
       /\ title_anim' = advance_title_anim(title_anim)
  ELSE UNCHANGED <<menu_selected, panel, title_anim>>

next_frame ==
  IF ~need_render THEN IDLE_FRAME
  ELSE IF ~Renders THEN FrameTime
  ELSE NextFrame(FrameTime, IF title_anim'.type # "none" THEN FRAME_INTERVAL_ANIM ELSE FRAME_INTERVAL)

\* Reading the sensors, asking rc for the services and drawing take time.
Toil == IF StatusDue \/ ServicesDue \/ (Renders /\ display_on) THEN BLOCKING ELSE 0

\* All deadlines are compared with, and set from, the time before the tasks.
Tasks ==
  /\ pc = "tasks" /\ pc' = IF running THEN "wait" ELSE "down"
  /\ IF ServicesDue THEN services' \in Lists ELSE UNCHANGED services
  /\ menu_active' = (menu_active /\ ~MenuDue)
  /\ IF Renders THEN Draw /\ dirty' = FALSE
     ELSE dirty' = Redraw /\ UNCHANGED <<menu_selected, panel, title_anim>>
  /\ \E d \in 0 .. Toil :
       spent' = d /\ left' = Pass([Restart(left) EXCEPT !.frame = next_frame], d)
  /\ UNCHANGED <<event, running, current_page, display_on>>

signal_handler ==
  /\ running /\ running' = FALSE
  /\ UNCHANGED <<pc, event, left, spent, viewVars, display_on, title_anim, dirty, panel>>

\* A signal interrupts the wait, or is seen at the head of the loop.
Interrupted ==
  /\ pc = "wait" /\ ~running /\ pc' = "down"
  /\ UNCHANGED <<event, running, left, spent, viewVars, display_on, title_anim, dirty, panel>>

Loop == gpio_button_wait \/ handle_button \/ Tasks \/ Interrupted

Next == Loop \/ signal_handler \/ (pc = "down" /\ UNCHANGED vars)

Spec == Init /\ [][Next]_vars /\ WF_vars(Loop)

-----------------------------------------------------------------------------
(* Properties *)

\* Nothing that is due is left for another round (the timed tasks of main): the handlers
\* may have blocked past several deadlines, but when the loop waits again every deadline it
\* waits for lies ahead of the time the tasks looked at.  It may have passed since, while
\* they ran; poll then returns at once, and only for as long as the tasks keep it busy.
NothingLeftDue == pc = "wait" => timeout + spent > 0

\* The panel shows what the program acts on: when the loop waits with the display on and
\* nothing to draw, page, menu, selection and service states on the panel are those of
\* the variables, though eight places change them and each must ask for the redraw.
PanelIsCurrent ==
  pc = "wait" /\ display_on /\ ~dirty =>
    panel = View(current_page, menu_active, menu_selected, services)

\* A menu is only ever open on the services page of a lit display, and nothing is
\* animated in the dark, where no frame would end it ("avoid idle spinning").
MenuIsVisible ==
  /\ menu_active => display_on /\ current_page = PAGE_SERVICES
  /\ ~display_on => ~is_animating

\* Left alone, an open menu closes (or the daemon ends).
MenuEnds == <>[](event = "none") => []<>(~menu_active \/ pc = "down")
=============================================================================
