----------------------------- MODULE ThreadedUi -----------------------------
(***************************************************************************)
(* The two threads of the threaded daemon (ADR 0005) that serve the user:   *)
(* the main thread, which starts everything, runs the event loop and ends   *)
(* everything (main.c, event_loop.c), and the UI thread (ui_thread.c,       *)
(* ui_controller.c, page_controller.c).  They share the event queue; the UI *)
(* thread asks for another timer period through pending_tick_ms and an      *)
(* eventfd.  EventQueue shows that a wait on the queue ends when there is   *)
(* something to take, so here a wait is one step; a push keeps its two ring *)
(* calls.                                                                   *)
(*                                                                          *)
(* wait_event(0) returns at once, as that of the mock does; what the driver  *)
(* of the real lines does instead is ThreadedGpio's subject.                *)
(*                                                                          *)
(* Time is left open: whether an animation is over, and whether the user    *)
(* has been idle long enough, is either answer at any event.  The           *)
(* end-to-end properties need only that the timer fires.                    *)
(***************************************************************************)
EXTENDS Integers, Sequences, FiniteSets

CONSTANTS
  CAPACITY,     \* slots of the event queue (main.c: 32)
  MAX_KEYS,     \* bound: presses, fewer than the 16 handled per poll
  ANIM_TICKS,   \* UI_DEFAULT_ANIM_TICKS, and bound: expirations a tick counts to
  MAX_EXPIRED,  \* bound: expirations between two looks at the timer
  PAGES,        \* number of pages
  Enterable,    \* pages with can_enter
  Keys          \* the presses the user makes: [key, long]

ASSUME ThreadedUiAssumption ==
  /\ CAPACITY \in Nat \ {0} /\ MAX_KEYS \in Nat /\ ANIM_TICKS \in Nat \ {0}
  /\ MAX_EXPIRED \in 1 .. ANIM_TICKS
  /\ PAGES \in Nat \ {0} /\ Enterable \subseteq 0 .. PAGES - 1
  /\ Keys \subseteq [key : {"K1", "K2", "K3"}, long : BOOLEAN]

OFF == 0
UI_ANIM_TICK_MS == 50
UI_IDLE_TICK_MS == 1000
Period == {OFF, UI_ANIM_TICK_MS, UI_IDLE_TICK_MS}
NoRequest == -1

\* The state of an animation; to_page counts for a slide only.
NoAnim == [type |-> "NONE"]
ModeAnim == [type |-> "MODE"]      \* entering, leaving, shaking the title
Slide(page) == [type |-> "SLIDE", to_page |-> page]

NoEvent == [type |-> "NONE", data |-> 0]
Tick(n) == [type |-> "TICK", data |-> n]
Shutdown == [type |-> "SHUTDOWN", data |-> 0]
Nothing == [ret |-> "OK", out |-> NoEvent]
Ticks == {Tick(n) : n \in 1 .. ANIM_TICKS}
Press(k) == [type |-> "KEY", data |-> k]
Event == {Press(k) : k \in Keys} \cup Ticks \cup {Shutdown}

\* What main acquires, in its order.
Resources == {"gpio", "display", "ubus", "events", "tasks", "results", "status",
              "loop", "worker", "worker thread", "ui thread"}

VARIABLES
  held,                     \* main: what is acquired and not yet released
  lpc, todo, back, retry,   \* main: where it is, what poll found, where a push returns
  pushed,                   \* what its last ring call returned
  running, shutdown_requested,
  keys_left,                \* environment: presses still to come
  timer, expired,           \* the timerfd: its period, expirations not read
  pending_tick_ms, eventfd, \* the request to the loop, and its wake-up
  signalling,               \* a signal handler between its two steps
  items, policy, merging, closed,  \* the event queue
  upc, popped,              \* the UI thread: where it is, the event it has
  ui_running, tick_ms, tick_active, anim_ticks_left,
  panel,                    \* the display is on
  screen_on, current_page, page_mode,
  anim                      \* what is being animated, if anything

ringVars == <<items, policy, merging>>
loopVars == <<lpc, todo, back, retry, pushed, running, keys_left>>
timerVars == <<timer, expired>>
requestVars == <<pending_tick_ms, eventfd>>
signalVars == <<shutdown_requested, signalling>>
tickVars == <<tick_ms, tick_active, anim_ticks_left>>
pageVars == <<screen_on, current_page, page_mode, anim>>
uiVars == <<upc, popped, tickVars, panel, pageVars>>
vars == <<held, loopVars, timerVars, requestVars, signalVars, ringVars, closed, ui_running, uiVars>>

Merged == [p \in Event \X Event |->
             IF p[1].type = "TICK" /\ p[2].type = "TICK"
             THEN Tick(IF p[1].data + p[2].data > ANIM_TICKS THEN ANIM_TICKS
                       ELSE p[1].data + p[2].data)
             ELSE NoEvent]

Pushing == INSTANCE BoundedQueue
  WITH Item <- Event, None <- NoEvent, Matches <- {Ticks}, last <- pushed
Popping == INSTANCE BoundedQueue
  WITH Item <- Event, None <- NoEvent, Matches <- {Ticks}, last <- popped

Init ==
  /\ held = {} /\ lpc = "gpio init"
  /\ todo = {} /\ back = "poll" /\ retry = NoEvent
  /\ pushed = Nothing
  /\ running = FALSE /\ shutdown_requested = FALSE /\ keys_left = MAX_KEYS
  /\ timer = OFF /\ expired = 0
  /\ pending_tick_ms = NoRequest /\ eventfd = FALSE /\ signalling = FALSE
  /\ items = <<>> /\ policy = "COALESCE" /\ merging = TRUE /\ closed = FALSE
  /\ upc = "none" /\ popped = Nothing
  /\ ui_running = FALSE /\ tick_ms = OFF /\ tick_active = FALSE /\ anim_ticks_left = 0
  /\ panel = FALSE
  /\ screen_on = TRUE /\ current_page = (IF PAGES > 1 THEN 1 ELSE 0)
  /\ page_mode = "VIEW" /\ anim = NoAnim

-----------------------------------------------------------------------------
(* main: start-up *)

Hal == {"gpio", "display", "ubus"}
Queues == {"events", "tasks", "results"}

\* Each step of the start-up: what it acquires, what its failure releases, what
\* comes next.  Without ubus or the sensors the daemon runs on: for what is told
\* here, as with them.
Acquires == [s \in {"gpio init", "display init", "ubus init", "event queue", "task queue",
                    "result queue", "status init", "loop init", "worker init", "worker start"} |->
  CASE s = "gpio init" -> "gpio" [] s = "display init" -> "display" [] s = "ubus init" -> "ubus"
    [] s = "event queue" -> "events" [] s = "task queue" -> "tasks" [] s = "result queue" -> "results"
    [] s = "status init" -> "status" [] s = "loop init" -> "loop" [] s = "worker init" -> "worker"
    [] s = "worker start" -> "worker thread"]

After == [s \in DOMAIN Acquires |->
  CASE s = "gpio init" -> "display init" [] s = "display init" -> "ubus init"
    [] s = "ubus init" -> "event queue" [] s = "event queue" -> "task queue"
    [] s = "task queue" -> "result queue" [] s = "result queue" -> "status init"
    [] s = "status init" -> "loop init" [] s = "loop init" -> "worker init"
    [] s = "worker init" -> "worker start" [] s = "worker start" -> "ui start"]

Unwinds == [s \in (DOMAIN Acquires \ {"ubus init", "status init"}) \cup {"ui start"} |->
  CASE s = "gpio init" -> {}
    [] s = "display init" -> {"gpio"}
    [] s = "event queue" -> Hal
    [] s = "task queue" -> Hal \cup {"events"}
    [] s = "result queue" -> Hal \cup {"events", "tasks"}
    [] s = "loop init" -> Hal \cup Queues \cup {"status"}
    [] s = "worker init" -> Hal \cup Queues \cup {"status", "loop"}
    [] s = "worker start" -> Hal \cup Queues \cup {"status", "loop", "worker"}
    [] s = "ui start" -> Hal \cup Queues \cup {"status", "loop", "worker", "worker thread"}]

Acquire ==
  /\ lpc \in DOMAIN Acquires
  /\ \/ held' = held \cup {Acquires[lpc]} /\ lpc' = After[lpc]
     \/ lpc \in DOMAIN Unwinds /\ held' = held \ Unwinds[lpc] /\ lpc' = "off"
  /\ UNCHANGED <<todo, back, retry, pushed, running, keys_left, timerVars, requestVars,
                 signalVars, ringVars, closed, ui_running, uiVars>>

\* ui_thread_start_default: the first picture and the request for the idle tick
\* come before the thread exists.
ui_thread_start_default ==
  /\ lpc = "ui start"
  /\ panel' = TRUE
  /\ pending_tick_ms' = UI_IDLE_TICK_MS /\ eventfd' = TRUE
  /\ tick_ms' = UI_IDLE_TICK_MS /\ tick_active' = TRUE
  /\ \/ /\ lpc' = "run" /\ held' = held \cup {"ui thread"}
        /\ ui_running' = TRUE /\ upc' = "top"
     \/ /\ lpc' = "off" /\ held' = held \ Unwinds["ui start"]
        /\ UNCHANGED <<ui_running, upc>>
  /\ UNCHANGED <<todo, back, retry, pushed, running, keys_left, timerVars, signalVars,
                 ringVars, closed, popped, anim_ticks_left, pageVars>>

-----------------------------------------------------------------------------
(* The event loop *)

\* event_loop_run stores running even when a signal has come before.
event_loop_run ==
  /\ lpc = "run" /\ lpc' = "poll" /\ running' = TRUE
  /\ UNCHANGED <<held, todo, back, retry, pushed, keys_left, timerVars, requestVars,
                 signalVars, ringVars, closed, ui_running, uiVars>>

Goes(pc) ==
  /\ lpc' = pc /\ pushed' = Nothing
  /\ UNCHANGED <<held, todo, back, retry, running, keys_left, timerVars, requestVars,
                 signalVars, ringVars, closed, ui_running, uiVars>>

\* What poll reports is a snapshot; the handlers run in this order.
Readable ==
  (IF keys_left > 0 THEN {"gpio"} ELSE {}) \cup (IF expired > 0 THEN {"timer"} ELSE {})
    \cup (IF eventfd THEN {"control"} ELSE {})

Poll ==
  /\ lpc = "poll" /\ running
  /\ \E fds \in SUBSET Readable :
       /\ fds # {} /\ Readable \ {"gpio"} \subseteq fds
       /\ todo' = fds
  /\ lpc' = "gpio" /\ pushed' = Nothing
  /\ UNCHANGED <<held, back, retry, running, keys_left, timerVars, requestVars,
                 signalVars, ringVars, closed, ui_running, uiVars>>

\* event_queue_push: a key or the shutdown that does not fit tries for a tick's slot.
Push(e, pc) ==
  /\ Pushing!Push(e)
  /\ IF pushed'.ret = "DROPPED" /\ e.type # "TICK"
     THEN lpc' = "replace" /\ back' = pc /\ retry' = e
     ELSE lpc' = pc /\ UNCHANGED <<back, retry>>

ReplaceTick ==
  /\ lpc = "replace" /\ lpc' = back /\ retry' = NoEvent /\ back' = "poll"
  /\ Pushing!ReplaceFirst(Ticks, retry)
  /\ UNCHANGED <<held, todo, running, keys_left, timerVars, requestVars, signalVars,
                 closed, ui_running, uiVars>>

handle_gpio ==
  /\ lpc = "gpio"
  /\ \/ Goes("timer")
     \/ /\ "gpio" \in todo /\ keys_left > 0
        /\ keys_left' = keys_left - 1
        /\ \E k \in Keys : Push(Press(k), "gpio")
        /\ UNCHANGED <<held, todo, running, timerVars, requestVars, signalVars, closed,
                       ui_running, uiVars>>

handle_timer ==
  /\ lpc = "timer"
  /\ \/ ("timer" \notin todo \/ expired = 0) /\ Goes("control")
     \/ /\ "timer" \in todo /\ expired > 0
        /\ expired' = 0
        /\ Push(Tick(expired), "control")
        /\ UNCHANGED <<held, todo, running, keys_left, timer, requestVars, signalVars, closed,
                       ui_running, uiVars>>

\* event_loop_handle_control: the eventfd is drained first, then the request is
\* taken, then the shutdown is looked at.
Drain ==
  /\ lpc = "control"
  /\ todo' = {} /\ pushed' = Nothing
  /\ \/ "control" \notin todo /\ lpc' = "poll" /\ UNCHANGED eventfd
     \/ "control" \in todo /\ lpc' = "take" /\ eventfd' = FALSE
  /\ UNCHANGED <<held, back, retry, running, keys_left, timerVars,
                 pending_tick_ms, signalVars, ringVars, closed, ui_running, uiVars>>

\* timerfd_settime starts the period anew and forgets what has expired.
event_loop_apply_tick(ms) == timer' = ms /\ expired' = 0

TakeRequest ==
  /\ lpc = "take" /\ lpc' = "shutdown?"
  /\ pending_tick_ms' = NoRequest
  /\ IF pending_tick_ms # NoRequest THEN event_loop_apply_tick(pending_tick_ms)
     ELSE UNCHANGED timerVars
  /\ UNCHANGED <<held, todo, back, retry, pushed, running, keys_left, eventfd, signalVars,
                 ringVars, closed, ui_running, uiVars>>

TakeShutdown ==
  /\ lpc = "shutdown?"
  /\ \/ ~shutdown_requested /\ Goes("poll")
     \/ /\ shutdown_requested /\ running' = FALSE
        /\ Push(Shutdown, "poll")
        /\ UNCHANGED <<held, todo, keys_left, timerVars, requestVars, signalVars, closed,
                       ui_running, uiVars>>

\* Defect: the timer is armed without an interval and fires once.
TimerFires_Once ==
  /\ timer # OFF /\ expired < MAX_EXPIRED /\ "loop" \in held
  /\ expired' = expired + 1 /\ timer' = OFF
  /\ UNCHANGED <<held, loopVars, requestVars, signalVars, ringVars, closed, ui_running, uiVars>>

TimerFires ==
  /\ timer # OFF /\ expired < MAX_EXPIRED /\ "loop" \in held
  /\ expired' = expired + 1
  /\ UNCHANGED <<held, loopVars, timer, requestVars, signalVars, ringVars, closed, ui_running, uiVars>>

\* handle_signal, on any thread: the flag, then the wake-up.
SignalArrives ==
  /\ lpc \notin DOMAIN Acquires \cup {"ui start", "off"} /\ ~shutdown_requested
  /\ shutdown_requested' = TRUE /\ signalling' = TRUE
  /\ UNCHANGED <<held, loopVars, timerVars, requestVars, ringVars, closed, ui_running, uiVars>>

SignalWrites ==
  /\ signalling /\ signalling' = FALSE
  /\ eventfd' = TRUE
  /\ UNCHANGED <<held, loopVars, timerVars, pending_tick_ms, shutdown_requested, ringVars,
                 closed, ui_running, uiVars>>

-----------------------------------------------------------------------------
(* main: shutdown *)

StopUi ==
  /\ lpc = "poll" /\ ~running /\ lpc' = "close" /\ ui_running' = FALSE
  /\ UNCHANGED <<held, todo, back, retry, pushed, running, keys_left, timerVars, requestVars,
                 signalVars, ringVars, closed, uiVars>>

\* Defect: the queue is not closed, only the flag is cleared.
CloseQueue_Not == lpc = "close" /\ Goes("join")

CloseQueue ==
  /\ lpc = "close" /\ lpc' = "join" /\ closed' = TRUE
  /\ UNCHANGED <<held, todo, back, retry, pushed, running, keys_left, timerVars, requestVars,
                 signalVars, ringVars, ui_running, uiVars>>

\* Defect: main does not wait for the UI thread.
Join_Not ==
  /\ lpc = "join" /\ lpc' = "tear down"
  /\ held' = held \ {"ui thread", "worker thread"}
  /\ UNCHANGED <<todo, back, retry, pushed, running, keys_left, timerVars, requestVars,
                 signalVars, ringVars, closed, ui_running, uiVars>>

Join ==
  /\ lpc = "join" /\ upc = "done" /\ lpc' = "tear down"
  /\ held' = held \ {"ui thread", "worker thread"}
  /\ UNCHANGED <<todo, back, retry, pushed, running, keys_left, timerVars, requestVars,
                 signalVars, ringVars, closed, ui_running, uiVars>>

\* Defect: the queue of results is forgotten.
TearDown_Leaves ==
  /\ lpc = "tear down" /\ lpc' = "off"
  /\ held' = held \ ({"worker", "loop", "status", "tasks", "events"} \cup Hal)
  /\ panel' = FALSE
  /\ UNCHANGED <<todo, back, retry, pushed, running, keys_left, timerVars, requestVars,
                 signalVars, ringVars, closed, ui_running, upc, popped, tickVars, pageVars>>

TearDown ==
  /\ lpc = "tear down" /\ lpc' = "off"
  /\ held' = held \ ({"worker", "loop", "status", "results", "tasks", "events"} \cup Hal)
  /\ panel' = FALSE
  /\ UNCHANGED <<todo, back, retry, pushed, running, keys_left, timerVars, requestVars,
                 signalVars, ringVars, closed, ui_running, upc, popped, tickVars, pageVars>>

-----------------------------------------------------------------------------
(* page_controller.c; the pages' own key handlers are ServicesPage's subject *)

try_enter_mode ==
  /\ anim' = ModeAnim
  /\ page_mode' = IF page_mode = "VIEW" /\ current_page \in Enterable THEN "ENTER" ELSE "VIEW"
  /\ UNCHANGED <<screen_on, current_page>>

\* The page changes when the slide is over.
switch_page(direction) ==
  /\ anim' = IF PAGES > 1 THEN Slide((current_page + direction + PAGES) % PAGES) ELSE NoAnim
  /\ UNCHANGED <<screen_on, current_page, page_mode>>

\* done: the animation, if any, is over.
page_controller_handle_key(k, done) ==
  \/ /\ ~screen_on /\ screen_on' = TRUE
     /\ UNCHANGED <<current_page, page_mode, anim>>
  \/ /\ screen_on /\ anim # NoAnim /\ ~done
     /\ UNCHANGED pageVars
  \/ /\ screen_on /\ (anim = NoAnim \/ done)
     /\ \/ k.key = "K2" /\ k.long /\ try_enter_mode
        \/ /\ page_mode = "VIEW" /\ k.key # "K2" /\ ~k.long
           /\ switch_page(IF k.key = "K1" THEN -1 ELSE 1)
        \/ /\ page_mode = "VIEW" /\ k.key = "K2" /\ ~k.long /\ current_page = 0
           /\ screen_on' = FALSE /\ anim' = NoAnim
           /\ UNCHANGED <<current_page, page_mode>>
        \/ /\ \/ page_mode = "ENTER" /\ ~(k.key = "K2" /\ k.long)
              \/ page_mode = "VIEW" /\ k.key # "K2" /\ k.long
              \/ page_mode = "VIEW" /\ k.key = "K2" /\ ~k.long /\ current_page # 0
           /\ anim' = NoAnim
           /\ UNCHANGED <<screen_on, current_page, page_mode>>

page_controller_tick(idle, done) ==
  /\ screen_on' = (screen_on /\ ~idle)
  /\ anim' = IF done THEN NoAnim ELSE anim
  /\ current_page' = IF anim.type = "SLIDE" /\ done THEN anim.to_page ELSE current_page
  /\ UNCHANGED page_mode

-----------------------------------------------------------------------------
(* ui_controller.c and ui_thread.c *)

evt == popped.out

\* ui_controller_handle_event with ui_controller_render.  The shutdown clears
\* power_on without asking for a picture, so the panel stays as it is.
Show(changed) ==
  panel' = IF screen_on' THEN TRUE ELSE IF changed THEN FALSE ELSE panel

ui_controller_handle_event ==
  \/ /\ evt.type = "SHUTDOWN" /\ UNCHANGED <<pageVars, panel>>
  \/ \E done \in BOOLEAN :
       /\ evt.type = "KEY"
       /\ page_controller_handle_key(evt.data, done)
       /\ Show(screen_on # screen_on' \/ screen_on')
  \/ \E idle, done \in BOOLEAN :
       /\ evt.type = "TICK"
       /\ page_controller_tick(idle, done)
       /\ Show((screen_on /\ idle) \/ anim # NoAnim)

\* ui_thread_apply_tick: pending_tick_ms is stored here, the eventfd written in
\* the next step.
ui_thread_apply_tick(ms) ==
  /\ tick_ms' = ms
  /\ IF ms = tick_ms THEN upc' = "handled" /\ UNCHANGED pending_tick_ms
     ELSE upc' = "write" /\ pending_tick_ms' = ms

ui_thread_stop_tick ==
  IF tick_active
  THEN ui_thread_apply_tick(OFF) /\ tick_active' = FALSE /\ anim_ticks_left' = 0
  ELSE upc' = "handled" /\ UNCHANGED <<tickVars, pending_tick_ms>>

ui_thread_start_tick ==
  /\ ui_thread_apply_tick(UI_ANIM_TICK_MS)
  /\ tick_active' = TRUE /\ anim_ticks_left' = ANIM_TICKS

ui_thread_switch_idle_tick ==
  /\ ui_thread_apply_tick(UI_IDLE_TICK_MS)
  /\ tick_active' = TRUE /\ anim_ticks_left' = 0

KeepAnimating ==
  /\ ui_thread_apply_tick(UI_ANIM_TICK_MS)
  /\ anim_ticks_left' = ANIM_TICKS /\ UNCHANGED tick_active

CountDown ==
  \/ /\ anim_ticks_left > 0 /\ evt.data >= anim_ticks_left
     /\ ui_thread_switch_idle_tick
  \/ /\ anim_ticks_left = 0 \/ evt.data < anim_ticks_left
     /\ anim_ticks_left' = IF anim_ticks_left = 0 THEN 0 ELSE anim_ticks_left - evt.data
     /\ upc' = "handled" /\ UNCHANGED <<tick_ms, tick_active, pending_tick_ms>>

\* ui_thread_default_handle, after the picture
SetTick ==
  \/ (evt.type = "SHUTDOWN" \/ ~screen_on') /\ ui_thread_stop_tick
  \/ /\ evt.type = "TICK" /\ screen_on' /\ ~tick_active
     /\ upc' = "handled" /\ UNCHANGED <<tickVars, pending_tick_ms>>
  \/ evt.type = "TICK" /\ screen_on' /\ tick_active /\ anim' # NoAnim /\ KeepAnimating
  \/ evt.type = "TICK" /\ screen_on' /\ tick_active /\ anim' = NoAnim /\ CountDown
  \/ evt.type = "KEY" /\ screen_on' /\ ui_thread_start_tick

Handle ==
  /\ upc = "handle"
  /\ ui_controller_handle_event /\ SetTick
  /\ UNCHANGED <<held, loopVars, timerVars, eventfd, signalVars, ringVars, closed, ui_running, popped>>

\* Defect: the request is stored, the loop is not woken.
WriteEventfd_Not ==
  /\ upc = "write" /\ upc' = "handled"
  /\ UNCHANGED <<held, loopVars, timerVars, requestVars, signalVars, ringVars, closed,
                 ui_running, popped, tickVars, panel, pageVars>>

\* event_loop_request_tick, its second half.
WriteEventfd ==
  /\ upc = "write" /\ upc' = "handled" /\ eventfd' = TRUE
  /\ UNCHANGED <<held, loopVars, timerVars, pending_tick_ms, signalVars, ringVars, closed,
                 ui_running, popped, tickVars, panel, pageVars>>

\* ui_thread_main: the flag is looked at before every wait, and the shutdown ends
\* the thread whatever the flag says.
Top ==
  /\ upc \in {"top", "handled"}
  /\ upc' = IF ui_running /\ evt.type # "SHUTDOWN" THEN "wait" ELSE "done"
  /\ popped' = Nothing
  /\ UNCHANGED <<held, loopVars, timerVars, requestVars, signalVars, ringVars, closed,
                 ui_running, tickVars, panel, pageVars>>

\* A closed queue may end the wait although it is not empty: a push between the
\* last look at the ring and the look at the flag.
Wait ==
  /\ upc = "wait"
  /\ \/ /\ items # <<>> /\ Popping!Pop /\ upc' = "handle"
        /\ UNCHANGED <<held, loopVars, timerVars, requestVars, signalVars, closed, ui_running,
                       tickVars, panel, pageVars>>
     \/ /\ closed /\ upc' = "top"
        /\ UNCHANGED <<held, loopVars, timerVars, requestVars, signalVars, ringVars, closed,
                       ui_running, popped, tickVars, panel, pageVars>>

-----------------------------------------------------------------------------
Loop ==
  \/ event_loop_run \/ Poll \/ ReplaceTick \/ handle_gpio \/ handle_timer
  \/ Drain \/ TakeRequest \/ TakeShutdown

End == StopUi \/ CloseQueue \/ Join \/ TearDown

Main == Acquire \/ ui_thread_start_default \/ Loop \/ End
Ui == Top \/ Wait \/ Handle \/ WriteEventfd

Next == Main \/ Ui \/ TimerFires \/ SignalArrives \/ SignalWrites

\* Both threads are scheduled, the kernel's timer runs and a signal handler that
\* has begun ends.
Fairness ==
  WF_vars(Main) /\ WF_vars(Ui) /\ WF_vars(TimerFires) /\ WF_vars(SignalWrites)

Spec == Init /\ [][Next]_vars /\ Fairness

-----------------------------------------------------------------------------
(* Properties *)

\* The order of main's shutdown: while the UI thread lives, the queues it waits on
\* and pushes to, the loop it asks and the display it draws on exist.
InUseIsHeld ==
  upc \notin {"none", "done"} => {"display", "events", "tasks", "results", "loop"} \subseteq held

\* Every exit of main, the failed starts included, releases what was acquired.
NothingLeaks == lpc = "off" => held = {}

\* event_loop_request_tick against event_loop_handle_control: a request for another
\* period is never lost between the two threads, the loop has it or will be woken.
RequestNotLost ==
  lpc \in {"poll", "gpio", "timer", "control"} /\ running /\ timer # tick_ms =>
    pending_tick_ms = tick_ms /\ (eventfd \/ upc = "write")

\* A lit screen gets its ticks: neither presses nor requests keep them away.
TicksKeepComing ==
  (screen_on /\ upc = "wait") ~> ((upc = "handle" /\ evt.type = "TICK") \/ ~screen_on \/ ~running)

\* A signal ends the daemon, even if the shutdown event finds no slot.
SignalEnds == shutdown_requested ~> lpc = "off"
=============================================================================
