---------------------------- MODULE ThreadedGpio ----------------------------
(***************************************************************************)
(* The keys of the threaded version (ADR 0005): the driver                 *)
(* src_adr0005/hal/gpio_hal_libgpiod.c under the main loop of              *)
(* src_adr0005/event_loop.c, on the real lines.  poll tells the loop that  *)
(* edges are there; handle_gpio then takes events from wait_event(0) until *)
(* it returns no more, and only after it the timer and the control         *)
(* descriptor are looked at.                                               *)
(*                                                                         *)
(* libgpiod's gpiod_line_request_read_edge_events waits for an edge when   *)
(* the kernel has none, the descriptor of a line request being blocking    *)
(* unless its owner makes it otherwise (uloop does in the present version, *)
(* nobody does here); a signal handled by the main thread interrupts it.   *)
(*                                                                         *)
(* Time is counted in ticks, and instants are kept as ages, as in GpioHal: *)
(* press_age[b] is now - g_press_time_ms[b].                               *)
(***************************************************************************)
EXTENDS Integers, FiniteSetsExt, SequencesExt

CONSTANTS
  NUM_BUTTONS,
  LONG_PRESS,               \* LONG_PRESS_MS, in ticks
  DEBOUNCE,                 \* DEBOUNCE_MS, in ticks
  MAX_PENDING_EVENTS,       \* length of the driver's event queue
  READ_MAX,                 \* edges taken from the kernel in one read (16)
  MAX_GPIO_EVENTS_PER_POLL, \* events handled for one poll (16)
  FIFO_SIZE,                \* bound: edges the kernel holds
  MAX_LATE                  \* bound: ticks an edge waits to be read

Button == 1 .. NUM_BUTTONS
AGE_MAX == LONG_PRESS + DEBOUNCE + MAX_LATE

VARIABLES
  g_use_soft_debounce,
  level,       \* button -> the level of its line
  fifo,        \* edges in the kernel, oldest first
  g_pressed_level,
  keys,        \* the driver's state: [pressed, press_age, edge_age, pending]
  running,
  todo,        \* descriptors poll found readable and whose handler is to run
  handled,     \* events taken since poll
  timer,       \* the timerfd is readable
  eventfd,     \* the eventfd is readable
  shutdown_requested

loopState == <<running, todo, handled>>
wires == <<g_use_soft_debounce, g_pressed_level>>
control == <<eventfd, shutdown_requested>>
vars == <<wires, level, fifo, keys, loopState, timer, control>>

----------------------------------------------------------------------------
(* The driver *)

\* A full queue loses its oldest event.
pending_push(q, e) == Append(IF Len(q) >= MAX_PENDING_EVENTS THEN Tail(q) ELSE q, e)

\* The level most lines have is taken for that of a released button.
detect_pressed_level(levels) ==
  LET zeros == Cardinality({b \in Button : levels[b] = 0})
  IN IF zeros >= NUM_BUTTONS - zeros THEN 1 ELSE 0

Bounce(k, e) == g_use_soft_debounce /\ k.edge_age[e.line] - e.age < DEBOUNCE

Noted(k, e) == [k EXCEPT !.edge_age[e.line] = IF g_use_soft_debounce THEN e.age ELSE AGE_MAX]

Pressed(k, e) ==
  [Noted(k, e) EXCEPT !.pressed[e.line] = TRUE, !.press_age[e.line] = e.age]

Released(k, e) ==
  [Noted(k, e) EXCEPT
    !.pressed[e.line] = FALSE, !.press_age[e.line] = AGE_MAX,
    !.pending = pending_push(@, [line |-> e.line,
                                 long |-> k.press_age[e.line] - e.age >= LONG_PRESS])]

process_edge_event(k, e) ==
  CASE Bounce(k, e)                                        -> k
    [] ~Bounce(k, e) /\ e.level = g_pressed_level          -> Pressed(k, e)
    [] ~Bounce(k, e) /\ e.level # g_pressed_level /\ k.pressed[e.line]
                                                           -> Released(k, e)
    [] OTHER                                               -> Noted(k, e)

----------------------------------------------------------------------------
(* handle_gpio: wait_event(0) until it returns no event *)

InGpio == "gpio" \in todo /\ handled < MAX_GPIO_EVENTS_PER_POLL

\* wait_event returns the oldest event of k, which goes into the event queue
\* (ThreadedUi), and the loop goes on.
TakesEvent(k) ==
  /\ k.pending # <<>>
  /\ keys' = [k EXCEPT !.pending = Tail(k.pending)]
  /\ handled' = handled + 1
  /\ UNCHANGED todo

TakesNone(k) ==
  /\ k.pending = <<>>
  /\ keys' = k
  /\ todo' = todo \ {"gpio"}
  /\ UNCHANGED handled

wait_event_Pending ==
  /\ InGpio /\ TakesEvent(keys)
  /\ UNCHANGED <<wires, level, fifo, running, timer, control>>

\* The read waits here as long as there is no edge.
read_and_process_edges ==
  /\ InGpio /\ keys.pending = <<>> /\ fifo # <<>>
  /\ LET n == Min({READ_MAX, Len(fifo)})
         k == FoldLeft(process_edge_event, keys, SubSeq(fifo, 1, n))
     IN /\ fifo' = SubSeq(fifo, n + 1, Len(fifo))
        /\ TakesEvent(k) \/ TakesNone(k)
  /\ UNCHANGED <<wires, level, running, timer, control>>

event_loop_handle_gpio_Ends ==
  /\ "gpio" \in todo /\ handled = MAX_GPIO_EVENTS_PER_POLL
  /\ todo' = todo \ {"gpio"}
  /\ UNCHANGED <<wires, level, fifo, keys, running, handled, timer, control>>

----------------------------------------------------------------------------
(* The rest of the loop *)

event_loop_run ==
  /\ running /\ todo = {}
  /\ todo' = (IF fifo # <<>> THEN {"gpio"} ELSE {})
        \cup (IF timer THEN {"timer"} ELSE {}) \cup (IF eventfd THEN {"control"} ELSE {})
  /\ todo' # {}
  /\ handled' = 0
  /\ UNCHANGED <<wires, level, fifo, keys, running, timer, control>>

\* The tick is pushed into the event queue.
event_loop_handle_timer ==
  /\ "timer" \in todo /\ "gpio" \notin todo
  /\ timer' = FALSE /\ todo' = todo \ {"timer"}
  /\ UNCHANGED <<wires, level, fifo, keys, running, handled, control>>

event_loop_handle_control ==
  /\ todo = {"control"}
  /\ eventfd' = FALSE /\ todo' = {}
  /\ running' = ~shutdown_requested
  /\ UNCHANGED <<wires, level, fifo, keys, handled, timer, shutdown_requested>>

----------------------------------------------------------------------------
(* Around the program *)

\* A button is pressed or let go, or its contact bounces.
ButtonMoves(b) ==
  /\ Len(fifo) < FIFO_SIZE
  /\ level' = [level EXCEPT ![b] = 1 - @]
  /\ fifo' = Append(fifo, [line |-> b, level |-> level'[b], age |-> 0])
  /\ UNCHANGED <<wires, keys, loopState, timer, control>>

\* SIGTERM, handled by the main thread: a read that waits fails with EINTR.
handle_signal ==
  /\ ~shutdown_requested
  /\ shutdown_requested' = TRUE /\ eventfd' = TRUE
  /\ todo' = IF InGpio /\ keys.pending = <<>> /\ fifo = <<>> THEN todo \ {"gpio"} ELSE todo
  /\ UNCHANGED <<wires, level, fifo, keys, running, handled, timer>>

TimerExpires ==
  /\ running /\ ~timer /\ timer' = TRUE
  /\ UNCHANGED <<wires, level, fifo, keys, loopState, control>>

OneOlder(age) == IF age < AGE_MAX THEN age + 1 ELSE age

Tick ==
  /\ \A i \in DOMAIN fifo : fifo[i].age < MAX_LATE
  /\ fifo' = [i \in DOMAIN fifo |-> [fifo[i] EXCEPT !.age = @ + 1]]
  /\ keys' = [keys EXCEPT
       !.press_age = [b \in Button |-> OneOlder(@[b])],
       !.edge_age = [b \in Button |-> OneOlder(@[b])]]
  /\ UNCHANGED <<wires, level, loopState, timer, control>>

----------------------------------------------------------------------------
\* The state gpio_hal_libgpiod_init leaves, whatever is held down meanwhile.
Init ==
  /\ g_use_soft_debounce \in BOOLEAN
  /\ level \in [Button -> 0 .. 1]
  /\ g_pressed_level = detect_pressed_level(level)
  /\ fifo = <<>>
  /\ keys = [pressed   |-> [b \in Button |-> FALSE],
             press_age |-> [b \in Button |-> AGE_MAX],
             edge_age  |-> [b \in Button |-> AGE_MAX],
             pending   |-> <<>>]
  /\ running = TRUE /\ todo = {} /\ handled = 0
  /\ timer = FALSE /\ eventfd = FALSE /\ shutdown_requested = FALSE

MainLoop ==
  \/ wait_event_Pending \/ read_and_process_edges \/ event_loop_handle_gpio_Ends
  \/ event_loop_run \/ event_loop_handle_timer \/ event_loop_handle_control

Next ==
  \/ MainLoop
  \/ \E b \in Button : ButtonMoves(b)
  \/ handle_signal \/ TimerExpires \/ Tick

\* The main thread runs on as long as it can, and time passes; nobody has to
\* press a key.
KeysSpec == Init /\ [][Next]_vars /\ WF_vars(MainLoop) /\ WF_vars(Tick)

----------------------------------------------------------------------------
(* Properties *)

\* A tick that is due is pushed, or the loop ends.  ADR 0005 has the main thread
\* read the lines when they are readable; event_loop_handle_gpio asks again
\* after each event, when they may not be, and the loop's other descriptors
\* wait with it.
TimerIsServed == (running /\ timer) ~> (~timer \/ ~running)
=============================================================================
