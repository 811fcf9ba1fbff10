------------------------------ MODULE GpioHal ------------------------------
(***************************************************************************)
(* The buttons (src/src/hal/gpio_hal_libgpiod.c) and the loop of main.c    *)
(* that reads them: the kernel queues the edges of the button lines,       *)
(* uloop calls gpio_fd_cb when the line fd or the long-press timerfd is    *)
(* readable, and gpio_fd_cb calls read_event until it has no more to tell.  *)
(*                                                                         *)
(* Time is counted in ticks.  The instants the code stores are kept as     *)
(* ages: press_age[b] is now - g_press_time_ms[b], edge_age[b] is now -    *)
(* g_last_edge_ms[b].  The edges read in one go are processed one by one   *)
(* (`batch`), and the clock may move between any two steps, as it may      *)
(* between the time_hal_now_ms calls of the code.                          *)
(***************************************************************************)
EXTENDS Integers, Sequences, FiniteSets, FiniteSetsExt

CONSTANTS
  GPIO_NUM_BUTTONS,
  GPIO_LONG_PRESS,    \* GPIO_LONG_PRESS_MS, in ticks
  GPIO_DEBOUNCE,      \* GPIO_DEBOUNCE_MS, in ticks
  MAX_PENDING_EVENTS, \* length of the event queue g_pending
  READ_MAX,           \* edges taken from the kernel in one read (16)
  FIFO_SIZE,          \* bound: edges the kernel holds
  MAX_LATE            \* bound: ticks an edge waits to be processed

ASSUME GpioAssumption ==
  /\ GPIO_NUM_BUTTONS \in Nat \ {0}
  /\ GPIO_LONG_PRESS \in Nat \ {0}
  /\ GPIO_DEBOUNCE \in Nat
  /\ READ_MAX \in Nat \ {0} /\ FIFO_SIZE \in Nat \ {0} /\ MAX_LATE \in Nat
  /\ MAX_PENDING_EVENTS \in Nat
  /\ READ_MAX <= MAX_PENDING_EVENTS /\ GPIO_NUM_BUTTONS <= MAX_PENDING_EVENTS

Button == 1 .. GPIO_NUM_BUTTONS
AGE_MAX == GPIO_LONG_PRESS + GPIO_DEBOUNCE + MAX_LATE
Off == -1

Edge == [line : Button, press : BOOLEAN, age : 0 .. MAX_LATE]
Event == [line : Button, long : BOOLEAN]

VARIABLES
  g_use_soft_debounce,
  down,        \* button -> it is held down
  fifo,        \* edges in the kernel, oldest first
  batch,       \* edges read and not yet processed
  g_pressed,
  press_age,
  g_long_sent,
  edge_age,
  g_timer,     \* ticks until the timerfd is readable, or Off
  g_pending,   \* events not yet handed to main
  calls,       \* calls of gpio_fd_cb uloop still has to make
  told         \* button -> events pushed for it since its last accepted press

buttonState == <<g_pressed, press_age, g_long_sent, edge_age, g_timer>>
vars == <<g_use_soft_debounce, down, fifo, batch, buttonState, g_pending, calls, told>>

InCallback == calls > 0
FdReadable == fifo # <<>>
TimerReadable == g_timer = 0

----------------------------------------------------------------------------
(* The long-press timer *)

Remaining(age) == IF age < GPIO_LONG_PRESS THEN GPIO_LONG_PRESS - age ELSE 0

\* The loop over the waiting buttons W, which takes next_delay_ms = 0 for "none
\* yet": a button that is due sets it to 0, and the next one replaces it.
NextDelay(W, ages) ==
  LET lastDue == Max({0} \cup {b \in W : Remaining(ages[b]) = 0})
      after   == {Remaining(ages[b]) : b \in {w \in W : w > lastDue}}
  IN IF after = {} THEN 0 ELSE Min(after)

\* The long press the timer is for: the button is held and nothing was sent yet.
WaitingIn(pressed, sent) == {b \in Button : pressed[b] /\ ~sent[b]}

Waiting == WaitingIn(g_pressed, g_long_sent)

\* "Fire asap", one millisecond, is no tick at all.
update_long_press_timer_locked ==
  LET W == WaitingIn(g_pressed', g_long_sent')
  IN g_timer' = IF W = {} THEN Off ELSE NextDelay(W, press_age')

----------------------------------------------------------------------------
(* The event queue *)

\* A full queue loses its oldest event.
pending_push(q, e) ==
  Append(IF Len(q) >= MAX_PENDING_EVENTS THEN Tail(q) ELSE q, e)

\* The long presses of the buttons in D, in the order of their lines.
LongEvents(D) ==
  {q \in [1 .. Cardinality(D) -> [line : D, long : {TRUE}]] :
     \A i, j \in DOMAIN q : i < j => q[i].line < q[j].line}

----------------------------------------------------------------------------
(* read_event *)

\* Defect: gpio_fd_cb reads one event per call.
pending_pop_Once ==
  /\ InCallback /\ batch = <<>> /\ g_pending # <<>>
  /\ g_pending' = Tail(g_pending)
  /\ calls' = calls - 1
  /\ UNCHANGED <<g_use_soft_debounce, down, fifo, batch, buttonState, told>>

\* An event is waiting: hand it out, and the loop of gpio_fd_cb calls again.
pending_pop ==
  /\ InCallback /\ batch = <<>> /\ g_pending # <<>>
  /\ g_pending' = Tail(g_pending)
  /\ UNCHANGED <<g_use_soft_debounce, down, fifo, batch, buttonState, calls, told>>

\* Defect: the timer, once drained, is not set again for the other buttons.
handle_long_press_timer_locked_NoRearm(due) ==
  /\ InCallback /\ batch = <<>> /\ g_pending = <<>>
  /\ due = {b \in Waiting : press_age[b] >= GPIO_LONG_PRESS}
  /\ g_long_sent' = [b \in Button |-> g_long_sent[b] \/ b \in due]
  /\ g_pending' \in LongEvents(due)
  /\ told' = [b \in Button |-> IF b \in due THEN told[b] + 1 ELSE told[b]]
  /\ g_timer' = IF g_timer = 0 THEN Off ELSE g_timer
  /\ UNCHANGED <<g_use_soft_debounce, down, g_pressed, press_age, edge_age>>

\* None is: the timer is drained and the long presses that are due are sent.
handle_long_press_timer_locked(due) ==
  /\ InCallback /\ batch = <<>> /\ g_pending = <<>>
  /\ due = {b \in Waiting : press_age[b] >= GPIO_LONG_PRESS}
  /\ g_long_sent' = [b \in Button |-> g_long_sent[b] \/ b \in due]
  /\ g_pending' \in LongEvents(due)
  /\ told' = [b \in Button |-> IF b \in due THEN told[b] + 1 ELSE told[b]]
  /\ UNCHANGED <<g_use_soft_debounce, down, g_pressed, press_age, edge_age>>
  /\ update_long_press_timer_locked

SendLongPresses ==
  \E due \in SUBSET Button :
    /\ due # {}
    /\ handle_long_press_timer_locked(due)
    /\ UNCHANGED <<fifo, batch, calls>>

\* Defect: the edges are read before the timer is looked at.
ReadEdges_TimerLast ==
  /\ InCallback /\ batch = <<>> /\ g_pending = <<>> /\ fifo # <<>>
  /\ LET n == Min({READ_MAX, Len(fifo)})
     IN batch' = SubSeq(fifo, 1, n) /\ fifo' = SubSeq(fifo, n + 1, Len(fifo))
  /\ UNCHANGED <<g_use_soft_debounce, down, buttonState, g_pending, calls, told>>

\* Defect: edges are read on top of the events that still wait to be handed out.
ReadEdges_QueueLast ==
  /\ InCallback /\ batch = <<>> /\ fifo # <<>>
  /\ {b \in Waiting : press_age[b] >= GPIO_LONG_PRESS} = {}
  /\ LET n == Min({READ_MAX, Len(fifo)})
     IN batch' = SubSeq(fifo, 1, n) /\ fifo' = SubSeq(fifo, n + 1, Len(fifo))
  /\ UNCHANGED <<g_use_soft_debounce, down, buttonState, g_pending, calls, told>>

\* No long press either: take the edges the kernel has.
ReadEdges ==
  /\ handle_long_press_timer_locked({})
  /\ fifo # <<>>
  /\ LET n == Min({READ_MAX, Len(fifo)})
     IN batch' = SubSeq(fifo, 1, n) /\ fifo' = SubSeq(fifo, n + 1, Len(fifo))
  /\ UNCHANGED calls

\* Nothing to read (EAGAIN, 0): the callback ends.
ReadsNothing ==
  /\ handle_long_press_timer_locked({})
  /\ fifo = <<>>
  /\ calls' = calls - 1
  /\ UNCHANGED <<fifo, batch>>

\* The read failed (-1): the callback ends, the edges stay where they are.
ReadFails ==
  /\ handle_long_press_timer_locked({})
  /\ calls' = calls - 1
  /\ UNCHANGED <<fifo, batch>>

Bounce(e) == g_use_soft_debounce /\ edge_age[e.line] - e.age < GPIO_DEBOUNCE

EdgeIgnored(e) == Bounce(e) /\ UNCHANGED <<buttonState, g_pending, told>>

\* g_last_edge_ms is only read by the software debounce.
EdgeNoted(e) ==
  /\ ~Bounce(e)
  /\ edge_age' = [edge_age EXCEPT ![e.line] = IF g_use_soft_debounce THEN e.age ELSE AGE_MAX]

ButtonPressed(e) ==
  /\ e.press
  /\ EdgeNoted(e)
  /\ g_pressed' = [g_pressed EXCEPT ![e.line] = TRUE]
  /\ press_age' = [press_age EXCEPT ![e.line] = e.age]
  /\ g_long_sent' = [g_long_sent EXCEPT ![e.line] = FALSE]
  /\ told' = [told EXCEPT ![e.line] = 0]
  /\ update_long_press_timer_locked
  /\ UNCHANGED g_pending

\* Defect: a release is a short press, whatever was sent before.
ButtonReleased_AlwaysShort(e) ==
  /\ ~e.press /\ g_pressed[e.line]
  /\ EdgeNoted(e)
  /\ g_pressed' = [g_pressed EXCEPT ![e.line] = FALSE]
  /\ press_age' = [press_age EXCEPT ![e.line] = AGE_MAX]
  /\ g_long_sent' = [g_long_sent EXCEPT ![e.line] = FALSE]
  /\ g_pending' = pending_push(g_pending, [line |-> e.line, long |-> FALSE])
  /\ told' = [told EXCEPT ![e.line] = @ + 1]
  /\ update_long_press_timer_locked

\* A short press, unless the long press of this hold was sent.
ButtonReleased(e) ==
  /\ ~e.press /\ g_pressed[e.line]
  /\ EdgeNoted(e)
  /\ g_pressed' = [g_pressed EXCEPT ![e.line] = FALSE]
  /\ press_age' = [press_age EXCEPT ![e.line] = AGE_MAX]
  /\ g_long_sent' = [g_long_sent EXCEPT ![e.line] = FALSE]
  /\ IF g_long_sent[e.line]
     THEN UNCHANGED <<g_pending, told>>
     ELSE /\ g_pending' = pending_push(g_pending, [line |-> e.line, long |-> FALSE])
          /\ told' = [told EXCEPT ![e.line] = @ + 1]
  /\ update_long_press_timer_locked

ReleaseUnmatched(e) ==
  /\ ~e.press /\ ~g_pressed[e.line]
  /\ EdgeNoted(e)
  /\ UNCHANGED <<g_pressed, press_age, g_long_sent, g_timer, g_pending, told>>

\* read_event ends with the batch: 1 when an event is there (pending_pop), else
\* 0, which ends the callback.
process_edge_event ==
  /\ batch # <<>>
  /\ LET e == Head(batch)
     IN EdgeIgnored(e) \/ ButtonPressed(e) \/ ButtonReleased(e) \/ ReleaseUnmatched(e)
  /\ batch' = Tail(batch)
  /\ calls' = IF batch' = <<>> /\ g_pending' = <<>> THEN calls - 1 ELSE calls
  /\ UNCHANGED <<g_use_soft_debounce, down, fifo>>

----------------------------------------------------------------------------
(* Around the program *)

\* uloop finds one or both descriptors readable and makes a call for each.
gpio_fd_cb ==
  /\ ~InCallback
  /\ FdReadable \/ TimerReadable
  /\ calls' = IF FdReadable /\ TimerReadable THEN 2 ELSE 1
  /\ UNCHANGED <<g_use_soft_debounce, down, fifo, batch, buttonState, g_pending, told>>

\* A button is pressed or let go, or its contact bounces.
ButtonMoves(b) ==
  /\ Len(fifo) < FIFO_SIZE
  /\ down' = [down EXCEPT ![b] = ~@]
  /\ fifo' = Append(fifo, [line |-> b, press |-> down'[b], age |-> 0])
  /\ UNCHANGED <<g_use_soft_debounce, batch, buttonState, g_pending, calls, told>>

Older(q) == [i \in DOMAIN q |-> [q[i] EXCEPT !.age = @ + 1]]
AllYoung(q) == \A i \in DOMAIN q : q[i].age < MAX_LATE
OneOlder(age) == IF age < AGE_MAX THEN age + 1 ELSE age

Tick ==
  /\ AllYoung(fifo) /\ AllYoung(batch)
  /\ fifo' = Older(fifo) /\ batch' = Older(batch)
  /\ press_age' = [b \in Button |-> OneOlder(press_age[b])]
  /\ edge_age' = [b \in Button |-> OneOlder(edge_age[b])]
  /\ g_timer' = IF g_timer > 0 THEN g_timer - 1 ELSE g_timer
  /\ UNCHANGED <<g_use_soft_debounce, down, g_pressed, g_long_sent, g_pending, calls, told>>

----------------------------------------------------------------------------
\* The state libgpiod_init leaves, no button being held.
Init ==
  /\ g_use_soft_debounce \in BOOLEAN
  /\ down = [b \in Button |-> FALSE]
  /\ fifo = <<>> /\ batch = <<>> /\ g_pending = <<>>
  /\ g_pressed = [b \in Button |-> FALSE]
  /\ press_age = [b \in Button |-> AGE_MAX]
  /\ g_long_sent = [b \in Button |-> FALSE]
  /\ edge_age = [b \in Button |-> AGE_MAX]
  /\ g_timer = Off
  /\ calls = 0
  /\ told = [b \in Button |-> 1]

Next ==
  \/ pending_pop
  \/ SendLongPresses
  \/ ReadEdges
  \/ ReadsNothing
  \/ ReadFails
  \/ process_edge_event
  \/ gpio_fd_cb
  \/ \E b \in Button : ButtonMoves(b)
  \/ Tick

read_event == pending_pop \/ SendLongPresses \/ ReadEdges \/ ReadsNothing \/ process_edge_event

GpioSafety == Init /\ [][Next]_vars

\* uloop calls back for a readable descriptor, the loop runs on, reads do not
\* fail for ever, time passes.
GpioSpec == GpioSafety /\ WF_vars(gpio_fd_cb) /\ SF_vars(read_event) /\ SF_vars(Tick)

----------------------------------------------------------------------------
(* Properties *)

\* Types of all variables.
GpioTypeOK ==
  /\ g_use_soft_debounce \in BOOLEAN
  /\ down \in [Button -> BOOLEAN]
  /\ fifo \in Seq(Edge) /\ Len(fifo) <= FIFO_SIZE
  /\ batch \in Seq(Edge) /\ Len(batch) <= READ_MAX
  /\ g_pressed \in [Button -> BOOLEAN] /\ g_long_sent \in [Button -> BOOLEAN]
  /\ press_age \in [Button -> 0 .. AGE_MAX] /\ edge_age \in [Button -> 0 .. AGE_MAX]
  /\ g_timer \in {Off} \cup 0 .. GPIO_LONG_PRESS
  /\ g_pending \in Seq(Event)
  /\ calls \in 0 .. 2
  /\ told \in [Button -> 0 .. 2]

\* One timer serves all buttons, and each edge of any of them sets it anew: it
\* runs exactly while a held button still has its long press to come.
TimerRunsIffWaiting == (g_timer # Off) <=> (Waiting # {})

\* epoll does not see g_pending: an event left in it when gpio_fd_cb returns
\* would wait for the next edge.  None is.
NothingLeftBehind == ~InCallback => g_pending = <<>> /\ batch = <<>>

\* gpio_hal.h: a hold is a short press or a long press, the latter "emitted once".
\* Between two accepted presses a button has one event, from the moment the long
\* press is due or else the release is seen.  What counts is the press the driver
\* accepted: where the software debounce drops a release, two touches are one hold.
OneEventPerHold ==
  \A b \in Button : told[b] = IF g_pressed[b] /\ ~g_long_sent[b] THEN 0 ELSE 1

\* pending_push overwrites the oldest event when the queue is full; no button
\* event is lost that way, because edges are only read into an empty queue.
NoEventOverwritten ==
  [][\/ g_pending # <<>> /\ g_pending' = Tail(g_pending)
     \/ Len(g_pending') >= Len(g_pending) /\ SubSeq(g_pending', 1, Len(g_pending)) = g_pending]_vars

\* gpio_hal.h: "Short press: released before LONG_PRESS_MS".  As long as uloop is
\* never late by that much, no hold of LONG_PRESS_MS or more is told as short.
ShortPressIsShort ==
  [][MAX_LATE < GPIO_LONG_PRESS =>
       \A b \in Button :
         g_pressed[b] /\ ~g_pressed'[b] /\ told'[b] > told[b]
           => press_age[b] - Head(batch).age < GPIO_LONG_PRESS]_vars

\* A button that stays down is told as a long press, whatever the other buttons
\* do to the timer they share.  (The software debounce may have dropped the edge.)
LongPressComes ==
  \A b \in Button :
    <>[](down[b] /\ ~g_use_soft_debounce) => <>[](g_pressed[b] /\ g_long_sent[b])
=============================================================================
