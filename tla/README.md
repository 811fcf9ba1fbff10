# TLA+ models of the NanoHat OLED daemon

The daemon shows the state of an OpenWrt board on a 128x64 OLED and lets the user start and stop services with three
buttons. The program under `src/src/` (ADR 0006) is single-threaded: everything runs on libubox's uloop. The repository
keeps two of its predecessors, which are modelled too: `src/src_adr0005/`, three threads joined by queues (ADR 0005), and
`src/src_old/`, one loop with blocking calls. Paths below are those of the repository snapshot, in which the repository's
`src/main.c` is `src/src/main.c`.

## 1. Inventory

| Part | Files | State | Operations | Talks to |
|---|---|---|---|---|
| ubus layer | `hal/ubus_hal_real.c`, `hal/ubus_hal.h` | pool of 16 request slots, a timer each; connection, cached id of object `rc`, failure counter, time of the last attempt | query, control, init, cleanup; handlers for answers and timeouts | libubus and rpcd; calls back into the status code |
| service status | `sys_status.c`, `service_config.c` | per service: `query_pending`, `request_id`, `status_valid`, `running`, `last_update_ms` | periodic query loop, control, two callbacks; reading of local sensors | ubus layer; read by the pages |
| buttons | `hal/gpio_hal_libgpiod.c` | per line: pressed, time of press, long press sent, time of the last edge; one timerfd; event queue | read_event, init, cleanup | kernel line events; `gpio_fd_cb` of `main.c` |
| pages and screen | `page_controller.c`, `anim.c` | current page, mode, animation, screen state, idle and enter-mode clocks | handle_key, tick | `on_enter`, `on_exit`, `on_key` of the pages |
| UI controller | `ui_controller.c` | `power_on`, `needs_render`, last tick | handle_button, tick, render, next_timeout | page controller, service status, display |
| main loop | `main.c` | fds, timers and signals in uloop | `gpio_fd_cb`, `ui_timer_cb`, signals, start-up, shutdown | all of the above |
| services page | `pages/page_services.c` | selection, dialog, pending control, UI state per service | `on_key`, render (it caches `running`), `on_exit`, control result | UI controller |
| settings page | `pages/page_settings.c` | auto-sleep switch | `on_key` | page controller |
| drawing | `pages/*`, `ui_draw.c`, `fonts.c`, display HALs | none | render | display |
| ring buffer (ADR 0005) | `ring_queue.c` | slots, head, tail, count, policy, merge function, counters | push, pop, replace first, set policy | under every queue below |
| event queue (ADR 0005) | `event_queue.c` | a ring, sequence number, closed flag, condition variable | push, try_pop, wait, close | main thread pushes, UI thread waits |
| main and UI thread (ADR 0005) | `main.c`, `event_loop.c`, `ui_thread.c`, `ui_controller.c`, `page_controller.c` | fds, `pending_tick_ms`, `shutdown_requested`; tick state; page, mode, screen | start-up, poll loop, signals, shutdown; event handler | event queue, eventfd, timerfd |
| queries (ADR 0005) | `sys_status.c`, `task_queue.c`, `result_queue.c`, `ubus_thread.c`, `hal/ubus_hal_real.c` | pending request per service; two rings; connection and backoff | request, process results; pop, expire, call, push; stop and cancel | UI thread and ubus thread |
| buttons (ADR 0005) | `hal/gpio_hal_libgpiod.c` | as the present driver, without its timer | wait_event | main loop |
| old daemon | `src/src_old/main.c` | four deadlines, page, menu, title animation, dirty flag | wait, handle_button, timed tasks, drawing | ubus and panel, by blocking calls |

What is hard in it:

* **Failure and time in the ubus layer.** Answers race timeouts; a timeout may reset the connection, which aborts every
  other request and calls back from inside the abort; the pool may be full; lookups fail; cleanup comes at any moment.
  Correct means: exactly one callback per accepted request, on a live connection, in time, and none after cleanup.
* **Stale data in the status code.** Each service has one in-flight query and any number of controls, whose answers come
  in any order. Correct means: no flag sticks, and what is shown converges to the truth.
* **Interleaved buttons.** Three buttons share one timerfd, edges arrive in batches and late, events wait in a queue
  epoll cannot see. Correct means: each hold is told exactly once, as what it was, and none is forgotten.
* **Timers and modes of the UI.** Keys, idle timeout, enter-mode timeout and animations meet in any order, and each
  handler has to arm the next tick itself. Correct means: the panel follows the state, nothing freezes, an idle user
  finds a dark screen and view mode.

* **Threads (ADR 0005).** Ring, sequence number, closed flag and condition variable are not under one lock; a request for
  another timer period and its wake-up are two steps; answers come late, merge and expire; the daemon is stopped by a signal
  at any moment. Correct means: no wake-up, key, request or answer is lost unnoticed, and the daemon always ends.
* **Deadlines (old daemon).** The loop sleeps until the nearest of four deadlines, and calls block past them, those of its own
  tasks too. Correct means: each round deals with all that is due, and the loop never sleeps on something to draw.

`PROJECT.json` lists these hazards line by line under `hazards`, with the properties that guard each.

## 2. Modules

```
present daemon (src/src)
  UbusApi  <==implements==  UbusHal  <--EXTENDS--  ServiceStatus  <--  MCServiceStatus
                               ^                        ^
                               '------  UbusProofs  ----'
  GpioHal  <--  GpioHalProofs      UiController  <--  UiControllerProofs      ServicesPage  <--  ServicesPageProofs

threaded daemon (src/src_adr0005)
  BoundedQueue  <==implements==  RingQueue  <--  MCRingQueue, ThreadedQueuesProofs
       ^--INSTANCE--  EventQueue  ==implements==>  EventChannel
       |                 ^-- EventQueueProofs
       ^--INSTANCE--  ThreadedUi  <--  MCThreadedUi, ThreadedUiProofs
       ^--INSTANCE--  ThreadedStatus  <--  ThreadedQueuesProofs
  ThreadedGpio

old daemon (src/src_old)
  OldLoop  <--  OldLoopProofs
```

In the modules of the present daemon one handler on the uloop thread is one action, with the callbacks it makes and the helpers it calls. Time
is discrete; stored instants are ages and timers the time they have left, so that the state space is finite and a timer
that is due can stay due (uloop may be late). Operators keep the names of the C functions and variables. An operator
`X_Something` whose comment begins with "Defect" is a broken variant of `X`. No specification uses it; each
shows that some property can tell it from `X`, and `PROJECT.json` lists them under `mutants`.

### UbusHal: the ubus layer

| Model | Code (`hal/ubus_hal_real.c`) |
|---|---|
| `g_pending[k]`, `g_timer[k]` | a slot with `in_use`, type, who and what; its `uloop_timeout` |
| `owed[k]` | history: requests accepted in slot `k` minus callbacks made for them, that is contexts still to be freed |
| `g_ctx`, `g_rc_id`, `g_consecutive_failures`, `since_attempt` | the statics; the last is the age of `g_last_attempt_time` |
| `AnswerAtOnce` | a call that answers its own callback: no connection, failed lookup, full pool, refused `ubus_invoke_async` |
| `SendRequest`, `real_query_service_async`, `real_control_service_async` | a call that leaves a request pending |
| `request_timeout_cb`, `query_complete_cb` | the handlers, including reset and abort |
| `real_cleanup`, `HalInit` | cleanup, and the two outcomes of `real_init` |

`completed` is TRUE only inside a handler; what it protects (the slot that timed out is passed over by the abort it
causes) is `AbortSet`. The backoff is computed with the wrap-around of an int of `INT_BITS` bits; a shift by the width or
more is undefined in C and is a choice over the delays that a masked shift count gives. A number of failures above
`INT_BITS` is kept as `INT_BITS + 1`, because the delay no longer depends on it.

`UbusApi` is what `ubus_hal.h` promises apart from all of this: a ticket per outstanding request, answered exactly once,
by itself or among the requests one handler answers together, and nothing after cleanup. `UbusHal` implements it
(`ImplementsApi`): a ticket is a slot, due while `owed` is 1, and the layer serves while it is up. The liveness half of the
promise, that the answer comes, is part of the refinement too.

### ServiceStatus: service status over the ubus layer

It extends `UbusHal`: each of its daemon steps is a step of `UbusHal` together with what the callbacks made in that step
do to the records (`AfterAborts`, `AfterTimeout`, `RequestSucceeds`). The loop of one UI tick over the services is taken
service by service (`cursor`); nothing of the daemon runs in between, while rpcd and the services may move. The loop takes
the time once: a service that an abort inside it updates a millisecond later has an age that wraps, and is asked again in the
same round (`overtaken`; it takes two services, so the run does not reach it, but the proofs cover it). `request_id`
is only compared for equality with the id a pending query carries, so it is the slot of that query. rpcd (`RpcdServes`)
looks at a service, or starts or stops it, at some moment between request and answer; a request may also fail or time out
after rpcd has acted on it. `UnitChanges` is a service that crashes or is started by someone else.

That the layer sees nothing but its own steps is how the two are composed: the callbacks of `sys_status.c` only change
records, so the model gives them no way to call back into the layer. It is used in the proofs (`ComposedHal`), which carry
the layer's invariants over, and is no property of the code.

### GpioHal: buttons

| Model | Code (`hal/gpio_hal_libgpiod.c`, `main.c`) |
|---|---|
| `fifo`, `batch` | the kernel's edge queue; edges of one read not yet processed |
| `g_pressed`, `press_age`, `g_long_sent`, `edge_age` | the arrays per line, instants as ages |
| `g_timer` | the long-press timerfd, readable at 0 |
| `calls` | calls of `gpio_fd_cb` uloop still makes in this round (both descriptors may be readable) |
| `told` | history: events pushed for a button since its last accepted press |
| `pending_pop`, `SendLongPresses`, `ReadEdges`, `ReadsNothing`, `ReadFails`, `process_edge_event` | `libgpiod_read_event`, path by path, and the loop of `gpio_fd_cb` around it |

`read_event` looks at the queue, then at the timer, then at the edges; the clock may move between any two of these steps
and between two edges, as between the code's `time_hal_now_ms` calls, and new edges may arrive meanwhile. The edge's own
time stamp is `age` ticks back. Both settings of the software debounce are covered (`g_use_soft_debounce`).

### UiController: pages, modes, screen, UI timer

`handle_button_event` is `handle_button_event` of `main.c` with one disjunct per way through `page_controller_handle_key`
(wake, ignored during an animation, leave enter mode, the page's key, switch page, enter or shake, screen off, unused);
`ui_timer_cb` is the tick. Both end with the render and the arming of the timer, as in `main.c`. A key event carries its
own time stamp, `late` ticks old, which the controller takes for the present; stamps may go back, because an edge keeps
its instant while it waits and a long press is stamped when it is sent. `anim_is_complete` keeps the unsigned subtraction:
an animation that starts after the event counts as complete. `entered` is a history of `on_enter` and `on_exit`. What a
page does with a key is a choice; only the settings page's auto-sleep switch changes modelled state.

### ServicesPage: list, dialog and state of the services

| Model | Code (`pages/page_services.c`, `ui_controller.c`) |
|---|---|
| `selected_index`, `scroll_offset`, `Moved`, `Scrolled` | the list; the two key branches, `ensure_visible` |
| `dialog`, `dialog_yes`, `cached_running` | `DIALOG_CONFIRM`, `dialog_selection`, what the last render saw of `running` |
| `ui_states`, `Synced` | UI state per service; its correction in `services_render` |
| `services_on_key`, `Control` | the keys one by one; `ui_controller_handle_button` taking the request and `sys_status_control_service` answering it |
| `services_on_enter`, `services_on_exit` | the page's callbacks |
| `QueryEnds`, `ControlEnds` | `service_status_cb`, `service_control_cb` and `page_services_notify_control_result` |
| `panel` | the dialog the user has before him |
| `controls` | control requests in flight, by service and direction |

Every key handler ends with a render, which reads the status once more; the callbacks of the ubus layer do not draw, so
between two renders the panel and `cached_running` may be older than `running`. `pending_control_index` is written and taken
in one handler, hence in one action. `visible` and `page_mode` stand for `UiController`: that an entered page is the one
drawn is `EnteredPageIsCurrent` there, and that a dark screen is in view mode is `DarkMeansView`. What comes from
`ServiceStatus` is arbitrary. A request that a failed lookup aborts along with a control ends just before it.

### BoundedQueue and RingQueue: the ring buffer (ADR 0005)

`RingQueue` is `ring_queue.c` slot by slot: `head`, `tail`, `count`, the search of `ring_queue_try_merge` and
`ring_queue_replace_first_if` from the oldest slot on, overwriting, the counters. A slot that was never written holds
`Junk`. Each call runs under the ring's lock and is one action. `BoundedQueue` says the same of a sequence of items, and
`RingIsQueue` is the refinement; the modules of the queues above it use `BoundedQueue`, with one instance per thread where
two threads call it, so that each has its own result.

### EventQueue: main thread and UI thread at the queue

Only the ring's calls are atomic here. `event_queue_push` is the push, for a key the attempt to replace a tick
(`ReplaceTick`), the step of `seq` (`Bump`) and the signal under `wait_lock`; `event_queue_wait` captures `seq`, looks at the
ring, at `closed`, again at both under `wait_lock`, compares `seq` and sleeps, with spurious wake-ups and time-outs. The
consumer only ever compares `seq` with what it captured, so the model keeps whether they differ (`stale`). A closed queue
still takes events: `event_queue_push` does not look at `closed`.

`EventChannel` is what the header offers to the two threads apart from all this: events, oldest first; a receiver that asks,
looks, and is handed the oldest event or gives up, which it may do only after it has seen an empty channel, and only if the
channel is closed or it did not ask to wait for ever. `EventQueue` implements it (`IsChannel`): `Asking` reads the receiver's
state off the place in `event_queue_wait`, and a key between the two ring calls of its push is `late`. The sequence number,
the lock, the condition variable and the signal are stutters. That the wait returns when there is something to return for
(`Returned`) is part of the refinement too.

### ThreadedUi: main and the UI thread

| Model | Code |
|---|---|
| `Acquire`, `Unwinds`, `TearDown`, `held` | `main.c`: the start-up, what each failure of it releases, the end |
| `Poll`, `handle_gpio`, `handle_timer`, `Drain`, `TakeRequest`, `TakeShutdown` | `event_loop_run` and its handlers, the eventfd drained before the request is taken |
| `SignalArrives`, `SignalWrites` | `handle_signal` with `event_loop_request_shutdown`, its two stores |
| `Wait`, `Handle`, `WriteEventfd`, `Top` | `ui_thread_main`, `ui_thread_default_handle` with the controllers, the two halves of `event_loop_request_tick` |

`pending_tick_ms` and the eventfd are written in two steps, as are the flag and the wake-up of a signal. A wait on the queue
is one step, `Receive` or `GiveUp` of `EventChannel`, which `EventQueue` implements: it ends when there is something to take, and
a closed queue may end it even while there is. The time an animation takes and the idle time are either answer at
any event. `wait_event(0)` returns at once here, as that of the mock does; the driver of the real lines may wait, which
`ThreadedGpio` models with the part of the loop around it, both thresholds and the detection of the active level.

### ThreadedStatus: queries through two queues

The UI thread asks (`Ask`, one service at a time, `Skip`) and takes all results on a tick (`Tick`); the ubus thread takes a
task, drops an expired one with a failed result, calls `rc` (`Invocations`: connection, look-up, one more attempt after an
error of the connection, backoff) and pushes the result; `main` stops the UI thread, then the worker, which cancels what is
left. `request_id` is a counter of 32 bits; the model takes the lowest number nothing carries any more. Time counts in units
of the 2 s a task may wait, the delays of the backoff too; their shift overflows as in `UbusHal` (`INT_BITS`).

### OldLoop: the daemon before the rewrite

One action per stage of the loop of `src_old/main.c`: `gpio_button_wait`, the branch of `handle_button` the event takes,
the timed tasks with the decision to draw. Deadlines count down; a handler that calls ubus or slides a page lets up to
`BLOCKING` units pass, and so does a round of tasks that reads the sensors, asks `rc` for the services (up to 2 s for each) or
draws. The tasks compare and set all deadlines by the time before them, so that a deadline may have passed when the loop waits;
`spent` is how long they took. `panel` is what was drawn last.

## 3. Runs

| Run | Instance | Shows |
|---|---|---|
| `UbusHal` | 3 slots, 4-bit int, threshold 2, timeout 2 s, backoff cap 3 s | exactly one callback per request; no request without connection; the backoff always runs out; the layer implements `UbusApi`: every request is answered |
| `Status` | 1 service that may change by itself, 2 slots, controls at any moment | `query_pending` mirrors the pool; no query sticks; eventual consistency |
| `StaleResponse` (violated) | same, the service stays as the user sets it | an older query answer overwrites what a control has just stored |
| `Gpio` | 2 buttons, long press 2 ticks, debounce 1, queue and read of 2, kernel queue of 3, uloop 1 tick late | nothing is left in the queue; one event per hold; short presses are short; long presses come; no event in the queue is overwritten |
| `Ui` | 3 pages, one of which can be entered; animations of 2 ticks, idle 4, enter 5, keys up to 1 late | panel, timer, entry and exit, dark means view; idle and enter-mode timeouts work |
| `ServicesPage` | 2 services on a screen of 1 line, 1 start and 1 stop of each in flight | the selected line is seen; a dialog ends with its mode; what is sent is what the panel offered; blinking and errors end |
| `RingQueue` | 3 slots, a key and two ticks that merge, 5 pushes, policies and merging changed at any time | the ring implements the bounded queue |
| `EventQueue` | ring of 3, 4 keys, ticks of 1 or 2 expirations, all three kinds of wait | no wake-up is lost; each key is accounted for; the queue is a channel (`EventChannel`): a wait ends when there is something to return for |
| `ThreadedUi` | ring of 1, 2 presses, 2 pages, ticks of up to 2 expirations, a signal at any moment | what is in use exists; every exit releases everything; no request for a period is lost; ticks keep coming; a signal ends the daemon |
| `ThreadedStatus` | 2 services, 2 tasks, 5 results, time-out 1, 2-bit int, backoff cap 1 | a pending service has its one query or answer on the way; no answer is dropped; queries end; the stop completes |
| `BlockingRead` (violated) | 3 buttons, long press 2, kernel queue of 2 | a tick that is due waits for the next edge of a button |
| `OldLoop` | 2 pages, 2 services on 1 line, deadlines of 1 to 4 units, blocking of up to 3 | nothing due is left for another round; the panel is current; a menu is only open where it is seen; an open menu ends |

**Bounds and why they suffice.** Three slots are needed for an abort to meet both the slot that timed out and two others;
one service on two slots fills the pool with a query and a control, and lets a refused or aborted request meet the pending
one; that the flags of several services do not disturb each other is proved for any number of them (`PendingMirrorsPool`). With threshold 2 and
4-bit ints both the reset and the overflow of the backoff are within reach; the width, the threshold (3 in the code), the
pool (16) and the timeout (3 s) are constants, and the proofs hold for every value of them. Two buttons make one timer
serve another's edges; a read and a queue as small as the number of buttons is the tightest case the assumption
`READ_MAX <= MAX_PENDING_EVENTS` allows (the code reads 16 into 32). `MAX_LATE` bounds how long an edge or a key waits,
and `FIFO_SIZE` the kernel's queue; `GpioHal` takes no tick that would exceed the first, so overload longer than that is
not covered. Animations outlast two ticks of the fast timer and the slow period is longer than the fast one, so that
arming the wrong one shows. `IDLE_TIMEOUT` and `ENTER_TIMEOUT` are both 30 s in the code; the run makes them different,
since with equal values neither can be seen to expire first, and the idle check of the mode would go untested. Ages stop
counting past the longest timeout that reads them. Two services on one line scroll and wrap in both directions; a control
beyond `MAX_CONTROLS` of its kind fails at once, as with a full pool, so that no confirmation is left out. A ring of three slots wraps and has a middle; five pushes fill it and overwrite twice, and
the theorems hold of any capacity. In `ThreadedUi` a ring of one slot makes every second push meet a full queue, so that keys and
the shutdown look for a tick to replace; `MAX_KEYS` is below the 16 presses one poll handles. `IDS` is large enough for every number that can be
alive at a time, and `RESULT_CAPACITY` the least that `NoResultDropped` speaks of: with two services five. In `OldLoop` the
deadlines differ, and handlers and tasks may take as long as any but the longest, the refresh of the list as long as its own interval. Deadlock is checked except where the system comes to rest
(`ThreadedUi`: main has returned) and in `BlockingRead`, where an ended loop leaves nothing to do
once its bounds are used up.

**Fairness.** Time passes, and uloop runs a handler whose timer or descriptor stays due; it is a loop that polls until told
to stop. Strong fairness is used where a handler is due again and again with other work in between: a timeout and the clock
between the steps of the query loop in `ServiceStatus`, `read_event` (whose cases alternate) and the clock in `GpioHal`,
where it is only stopped by an edge that waits to be processed. That includes that reads of the line fd do not fail for
ever. `EventualConsistency` assumes, as part of the property, that bus and rpcd recover (`BusFairness`: a request sent
again and again, served and answered in time again and again), that the service stays as it is and that the user's
controls stop (`UserRests`; each control may use up the one connection attempt the backoff allows, and fail, so that a user
who never stops could keep every query from connecting). `QueriesEnd` and `ImplementsApi` assume nothing of rpcd. Conclusions about the user (`IdleScreenGoesOff`, `IdleLeavesEnterMode`) assume
that keys stop; keys at a steady pace shorter than the UI period arm the timer anew each time and put off the tick. `ServicesPage` has weak fairness of `Redraws` only, the tick of the UI
timer while the page is drawn; `TransitionsEnd` needs a redraw and nothing of rpcd.

In the threaded daemon each thread is scheduled. `EventQueue`: a push that has begun goes on and the UI thread calls
`event_queue_wait` again and again; nobody has to push or to signal. `ThreadedUi`: main, the UI thread, the kernel's timer
and a signal handler that has begun; no keys and no signal are assumed. `ThreadedStatus`: the UI thread's idle tick (which
`TicksKeepComing` of `ThreadedUi` gives while the screen is lit), the steps of the ubus thread, among them that each call on
ubus returns, and main once it has begun to stop. That time passes is not assumed, so `QueriesEnd` does not rest on the five
seconds. `ThreadedGpio`: the main loop runs while it can and time passes; nobody has to touch a key. `OldLoop`: the loop runs;
`MenuEnds` assumes that events stop.

## 4. Where code and documents disagree

Two are runs that TLC refutes; `PROJECT.json` quotes the text under `findings`.

1. `src/src/sys_status.c:375` (`StaleResponse`): the check of the request id does not stop a query that was in flight when a
   control completed; the wrong state then stays for a refresh interval, because the answer also undoes the forced refresh.
2. `src_adr0005/event_loop.c:114` (`BlockingRead`): after each event the loop asks `wait_event(0)` for another, which reads
   without looking; libgpiod's read waits for an edge, so ticks, and a stop from outside the main thread, wait for the next
   touch. A signal that the main thread handles interrupts the read, unless it comes just before it. The present driver
   reads the lines through uloop, which makes the descriptor non-blocking.

The others follow from the models, which contain the behaviour, and are described here only:

3. `page_controller.c:140`: a key after a slide's end and before the tick that ends it drops the slide, although
   `current_page` "will be updated when animation completes" (`page_controller.c:75`). So does, at any moment of a slide, a key
   whose stamp is older than the slide's start (`anim.c:86`, the difference wraps).
4. `ubus_hal_real.c:138`: "reset connection to trigger backoff" (line 134): the delay counts from the attempt that made the
   lost connection, and has usually run out already.
5. `src_adr0005/event_queue.c:108`: ADR 0005 wants keys and the shutdown delivered in order
   (`docs/adr/0005-ultimate-threaded-architecture.md:87`); a key that takes the slot of a tick takes its place in the order,
   too, and is handed out before keys that were pushed earlier.
6. `ubus_hal_real.c:255`: after 32 failures in a row `1 << 31` is negative, passes under the cap, and the backoff is gone.
7. `gpio_hal_libgpiod.c:126`: a button that is due (delay 0) is taken for "none yet" and replaced by a later one, so it is
   not told "asap". It comes with the next event or timeout: `LongPressComes` holds.
8. `gpio_hal_libgpiod.c:399`: the timer is handled before older edges, so a release in time can be told as a long press. (The
   converse, a long hold told as short, does not happen: `ShortPressIsShort`.)
9. `src_adr0005/task_queue.c:208`: `enqueue_time_ms`, which ADR 0005 wants set on entering
   (`docs/adr/0005-ultimate-threaded-architecture.md:110`), is never set; once the system has been up for two seconds every
   query is answered as expired.
10. `src_adr0005/main.c:86`: 16 results, where the ADR (line 126) has 32 and eight services may need 17.
11. `src_old/main.c:248`: three lines are drawn and four services may be listed: the selection of the menu can stand on one that
    is not drawn. It is kept by index, so a refreshed list may leave it on another service.
12. `src_old/main.c:754`: the refresh asks for four services, up to 2 s each, every 5 s from its beginning: with an `rc` that does
    not answer the next refresh is due when one ends, and the loop does little else while the page is shown.
13. `sys_status.c:414`: `now_ms` is older than an update made inside the loop, and the unsigned difference wraps: a service whose
    query was just aborted is asked again at once instead of after the refresh interval.

Three more are differences of values: the UI design (`docs/adr0006/ui-design-spec.md:411`) gives enter mode a timeout of 60 s, the code 30 s
(`page_controller.c:16`); the plan (`docs/adr0006/implementation-plan.md:126`) animates every 50 ms, the code every 20 ms;
and `docs/adr0006/ui-design-spec.md:532` shows an error until the next query, whereas `services_render` clears it at the next
drawing if the status was valid before, and the page has no icon for it.

## 5. Proofs

All proofs are over arbitrary constants, under the named assumptions of the modules (positive sizes and periods,
`TIMEOUT_RESET_THRESHOLD` at most the width of an int, a queue as long as a read and as the number of buttons, at least two
pages, a settings page that can be entered, at most the eight services of the code, numbers enough for what can carry one). Two
theorems have a hypothesis of their own, named below.

* **UbusProofs**, first about `UbusHal`. `HalImplementsApi`: each step of the layer is a step of `UbusApi` or a stutter (its safety half), resting
  on the invariant. `HalInv` = types, `ExactlyOneCallback`, `NoDanglingRequest`, and `StoppedIsEmpty` (nothing is pending after
  cleanup). The last is not a checked property, and is what keeps the accounts closed when the layer has stopped.
  `HalStepInv` takes one lemma per action; `SilentAfterCleanup` is an action property: a step after cleanup would need a
  slot in use.
* **UbusProofs**, then about `ServiceStatus`. The composition carries the theorems about `UbusHal` over (`ComposedHal`, a lemma;
  `StatusKeepsPromise` collects them); types and `PendingMirrorsPool` rest on it. The argument for the
  latter: a step either only gives slots back, and `AfterAborts` clears exactly the flags of the queries among them (ids of
  different services are different slots), or it fills a free slot by a query of a service that has none, or by a control.
  Repeated names are allowed and exempt (`Shadowed`).
* **GpioHalProofs.** `GpioInv` = types, `TimerRunsIffWaiting`, `NothingLeftBehind`, `OneEventPerHold`, and `QueueHasRoom`:
  what is pending and what the batch may still add fit in the queue. Edges are only read into an empty queue, a batch is no
  longer than the queue, and each edge adds at most one event, so `pending_push` never overwrites (`NothingOverwritten`).
  `ShortIsShort` needs `ShortHolds` besides: no edge left in the batch is `GPIO_LONG_PRESS` younger than the start of a hold
  that is still to be told. A batch is only read after the timer was looked at, so that no such hold is due; ticks make hold
  and edge older alike; a press that the batch itself begins is no older than an edge can be (`MAX_LATE`).
* **UiControllerProofs.** `UiInv` = the five invariants and `SlidesInView`: in enter mode no slide is under way and the page
  can be entered. Without it the tick that ends a slide could change the page under its `on_exit`.
* **ServicesPageProofs.** `PageInv` = types, `SelectionVisible`, `DialogInEnterMode`, and `PanelIsCurrent`: the dialog on the
  panel is what the next confirmation will take. A confirmation reads `cached_running`, which like the panel is written by
  renders only; choosing by `running` instead breaks `ConfirmedIsShown`. `ScrolledShows` is `ensure_visible` for every size
  of list and screen.

* **ThreadedQueuesProofs**, first about `RingQueue`. `RingInv` = types and `HeldAreItems`: head and tail are `count` apart modulo the capacity, and every
  slot between them holds an item. `RingImplementsQueue` maps the slots from the head on to a sequence; the work is the arithmetic modulo
  the capacity, done once in lemmas about `At` (distinct places lie in distinct slots), and one lemma per call. It holds for
  every capacity, policy and merge function.
* **ThreadedQueuesProofs**, then about `ThreadedStatus`. `FlowInv` = types, `HandInv` (a task is in the ubus thread's hand exactly
  while it works on it, and the answer has its number), `OneTaskEach`, and `RoomForResults`: results, tasks, the task in hand and the
  services this tick has still to visit are never more than two for each service and one. A tick that empties the results begins the
  count at one for each service, by `OneTaskEach`, and one in hand; a visit adds at most the task it pays for; everything else moves along.
  `NoResultDropped` follows, and is needed for the next: `FlightInv` adds `IdsApart` (no number is carried twice) and
  `AwaitedInv` (the number of a service that waits is on the way, and a task that has it is a task of that service). A merge
  overwrites the number of a task; `AwaitedInv` shows that only the service of that task can have waited for it, and `Ask` makes that
  service wait for nothing. `FreshId` is the counting argument that the numbers of the bound `IDS` never run out.
  `PendingInFlight` has the hypothesis that the queue of results has these slots: with `main.c`'s 16, up to seven services. One slot less
  is too few, as TLC shows for two services and four slots; that is item 10 of section 4. `FlightInvariant` has the same hypothesis.
* **EventQueueProofs.** Types need that merging ticks gives a tick. `NoWakeupIsLost` rests on `WakeupInv`: behind a look at an
  empty ring the consumer has an old `seq` or a push is about to move it, the same of `closed`, and a sleep on an old `seq` is
  followed by the signal. `KeysNeverVanish` counts the keys of the ring through each of its calls (`KeysIn` of `Append`, of a
  replaced slot, of `Tail`) and balances the account; `AccountInv` adds that only a key ever looks for a tick to replace.
  `QueueIsChannel` is the safe half of `IsChannel`: a lemma for each of the two threads, that a
  step of it is one of the channel or a stutter. The ring's choices have to be those of the channel: the partners of a tick are the ticks (`merging` stays TRUE, part of
  the types), and the ring's first match is the oldest tick. A consumer beyond its first look has seen an empty ring,
  whatever was pushed since.
* **OldLoopProofs.** `OldLoopInv` = types, `DeadlinesAhead`, `MenuIsVisible` and `PanelFollows`. `DeadlinesAhead` is measured
  from the time the tasks worked with: each deadline that matters, with what the tasks have `spent` added, is positive. Restarting
  what was due (`RestartAhead`) and the frame to come (`TasksFrame`) give that before the time is spent, and time takes no more
  than itself (`PassKeepsType`). `PanelFollows` says that wherever nothing asks for a
  redraw, not only where the loop waits, the panel is current, and the selection of an open menu is inside the list. The last
  part is there because every menu command first brings the selection back into the list (`MenuIgnores` does nothing else) without
  asking for a redraw; only a refresh of the list can leave it outside, and that asks for one.
* **ThreadedUiProofs.** `UiInv` = types, `HeldExactly`, `UiThreadLives`, `RequestInv`. `HeldExactly` gives for each label of
  `main` what is held there; that the label a failure jumps to releases exactly that is a fact about each of them.
  `UiThreadLives` says that the UI thread only runs between its creation and its join. `RequestInv` says where a request is while it has not
  been taken: the eventfd is set, or the UI thread is about to set it, or the loop has drained it and has not yet taken the
  request; and without one the timer has the period the UI thread believes in.

Only model-checked: everything under fairness (`BackoffExpires`, the liveness half of `ImplementsApi`, both
`QueriesEnd`, the liveness half of `IsChannel`, `EventualConsistency`, `LongPressComes`, `IdleScreenGoesOff`, `IdleLeavesEnterMode`, `TransitionsEnd`,
`TicksKeepComing`, `SignalEnds`, `StopCompletes`, `MenuEnds`), which is out of the prover's reach. Every invariant and every
action property of the passing runs is proved.

## 6. Not modelled

* **services page**: icons, and the empty list (keys do nothing). It is not yet composed with `ServiceStatus`, which takes a
  confirmed control as an input. **Other pages, drawing, fonts, display
  drivers**: output only. **Mocks and tests**. **Local sensors** of `sys_status.c`: files read into numbers, no interaction.
* **ubus layer**: memory exhaustion; `real_query_services_async`, which nothing calls; steps of the wall clock (`time(NULL)`)
  the backoff uses; delivery of other messages inside the synchronous `ubus_lookup_id`; libubus ending uloop when the
  connection is lost.
* **service status**: the `installed` flag, which is set together with `status_valid`; `sys_status_has_pending`; the parsing of
  the service list.
* **buttons**: detection of the active level and of kernel debounce at start, buttons held at that moment, overflow of the
  kernel's queue, the fallback without a timerfd, cleanup.
* **main** of the present daemon: signals, failing start-up, order of shutdown (beyond the cleanup of the ubus layer).
* **ADR 0005**: controls of services, which no page of that version sends; `result_queue_mark_abandoned` and the blocking waits
  of the task and result queues, which nothing calls; the store of `ui_thread_set_status` (`main.c:150`), which the running UI
  thread may read half-done; long presses in a wait with a timeout; sensors and drawing.
* **old daemon**: `gpio_button.c` (any event may come at any time; it keeps one event per wait, so of two releases read together
  one is lost), `ubus_service.c` (a call that blocks and may fail), sensors, fonts.
* The vendor's `src/Source/`, which starts Python scripts and is not built by the project; device tree, scripts, schematics.

## 7. Plan

Done, in this order: `UbusHal`, `ServiceStatus` over it, `GpioHal`, `UiController`, `ServicesPage`, their proofs; then `UbusApi`
and the refinement, the ring and event queues of ADR 0005 with their proofs, the channel the event queue implements, the two worker threads, the driver under the
threaded loop, the old loop, and the proofs about these. Next:

1. `Daemon`: `UiController`, `ServicesPage` and `ServiceStatus` composed as in `main.c`, with the shutdown. The abstract
   specification to implement: per service, what the user asked, what was sent, what is shown. Property: a control the user
   confirmed is sent at most once and ends in a result or in a shutdown.
2. `ThreadedUi` over `EventChannel` itself, by an instance in place of its steps on `BoundedQueue`.
3. Pure algorithms against a reference definition: easing and slide offsets of `anim.c`, the parser of the service list.
