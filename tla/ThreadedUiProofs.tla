-------------------------- MODULE ThreadedUiProofs --------------------------
(***************************************************************************)
(* Proofs about ThreadedUi, the main and the UI thread, for every capacity  *)
(* of the event queue, number of pages and set of keys: what is in use      *)
(* exists, nothing leaks, no request for another period is lost.            *)
(***************************************************************************)
EXTENDS ThreadedUi, SequenceTheorems, FiniteSetTheorems, TLAPS

USE ThreadedUiAssumption

----------------------------------------------------------------------------
(* its inductive invariant *)

LoopPc == {"run", "poll", "gpio", "timer", "control", "take", "shutdown?", "replace", "close", "join"}
MainPc == DOMAIN Acquires \cup {"ui start"} \cup LoopPc \cup {"tear down", "off"}
UiPc == {"none", "top", "wait", "handle", "handled", "write", "done"}
Return == [ret : {"OK", "MERGED", "DROPPED", "ERR"}, out : Event \cup {NoEvent}]
Anims == {NoAnim, ModeAnim} \cup {Slide(p) : p \in 0 .. PAGES - 1}

\* Types, thread by thread; what is being handled or still to be placed is an event.
MainTypeOK ==
  /\ lpc \in MainPc
  /\ todo \subseteq {"gpio", "timer", "control"} /\ back \in {"gpio", "control", "poll"}
  /\ retry \in Event \cup {NoEvent} /\ (lpc = "replace" => retry \in Event)
  /\ pushed \in Return
  /\ running \in BOOLEAN /\ shutdown_requested \in BOOLEAN /\ signalling \in BOOLEAN
  /\ keys_left \in 0 .. MAX_KEYS
  /\ timer \in Period /\ expired \in 0 .. MAX_EXPIRED
  /\ pending_tick_ms \in Period \cup {NoRequest} /\ eventfd \in BOOLEAN

SharedTypeOK ==
  /\ items \in Seq(Event) /\ Len(items) <= CAPACITY
  /\ policy = "COALESCE" /\ merging = TRUE /\ closed \in BOOLEAN

UiThreadTypeOK ==
  /\ upc \in UiPc /\ popped \in Return /\ (upc = "handle" => evt \in Event)
  /\ ui_running \in BOOLEAN
  /\ tick_ms \in Period /\ tick_active \in BOOLEAN /\ anim_ticks_left \in 0 .. ANIM_TICKS
  /\ panel \in BOOLEAN /\ screen_on \in BOOLEAN
  /\ current_page \in 0 .. PAGES - 1 /\ page_mode \in {"VIEW", "ENTER"} /\ anim \in Anims

UiTypeOK == MainTypeOK /\ SharedTypeOK /\ UiThreadTypeOK

\* What is held at each step of the start-up: the label that its failure jumps to releases
\* exactly that.
HeldAt == [s \in DOMAIN Acquires \cup {"ui start"} |->
  CASE s = "ubus init" -> {"gpio", "display"}
    [] s = "status init" -> Hal \cup Queues
    [] s \notin {"ubus init", "status init"} -> Unwinds[s]]

\* What main holds, wherever it is.
HeldExactly ==
  /\ lpc \in DOMAIN HeldAt => held = HeldAt[lpc]
  /\ lpc \in LoopPc => held = Resources
  /\ lpc = "tear down" => held = Resources \ {"worker thread", "ui thread"}
  /\ lpc = "off" => held = {}

\* The UI thread runs between its creation and the join.
UiThreadLives == upc \notin {"none", "done"} => lpc \in LoopPc

\* A request that is stored is the period the UI thread believes in, and the loop will look:
\* it has been woken, is about to be, or is between draining the eventfd and taking the
\* request.  Without one the timer has that period already.
RequestInv ==
  /\ pending_tick_ms # NoRequest =>
       pending_tick_ms = tick_ms /\ (eventfd \/ upc = "write" \/ lpc = "take")
  /\ pending_tick_ms = NoRequest => timer = tick_ms

----------------------------------------------------------------------------
(* the event queue *)

LEMMA UiEvents ==
  /\ \A k \in Keys : Press(k) \in Event
  /\ \A n \in 1 .. ANIM_TICKS : Tick(n) \in Event
  /\ Shutdown \in Event
BY DEF Event, Ticks

LEMMA UiTickData ==
  ASSUME NEW e \in Event, e.type = "TICK"
  PROVE  e.data \in 1 .. ANIM_TICKS
BY DEF Event, Ticks, Press, Tick, Shutdown

LEMMA UiKeyData ==
  ASSUME NEW e \in Event, e.type = "KEY"
  PROVE  e.data \in Keys
BY DEF Event, Ticks, Press, Tick, Shutdown

LEMMA UiTicksAdd ==
  ASSUME NEW n \in 1 .. ANIM_TICKS, NEW m \in 1 .. ANIM_TICKS
  PROVE  (IF n + m > ANIM_TICKS THEN ANIM_TICKS ELSE n + m) \in 1 .. ANIM_TICKS
BY DEF ThreadedUiAssumption

\* Two ticks merge into one that counts no further than an animation lasts.
LEMMA UiMergedType ==
  ASSUME NEW y \in Event, NEW x \in Event
  PROVE  Merged[<<y, x>>] \in Event \cup {NoEvent}
<1>1. CASE y.type = "TICK" /\ x.type = "TICK"
  <2> DEFINE d == IF y.data + x.data > ANIM_TICKS THEN ANIM_TICKS ELSE y.data + x.data
  <2>1. d \in 1 .. ANIM_TICKS
    BY <1>1, UiTickData, UiTicksAdd
  <2>2. Merged[<<y, x>>] = Tick(d)
    BY <1>1 DEF Merged
  <2> HIDE DEF d
  <2>3. QED
    BY <2>1, <2>2, UiEvents
<1>2. CASE ~(y.type = "TICK" /\ x.type = "TICK")
  BY <1>2 DEF Merged
<1>3. QED
  BY <1>1, <1>2

LEMMA SetItem ==
  ASSUME NEW S, NEW q \in Seq(S), NEW i \in 1 .. Len(q), NEW v \in S
  PROVE  [q EXCEPT ![i] = v] \in Seq(S) /\ Len([q EXCEPT ![i] = v]) = Len(q)
BY ExceptSeq

\* What a push leaves is a queue of events within its capacity.
LEMMA UiPushTypes ==
  ASSUME SharedTypeOK, NEW e \in Event, Pushing!Push(e)
  PROVE  /\ items' \in Seq(Event) /\ Len(items') <= CAPACITY
         /\ policy' = policy /\ merging' = merging
         /\ pushed' \in Return
<1>0. items \in Seq(Event) /\ Len(items) <= CAPACITY /\ CAPACITY \in Nat
  BY DEF SharedTypeOK, ThreadedUiAssumption
<1>4. policy # "OVERWRITE_OLDEST"
  BY DEF SharedTypeOK
<1>5. items' \in Seq(Event) /\ Len(items') <= CAPACITY
  <2>1. CASE \E i \in 1 .. Len(items) :
               /\ Pushing!First(i, Pushing!Partners(e))
               /\ items' = [items EXCEPT ![i] = Merged[@, e]]
    <3>1. PICK i \in 1 .. Len(items) :
            /\ items[i] \in Pushing!Partners(e)
            /\ items' = [items EXCEPT ![i] = Merged[<<items[i], e>>]]
      BY <2>1, Zenon DEF Pushing!First
    <3>2. items[i] \in Event /\ Merged[<<items[i], e>>] # NoEvent
      BY <3>1, Zenon DEF Pushing!Partners
    <3> DEFINE v == Merged[<<items[i], e>>]
    <3>3. v \in Event
      BY <3>2, UiMergedType
    <3>4. items' = [items EXCEPT ![i] = v]
      BY <3>1
    <3> HIDE DEF v
    <3>5. QED
      BY <1>0, <3>3, <3>4, SetItem
  <2>2. CASE Len(items) < CAPACITY /\ items' = Append(items, e)
    BY <1>0, <2>2
  <2>3. CASE items' = items
    BY <1>0, <2>3
  <2>4. QED
    BY <1>4, <2>1, <2>2, <2>3, Zenon DEF Pushing!Push
<1>6. \E ret \in {"OK", "MERGED", "DROPPED"} : pushed' = [ret |-> ret, out |-> NoEvent]
  BY Zenon DEF Pushing!Push, Pushing!Returns
<1>7. pushed' \in Return
  BY <1>6 DEF Return
<1>8. QED
  BY <1>5, <1>7 DEF Pushing!Push

LEMMA UiReplaceTypes ==
  ASSUME SharedTypeOK, NEW e \in Event, Pushing!ReplaceFirst(Ticks, e)
  PROVE  /\ items' \in Seq(Event) /\ Len(items') <= CAPACITY
         /\ policy' = policy /\ merging' = merging
         /\ pushed' \in Return
<1>3. items' \in Seq(Event) /\ Len(items') <= CAPACITY
  <2>1. CASE \E i \in 1 .. Len(items) : items' = [items EXCEPT ![i] = e]
    BY <2>1, SetItem DEF SharedTypeOK
  <2>2. CASE items' = items
    BY <2>2 DEF SharedTypeOK
  <2>3. QED
    BY <2>1, <2>2, Zenon DEF Pushing!ReplaceFirst
<1>4. \E ret \in {"OK", "ERR"} : pushed' = [ret |-> ret, out |-> NoEvent]
  BY Zenon DEF Pushing!ReplaceFirst, Pushing!Returns
<1>5. pushed' \in Return
  BY <1>4 DEF Return
<1>6. QED
  BY <1>3, <1>5 DEF Pushing!ReplaceFirst

\* The item that is popped is one of the queue's.
LEMMA UiPopTypes ==
  ASSUME SharedTypeOK, items # <<>>, Popping!Pop
  PROVE  /\ items' \in Seq(Event) /\ Len(items') <= CAPACITY
         /\ policy' = policy /\ merging' = merging
         /\ popped' \in Return /\ popped'.out \in Event
<1>1. /\ items' = Tail(items) /\ popped' = [ret |-> "OK", out |-> Head(items)]
      /\ policy' = policy /\ merging' = merging
  BY DEF Popping!Pop, Popping!Returns
<1>2. items \in Seq(Event) /\ Len(items) <= CAPACITY /\ CAPACITY \in Nat
  BY DEF SharedTypeOK, ThreadedUiAssumption
<1>3. Head(items) \in Event /\ Tail(items) \in Seq(Event) /\ Len(Tail(items)) <= CAPACITY
  BY <1>2
<1>4. QED
  BY <1>1, <1>3 DEF Return

----------------------------------------------------------------------------
(* the main thread's resources *)

\* A step that keeps to one label of main, and the UI thread to its life.
OwnedInv == lpc \in MainPc /\ HeldExactly /\ UiThreadLives

\* The labels and tables of main, spelled out.
LEMMA Labels ==
  /\ DOMAIN Acquires = {"gpio init", "display init", "ubus init", "event queue", "task queue",
                           "result queue", "status init", "loop init", "worker init", "worker start"}
  /\ DOMAIN Unwinds = (DOMAIN Acquires \ {"ubus init", "status init"}) \cup {"ui start"}
  /\ DOMAIN HeldAt = DOMAIN Acquires \cup {"ui start"}
  /\ MainPc = {"gpio init", "display init", "ubus init", "event queue", "task queue",
               "result queue", "status init", "loop init", "worker init", "worker start",
               "ui start", "tear down", "off"} \cup LoopPc
BY DEF Acquires, Unwinds, HeldAt, MainPc, LoopPc

\* The two tables of the start-up, label by label.
LEMMA StartUpOrder ==
  /\ After["gpio init"] = "display init" /\ After["display init"] = "ubus init"
  /\ After["ubus init"] = "event queue" /\ After["event queue"] = "task queue"
  /\ After["task queue"] = "result queue" /\ After["result queue"] = "status init"
  /\ After["status init"] = "loop init" /\ After["loop init"] = "worker init"
  /\ After["worker init"] = "worker start" /\ After["worker start"] = "ui start"
BY Labels DEF After

LEMMA StartUpAcquires ==
  /\ Acquires["gpio init"] = "gpio" /\ Acquires["display init"] = "display"
  /\ Acquires["ubus init"] = "ubus" /\ Acquires["event queue"] = "events"
  /\ Acquires["task queue"] = "tasks" /\ Acquires["result queue"] = "results"
  /\ Acquires["status init"] = "status" /\ Acquires["loop init"] = "loop"
  /\ Acquires["worker init"] = "worker" /\ Acquires["worker start"] = "worker thread"
BY DEF Acquires

LEMMA StartUpHolds ==
  /\ HeldAt["gpio init"] = {} /\ HeldAt["display init"] = {"gpio"}
  /\ HeldAt["ubus init"] = {"gpio", "display"}
  /\ HeldAt["event queue"] = Hal
  /\ HeldAt["task queue"] = Hal \cup {"events"}
  /\ HeldAt["result queue"] = Hal \cup {"events", "tasks"}
  /\ HeldAt["status init"] = Hal \cup Queues
  /\ HeldAt["loop init"] = Hal \cup Queues \cup {"status"}
  /\ HeldAt["worker init"] = Hal \cup Queues \cup {"status", "loop"}
  /\ HeldAt["worker start"] = Hal \cup Queues \cup {"status", "loop", "worker"}
  /\ HeldAt["ui start"] = Hal \cup Queues \cup {"status", "loop", "worker", "worker thread"}
<1>1. \A s \in DOMAIN Unwinds : HeldAt[s] = Unwinds[s]
  BY Labels DEF HeldAt
<1>2. HeldAt["ubus init"] = {"gpio", "display"} /\ HeldAt["status init"] = Hal \cup Queues
  BY Labels DEF HeldAt
<1>3. QED
  BY <1>1, <1>2, Labels DEF Unwinds

\* It grows by what the label acquires.
LEMMA AcquiresAdd ==
  ASSUME NEW s \in DOMAIN Acquires
  PROVE  /\ After[s] \in DOMAIN HeldAt
         /\ HeldAt[After[s]] = HeldAt[s] \cup {Acquires[s]}
<1> DEFINE Adds(l) == HeldAt[After[l]] = HeldAt[l] \cup {Acquires[l]}
<1>1. After[s] \in DOMAIN HeldAt
  BY Labels, StartUpOrder
<1>2. Adds("gpio init")
  <2>1. HeldAt["display init"] = HeldAt["gpio init"] \cup {"gpio"}
    BY StartUpHolds
  <2>2. QED
    BY <2>1, StartUpOrder, StartUpAcquires, Zenon
<1>3. Adds("display init")
  <2>1. HeldAt["ubus init"] = HeldAt["display init"] \cup {"display"}
    BY StartUpHolds
  <2>2. QED
    BY <2>1, StartUpOrder, StartUpAcquires, Zenon
<1>4. Adds("ubus init")
  <2>1. HeldAt["event queue"] = HeldAt["ubus init"] \cup {"ubus"}
    BY StartUpHolds DEF Hal
  <2>2. QED
    BY <2>1, StartUpOrder, StartUpAcquires, Zenon
<1>5. Adds("event queue")
  <2>1. HeldAt["task queue"] = HeldAt["event queue"] \cup {"events"}
    BY StartUpHolds
  <2>2. QED
    BY <2>1, StartUpOrder, StartUpAcquires, Zenon
<1>6. Adds("task queue")
  <2>1. HeldAt["result queue"] = HeldAt["task queue"] \cup {"tasks"}
    BY StartUpHolds
  <2>2. QED
    BY <2>1, StartUpOrder, StartUpAcquires, Zenon
<1>7. Adds("result queue")
  <2>1. HeldAt["status init"] = HeldAt["result queue"] \cup {"results"}
    BY StartUpHolds DEF Queues
  <2>2. QED
    BY <2>1, StartUpOrder, StartUpAcquires, Zenon
<1>8. Adds("status init")
  <2>1. HeldAt["loop init"] = HeldAt["status init"] \cup {"status"}
    BY StartUpHolds
  <2>2. QED
    BY <2>1, StartUpOrder, StartUpAcquires, Zenon
<1>9. Adds("loop init")
  <2>1. HeldAt["worker init"] = HeldAt["loop init"] \cup {"loop"}
    BY StartUpHolds
  <2>2. QED
    BY <2>1, StartUpOrder, StartUpAcquires, Zenon
<1>10. Adds("worker init")
  <2>1. HeldAt["worker start"] = HeldAt["worker init"] \cup {"worker"}
    BY StartUpHolds
  <2>2. QED
    BY <2>1, StartUpOrder, StartUpAcquires, Zenon
<1>11. Adds("worker start")
  <2>1. HeldAt["ui start"] = HeldAt["worker start"] \cup {"worker thread"}
    BY StartUpHolds
  <2>2. QED
    BY <2>1, StartUpOrder, StartUpAcquires, Zenon
<1>12. s \in {"gpio init", "display init", "ubus init", "event queue", "task queue",
              "result queue", "status init", "loop init", "worker init", "worker start"}
  BY Labels
<1> HIDE DEF Adds
<1>13. Adds(s)
  BY <1>12, <1>2, <1>3, <1>4, <1>5, <1>6, <1>7, <1>8, <1>9, <1>10, <1>11
<1>14. QED
  BY <1>1, <1>13 DEF Adds

\* Acquiring one thing more leads from what the one label holds to what the next does,
\* and a failure releases all of it.
LEMMA AcquireOwns ==
  ASSUME OwnedInv, Acquire
  PROVE  OwnedInv'
<1>1. lpc \in DOMAIN Acquires /\ upc' = upc
  BY DEF Acquire, uiVars
<1>2. upc \in {"none", "done"}
  BY <1>1, Labels DEF OwnedInv, UiThreadLives, LoopPc
<1>3. CASE held' = held \cup {Acquires[lpc]} /\ lpc' = After[lpc]
  <2>1. lpc' \in MainPc
    BY <1>1, <1>3, Labels DEF After
  <2>2. lpc' \in DOMAIN HeldAt /\ held' = HeldAt[lpc']
    <3>1. held = HeldAt[lpc]
      BY <1>1, Labels DEF OwnedInv, HeldExactly
    <3>2. QED
      BY <1>1, <1>3, <3>1, AcquiresAdd
  <2>3. HeldExactly'
    BY <2>2, Labels DEF HeldExactly, HeldAt, LoopPc
  <2>4. QED
    BY <1>1, <1>2, <2>1, <2>3 DEF OwnedInv, UiThreadLives
<1>4. CASE lpc \in DOMAIN Unwinds /\ held' = held \ Unwinds[lpc] /\ lpc' = "off"
  <2>1. held' = {}
    BY <1>4, Labels DEF OwnedInv, HeldExactly, HeldAt
  <2>2. HeldExactly' /\ lpc' \in MainPc
    BY <1>4, <2>1, Labels DEF HeldExactly, HeldAt, LoopPc
  <2>3. QED
    BY <1>1, <1>2, <2>2 DEF OwnedInv, UiThreadLives
<1>5. QED
  BY <1>3, <1>4 DEF Acquire

----------------------------------------------------------------------------
(* types *)

LEMMA UiThreadStays ==
  ASSUME UiThreadTypeOK, UNCHANGED <<ui_running, uiVars>>
  PROVE  UiThreadTypeOK'
<1>1. /\ upc' = upc /\ popped' = popped /\ ui_running' = ui_running /\ tick_ms' = tick_ms
      /\ tick_active' = tick_active /\ anim_ticks_left' = anim_ticks_left /\ panel' = panel
      /\ screen_on' = screen_on /\ current_page' = current_page /\ page_mode' = page_mode
      /\ anim' = anim
  BY DEF uiVars, tickVars, pageVars
<1>2. QED
  BY <1>1 DEF UiThreadTypeOK, evt

LEMMA SharedStays ==
  ASSUME SharedTypeOK, UNCHANGED <<ringVars, closed>>
  PROVE  SharedTypeOK'
BY DEF SharedTypeOK, ringVars

LEMMA MainStays ==
  ASSUME MainTypeOK, UNCHANGED <<loopVars, timerVars, requestVars, signalVars>>
  PROVE  MainTypeOK'
BY DEF MainTypeOK, loopVars, timerVars, requestVars, signalVars

\* The numbers and records the loop writes.
LEMMA LoopValues ==
  /\ Nothing \in Return
  /\ 0 \in 0 .. MAX_EXPIRED
  /\ MAX_EXPIRED \in Nat /\ MAX_EXPIRED <= ANIM_TICKS /\ ANIM_TICKS \in Nat
  /\ {OFF, UI_IDLE_TICK_MS, UI_ANIM_TICK_MS} = Period
  /\ NoRequest \notin Period
BY DEF Nothing, Return, ThreadedUiAssumption, Period, OFF, UI_IDLE_TICK_MS,
       UI_ANIM_TICK_MS, NoRequest

LEMMA UiInitTypes ==
  ASSUME Init
  PROVE  UiTypeOK
<1>1. MainTypeOK
  <2>1. /\ lpc = "gpio init" /\ todo = {} /\ back = "poll" /\ retry = NoEvent
        /\ pushed = Nothing /\ running = FALSE /\ shutdown_requested = FALSE
        /\ signalling = FALSE /\ keys_left = MAX_KEYS /\ timer = OFF /\ expired = 0
        /\ pending_tick_ms = NoRequest /\ eventfd = FALSE
    BY Zenon DEF Init
  <2>2. MAX_KEYS \in 0 .. MAX_KEYS
    BY DEF ThreadedUiAssumption
  <2>3. lpc \in MainPc
    BY <2>1, Labels
  <2>4. QED
    BY <2>1, <2>2, <2>3, LoopValues DEF MainTypeOK
<1>2. SharedTypeOK
  <2>1. items = <<>> /\ policy = "COALESCE" /\ merging = TRUE /\ closed = FALSE
    BY Zenon DEF Init
  <2>2. CAPACITY \in Nat
    BY DEF ThreadedUiAssumption
  <2>3. items \in Seq(Event)
    BY <2>1
  <2>4. Len(items) = 0
    BY <2>1
  <2>5. Len(items) <= CAPACITY
    BY <2>2, <2>4
  <2>6. QED
    BY <2>1, <2>3, <2>5, Zenon DEF SharedTypeOK
<1>3. UiThreadTypeOK
  <2>1. (IF PAGES > 1 THEN 1 ELSE 0) \in 0 .. PAGES - 1
    BY DEF ThreadedUiAssumption
  <2>2. 0 \in 0 .. ANIM_TICKS
    BY LoopValues
  <2>3. current_page \in 0 .. PAGES - 1
    BY <2>1, Zenon DEF Init
  <2>4. QED
    BY <2>2, <2>3, LoopValues DEF Init, UiThreadTypeOK, UiPc, Anims
<1>4. QED
  BY <1>1, <1>2, <1>3 DEF UiTypeOK

\* The start-up.
LEMMA StartTypes ==
  ASSUME UiTypeOK, Acquire \/ ui_thread_start_default
  PROVE  UiTypeOK'
<1>1. CASE Acquire
  <2>1. lpc' \in MainPc
    <3>1. CASE lpc \in DOMAIN Acquires /\ lpc' = After[lpc]
      BY <3>1, AcquiresAdd, Labels
    <3>2. QED
      BY <1>1, <3>1, Labels DEF Acquire
  <2>2. lpc' # "replace"
    <3>1. CASE lpc \in DOMAIN Acquires /\ lpc' = After[lpc]
      BY <3>1, AcquiresAdd, Labels
    <3>2. QED
      BY <1>1, <3>1 DEF Acquire
  <2>3. MainTypeOK'
    BY <1>1, <2>1, <2>2 DEF UiTypeOK, MainTypeOK, Acquire, timerVars, requestVars,
                           signalVars
  <2>4. SharedTypeOK' /\ UiThreadTypeOK'
    BY <1>1, SharedStays, UiThreadStays DEF UiTypeOK, Acquire
  <2>5. QED
    BY <2>3, <2>4 DEF UiTypeOK
<1>2. CASE ui_thread_start_default
  <2>1. lpc' \in {"run", "off"} /\ lpc' \in MainPc
    BY <1>2, Labels DEF ui_thread_start_default, LoopPc
  <2>2. UI_IDLE_TICK_MS \in Period
    BY DEF Period
  <2>3. MainTypeOK'
    BY <1>2, <2>1, <2>2 DEF UiTypeOK, MainTypeOK, ui_thread_start_default, timerVars,
                           signalVars
  <2>4. SharedTypeOK'
    BY <1>2, SharedStays DEF UiTypeOK, ui_thread_start_default
  <2>5. /\ upc' \in {"top", upc} /\ popped' = popped /\ ui_running' \in {TRUE, ui_running}
        /\ tick_ms' = UI_IDLE_TICK_MS /\ tick_active' = TRUE /\ panel' = TRUE
        /\ anim_ticks_left' = anim_ticks_left /\ screen_on' = screen_on
        /\ current_page' = current_page /\ page_mode' = page_mode /\ anim' = anim
    BY <1>2 DEF ui_thread_start_default, pageVars
  <2>6. UiThreadTypeOK'
    BY <2>2, <2>5 DEF UiTypeOK, UiThreadTypeOK, UiPc, evt
  <2>7. QED
    BY <2>3, <2>4, <2>6 DEF UiTypeOK
<1>3. QED
  BY <1>1, <1>2

\* What a push of the loop leaves of main.
LEMMA UiPushLeaves ==
  ASSUME UiTypeOK, NEW e \in Event,
         NEW to \in {"gpio", "control", "poll"}, Push(e, to), closed' = closed
  PROVE  /\ SharedTypeOK' /\ pushed' \in Return
         /\ lpc' \in {to, "replace"} /\ lpc' \in MainPc /\ back' \in {"gpio", "control", "poll"}
         /\ retry' \in Event \cup {NoEvent} /\ (lpc' = "replace" => retry' \in Event)
<1>1. Pushing!Push(e)
  BY DEF Push
<1>2. /\ items' \in Seq(Event) /\ Len(items') <= CAPACITY
      /\ policy' = policy /\ merging' = merging /\ pushed' \in Return
  BY <1>1, UiPushTypes DEF UiTypeOK
<1>3. SharedTypeOK'
  BY <1>2, Zenon DEF UiTypeOK, SharedTypeOK
<1>4. \/ lpc' = "replace" /\ back' = to /\ retry' = e
      \/ lpc' = to /\ back' = back /\ retry' = retry
  BY Zenon DEF Push
<1>5. "replace" \in MainPc /\ to \in MainPc
  BY Labels DEF LoopPc
<1>6. QED
  BY <1>2, <1>3, <1>4, <1>5 DEF UiTypeOK, MainTypeOK

\* The steps of the loop that only go on.
LEMMA GoesTypes ==
  ASSUME UiTypeOK, NEW to \in LoopPc \ {"replace"}, Goes(to)
  PROVE  UiTypeOK'
<1>1. to \in MainPc /\ to # "replace"
  BY Labels DEF LoopPc
<1>2. MainTypeOK'
  BY <1>1, LoopValues DEF UiTypeOK, MainTypeOK, Goes, timerVars, requestVars, signalVars
<1>3. SharedTypeOK' /\ UiThreadTypeOK'
  BY SharedStays, UiThreadStays DEF UiTypeOK, Goes
<1>4. QED
  BY <1>2, <1>3 DEF UiTypeOK

LEMMA LoopTypes ==
  ASSUME UiTypeOK, Loop
  PROVE  UiTypeOK'
<1>0. LoopPc \subseteq MainPc
  BY Labels
<1>1. CASE event_loop_run
  <2>1. MainTypeOK'
    BY <1>0, <1>1 DEF UiTypeOK, MainTypeOK, event_loop_run, timerVars, requestVars,
                    signalVars, LoopPc
  <2>2. SharedTypeOK' /\ UiThreadTypeOK'
    BY <1>1, SharedStays, UiThreadStays DEF UiTypeOK, event_loop_run
  <2>3. QED
    BY <2>1, <2>2 DEF UiTypeOK
<1>2. CASE Poll
  <2>1. todo' \subseteq {"gpio", "timer", "control"}
    BY <1>2 DEF Poll, Readable
  <2>2. MainTypeOK'
    BY <1>0, <1>2, <2>1, LoopValues
       DEF UiTypeOK, MainTypeOK, Poll, timerVars, requestVars, signalVars, LoopPc
  <2>3. SharedTypeOK' /\ UiThreadTypeOK'
    BY <1>2, SharedStays, UiThreadStays DEF UiTypeOK, Poll
  <2>4. QED
    BY <2>2, <2>3 DEF UiTypeOK
<1>3. CASE ReplaceTick
  <2>1. retry \in Event /\ lpc' = back /\ back \in {"gpio", "control", "poll"} /\ closed' = closed
    BY <1>3 DEF UiTypeOK, MainTypeOK, ReplaceTick
  <2>2. /\ items' \in Seq(Event) /\ Len(items') <= CAPACITY
        /\ policy' = policy /\ merging' = merging /\ pushed' \in Return
    BY <1>3, <2>1, UiReplaceTypes DEF UiTypeOK, ReplaceTick
  <2>3. MainTypeOK'
    BY <1>0, <1>3, <2>1, <2>2
       DEF UiTypeOK, MainTypeOK, ReplaceTick, timerVars, requestVars, signalVars, LoopPc
  <2>4. SharedTypeOK'
    BY <2>1, <2>2, Zenon DEF UiTypeOK, SharedTypeOK
  <2>5. UiThreadTypeOK'
    BY <1>3, UiThreadStays DEF UiTypeOK, ReplaceTick
  <2>6. QED
    BY <2>3, <2>4, <2>5 DEF UiTypeOK
<1>4. CASE handle_gpio
  <2>1. CASE Goes("timer")
    BY <2>1, GoesTypes DEF LoopPc
  <2>2. CASE ~Goes("timer")
    <3>1. PICK k \in Keys : Push(Press(k), "gpio")
      BY <1>4, <2>2 DEF handle_gpio
    <3>2. /\ keys_left > 0 /\ keys_left' = keys_left - 1 /\ closed' = closed
          /\ UNCHANGED <<todo, running, timerVars, requestVars, signalVars,
                         ui_running, uiVars>>
      BY <1>4, <2>2 DEF handle_gpio
    <3>3. Press(k) \in Event
      BY UiEvents
    <3>4. /\ SharedTypeOK' /\ pushed' \in Return /\ lpc' \in MainPc
          /\ back' \in {"gpio", "control", "poll"}
          /\ retry' \in Event \cup {NoEvent} /\ (lpc' = "replace" => retry' \in Event)
      BY <3>1, <3>2, <3>3, UiPushLeaves
    <3>5. keys_left' \in 0 .. MAX_KEYS
      BY <3>2 DEF UiTypeOK, MainTypeOK, ThreadedUiAssumption
    <3>6. MainTypeOK'
      BY <3>2, <3>4, <3>5 DEF UiTypeOK, MainTypeOK, timerVars, requestVars, signalVars
    <3>7. QED
      BY <3>2, <3>4, <3>6, UiThreadStays DEF UiTypeOK
  <2>3. QED
    BY <2>1, <2>2
<1>5. CASE handle_timer
  <2>1. CASE Goes("control")
    BY <2>1, GoesTypes DEF LoopPc
  <2>2. CASE ~Goes("control")
    <3>1. /\ Push(Tick(expired), "control") /\ expired > 0 /\ expired' = 0 /\ closed' = closed
          /\ UNCHANGED <<todo, running, keys_left, timer, requestVars, signalVars,
                         ui_running, uiVars>>
      BY <1>5, <2>2 DEF handle_timer
    <3>2. expired \in 1 .. ANIM_TICKS
      BY <3>1, LoopValues DEF UiTypeOK, MainTypeOK
    <3>3. Tick(expired) \in Event
      BY <3>2, UiEvents
    <3>4. /\ SharedTypeOK' /\ pushed' \in Return /\ lpc' \in MainPc
          /\ back' \in {"gpio", "control", "poll"}
          /\ retry' \in Event \cup {NoEvent} /\ (lpc' = "replace" => retry' \in Event)
      BY <3>1, <3>3, UiPushLeaves
    <3>5. MainTypeOK'
      BY <3>1, <3>4, LoopValues DEF UiTypeOK, MainTypeOK, requestVars, signalVars
    <3>6. QED
      BY <3>1, <3>4, <3>5, UiThreadStays DEF UiTypeOK
  <2>3. QED
    BY <2>1, <2>2
<1>6. CASE Drain
  <2>1. lpc' \in LoopPc \ {"replace"} /\ eventfd' \in BOOLEAN /\ todo' = {} /\ pushed' = Nothing
    BY <1>6 DEF Drain, LoopPc, UiTypeOK, MainTypeOK
  <2>2. MainTypeOK'
    BY <1>0, <1>6, <2>1, LoopValues
       DEF UiTypeOK, MainTypeOK, Drain, timerVars, signalVars
  <2>3. SharedTypeOK' /\ UiThreadTypeOK'
    BY <1>6, SharedStays, UiThreadStays DEF UiTypeOK, Drain
  <2>4. QED
    BY <2>2, <2>3 DEF UiTypeOK
<1>7. CASE TakeRequest
  <2>1. timer' \in Period /\ expired' \in 0 .. MAX_EXPIRED
    BY <1>7, LoopValues
       DEF TakeRequest, event_loop_apply_tick, timerVars, UiTypeOK, MainTypeOK
  <2>2. lpc' = "shutdown?" /\ lpc' \in MainPc /\ pending_tick_ms' = NoRequest
    BY <1>0, <1>7 DEF TakeRequest, LoopPc
  <2>3. MainTypeOK'
    BY <1>7, <2>1, <2>2 DEF UiTypeOK, MainTypeOK, TakeRequest, signalVars
  <2>4. SharedTypeOK' /\ UiThreadTypeOK'
    BY <1>7, SharedStays, UiThreadStays DEF UiTypeOK, TakeRequest
  <2>5. QED
    BY <2>3, <2>4 DEF UiTypeOK
<1>8. CASE TakeShutdown
  <2>1. CASE Goes("poll")
    BY <2>1, GoesTypes DEF LoopPc
  <2>2. CASE ~Goes("poll")
    <3>1. /\ Push(Shutdown, "poll") /\ running' = FALSE /\ closed' = closed
          /\ UNCHANGED <<todo, keys_left, timerVars, requestVars, signalVars,
                         ui_running, uiVars>>
      BY <1>8, <2>2 DEF TakeShutdown
    <3>2. /\ SharedTypeOK' /\ pushed' \in Return /\ lpc' \in MainPc
          /\ back' \in {"gpio", "control", "poll"}
          /\ retry' \in Event \cup {NoEvent} /\ (lpc' = "replace" => retry' \in Event)
      BY <3>1, UiEvents, UiPushLeaves
    <3>3. MainTypeOK'
      BY <3>1, <3>2 DEF UiTypeOK, MainTypeOK, timerVars, requestVars, signalVars
    <3>4. QED
      BY <3>1, <3>2, <3>3, UiThreadStays DEF UiTypeOK
  <2>3. QED
    BY <2>1, <2>2
<1>9. QED
  BY <1>1, <1>2, <1>3, <1>4, <1>5, <1>6, <1>7, <1>8 DEF Loop

LEMMA EndTypes ==
  ASSUME UiTypeOK, End
  PROVE  UiTypeOK'
<1>1. /\ lpc' \in {"close", "join", "tear down", "off"}
      /\ lpc' \in MainPc /\ lpc' # "replace"
      /\ UNCHANGED <<todo, back, retry, pushed, running, keys_left, timerVars,
                     requestVars, signalVars, ringVars>>
  <2>1. /\ lpc' \in {"close", "join", "tear down", "off"}
        /\ UNCHANGED <<todo, back, retry, pushed, running, keys_left, timerVars,
                       requestVars, signalVars, ringVars>>
    BY DEF End, StopUi, CloseQueue, Join, TearDown
  <2>2. QED
    BY <2>1, Labels DEF LoopPc
<1>2. closed' \in {closed, TRUE} /\ ui_running' \in {ui_running, FALSE} /\ panel' \in {panel, FALSE}
  BY DEF End, StopUi, CloseQueue, Join, TearDown, uiVars
<1>3. UNCHANGED <<upc, popped, tickVars, pageVars>>
  BY DEF End, StopUi, CloseQueue, Join, TearDown, uiVars
<1>4. MainTypeOK'
  BY <1>1 DEF UiTypeOK, MainTypeOK, timerVars, requestVars, signalVars
<1>5. SharedTypeOK'
  BY <1>1, <1>2 DEF UiTypeOK, SharedTypeOK, ringVars
<1>6. UiThreadTypeOK'
  BY <1>2, <1>3 DEF UiTypeOK, UiThreadTypeOK, tickVars, pageVars, evt
<1>7. QED
  BY <1>4, <1>5, <1>6 DEF UiTypeOK

\* The kernel's timer and the signal handler.
LEMMA OutsideTypes ==
  ASSUME UiTypeOK,
         TimerFires \/ SignalArrives \/ SignalWrites
  PROVE  UiTypeOK'
<1>1. /\ UNCHANGED <<loopVars, timer, pending_tick_ms, ringVars, closed, ui_running, uiVars>>
      /\ expired' = expired \/ (expired < MAX_EXPIRED /\ expired' = expired + 1)
      /\ eventfd' \in {eventfd, TRUE} /\ signalling' \in BOOLEAN
      /\ shutdown_requested' \in {shutdown_requested, TRUE}
  BY DEF TimerFires, SignalArrives, SignalWrites, timerVars, requestVars,
         signalVars, UiTypeOK, MainTypeOK
<1>2. expired' \in 0 .. MAX_EXPIRED
  BY <1>1, LoopValues DEF UiTypeOK, MainTypeOK
<1>3. MainTypeOK'
  BY <1>1, <1>2 DEF UiTypeOK, MainTypeOK, loopVars
<1>4. QED
  BY <1>1, <1>3, SharedStays, UiThreadStays DEF UiTypeOK

\* The pages: whatever a key or a tick does, a page that exists is shown or slid to.
LEMMA KeyTypes ==
  ASSUME UiTypeOK, NEW k \in Keys, NEW done \in BOOLEAN,
         page_controller_handle_key(k, done)
  PROVE  /\ screen_on' \in BOOLEAN /\ current_page' \in 0 .. PAGES - 1
         /\ page_mode' \in {"VIEW", "ENTER"} /\ anim' \in Anims
<1>1. /\ screen_on \in BOOLEAN /\ current_page \in 0 .. PAGES - 1
      /\ page_mode \in {"VIEW", "ENTER"} /\ anim \in Anims
  BY DEF UiTypeOK, UiThreadTypeOK
<1>2. screen_on' \in {screen_on, TRUE, FALSE} /\ current_page' = current_page
  BY <1>1 DEF page_controller_handle_key, pageVars, try_enter_mode, switch_page
<1>3. page_mode' \in {"VIEW", "ENTER"}
  BY <1>1 DEF page_controller_handle_key, pageVars, try_enter_mode, switch_page
<1>4. \A d \in {-1, 1} : (current_page + d + PAGES) % PAGES \in 0 .. PAGES - 1
  BY <1>1 DEF ThreadedUiAssumption
<1>5. NoAnim \in Anims /\ ModeAnim \in Anims
      /\ \A p \in 0 .. PAGES - 1 : Slide(p) \in Anims
  BY DEF Anims
<1>6. anim' \in Anims
  <2>1. \/ anim' = anim \/ anim' = NoAnim \/ anim' = ModeAnim
        \/ \E d \in {-1, 1} : switch_page(d)
    BY DEF page_controller_handle_key, pageVars, try_enter_mode
  <2>2. ASSUME NEW d \in {-1, 1}, switch_page(d)
        PROVE  anim' \in Anims
    <3> DEFINE p == (current_page + d + PAGES) % PAGES
    <3>1. anim' = Slide(p) \/ anim' = NoAnim
      BY <2>2, Zenon DEF switch_page
    <3>2. p \in 0 .. PAGES - 1
      BY <1>4
    <3> HIDE DEF p
    <3>3. QED
      BY <1>5, <3>1, <3>2
  <2>3. QED
    BY <1>1, <1>5, <2>1, <2>2
<1>7. QED
  BY <1>1, <1>2, <1>3, <1>6

LEMMA TickTypes ==
  ASSUME UiTypeOK, NEW idle \in BOOLEAN, NEW done \in BOOLEAN,
         page_controller_tick(idle, done)
  PROVE  /\ screen_on' \in BOOLEAN /\ current_page' \in 0 .. PAGES - 1
         /\ page_mode' \in {"VIEW", "ENTER"} /\ anim' \in Anims
<1>1. /\ screen_on \in BOOLEAN /\ current_page \in 0 .. PAGES - 1
      /\ page_mode \in {"VIEW", "ENTER"} /\ anim \in Anims
  BY DEF UiTypeOK, UiThreadTypeOK
<1>2. anim.type = "SLIDE" => anim.to_page \in 0 .. PAGES - 1
  BY <1>1 DEF Anims, NoAnim, ModeAnim, Slide
<1>3. current_page' \in 0 .. PAGES - 1
  BY <1>1, <1>2 DEF page_controller_tick
<1>4. anim' \in Anims
  BY <1>1 DEF page_controller_tick, Anims
<1>5. QED
  BY <1>1, <1>3, <1>4 DEF page_controller_tick

\* Another period is stored for the loop and then announced, the same one is neither.
LEMMA ApplyTick ==
  ASSUME NEW ms, ui_thread_apply_tick(ms)
  PROVE  /\ tick_ms' = ms
         /\ \/ upc' = "handled" /\ tick_ms' = tick_ms /\ pending_tick_ms' = pending_tick_ms
            \/ upc' = "write" /\ pending_tick_ms' = tick_ms'
BY DEF ui_thread_apply_tick

\* However an event sets the tick, the period known to the UI thread changes only
\* together with the request.
LEMMA SetTickStores ==
  ASSUME UiTypeOK, upc = "handle", SetTick
  PROVE  /\ \/ upc' = "handled" /\ tick_ms' = tick_ms /\ pending_tick_ms' = pending_tick_ms
            \/ upc' = "write" /\ pending_tick_ms' = tick_ms'
         /\ tick_ms' \in Period /\ tick_active' \in BOOLEAN
         /\ anim_ticks_left' \in 0 .. ANIM_TICKS
<1>1. /\ tick_ms \in Period /\ tick_active \in BOOLEAN /\ anim_ticks_left \in 0 .. ANIM_TICKS
      /\ evt \in Event
  BY DEF UiTypeOK, UiThreadTypeOK
<1>2. /\ OFF \in Period /\ UI_ANIM_TICK_MS \in Period /\ UI_IDLE_TICK_MS \in Period
      /\ ANIM_TICKS \in 0 .. ANIM_TICKS /\ 0 \in 0 .. ANIM_TICKS
  BY DEF Period, ThreadedUiAssumption
<1>3. CASE ui_thread_stop_tick
  <2>1. CASE tick_active
    <3>1. ui_thread_apply_tick(OFF) /\ tick_active' = FALSE /\ anim_ticks_left' = 0
      BY <1>3, <2>1 DEF ui_thread_stop_tick
    <3>2. QED
      BY <1>2, <3>1, ApplyTick
  <2>2. CASE ~tick_active
    <3>1. /\ upc' = "handled" /\ tick_ms' = tick_ms /\ tick_active' = tick_active
          /\ anim_ticks_left' = anim_ticks_left /\ pending_tick_ms' = pending_tick_ms
      BY <1>3, <2>2 DEF ui_thread_stop_tick, tickVars
    <3>2. QED
      BY <1>1, <3>1
  <2>3. QED
    BY <2>1, <2>2
<1>4. CASE upc' = "handled" /\ UNCHANGED <<tickVars, pending_tick_ms>>
  BY <1>1, <1>4 DEF tickVars
<1>5. CASE KeepAnimating
  BY <1>1, <1>2, <1>5, ApplyTick DEF KeepAnimating
<1>6. CASE ui_thread_start_tick
  BY <1>2, <1>6, ApplyTick DEF ui_thread_start_tick
<1>7. CASE evt.type = "TICK" /\ CountDown
  <2>1. CASE ui_thread_switch_idle_tick
    BY <1>2, <2>1, ApplyTick DEF ui_thread_switch_idle_tick
  <2>2. CASE ~ui_thread_switch_idle_tick
    <3>1. /\ anim_ticks_left = 0 \/ evt.data < anim_ticks_left
          /\ anim_ticks_left' = IF anim_ticks_left = 0 THEN 0 ELSE anim_ticks_left - evt.data
          /\ upc' = "handled" /\ tick_ms' = tick_ms /\ tick_active' = tick_active
          /\ pending_tick_ms' = pending_tick_ms
      BY <1>7, <2>2 DEF CountDown
    <3>2. evt.data \in 1 .. ANIM_TICKS
      BY <1>1, <1>7, UiTickData
    <3>3. anim_ticks_left' \in 0 .. ANIM_TICKS
      BY <1>1, <3>1, <3>2
    <3>4. QED
      BY <1>1, <3>1, <3>3
  <2>3. QED
    BY <2>1, <2>2
<1>8. QED
  BY <1>3, <1>4, <1>5, <1>6, <1>7 DEF SetTick

LEMMA UiHandleTypes ==
  ASSUME UiTypeOK, Handle
  PROVE  UiTypeOK'
<1>1. /\ upc = "handle" /\ ui_controller_handle_event /\ SetTick
      /\ lpc' = lpc /\ popped' = popped /\ ui_running' = ui_running
      /\ UNCHANGED <<loopVars, timerVars, eventfd, signalVars, ringVars, closed>>
  BY DEF Handle, loopVars
<1>2. /\ upc' \in {"handled", "write"}
      /\ pending_tick_ms' \in Period \cup {NoRequest}
      /\ tick_ms' \in Period /\ tick_active' \in BOOLEAN
      /\ anim_ticks_left' \in 0 .. ANIM_TICKS
  <2>1. pending_tick_ms \in Period \cup {NoRequest}
    BY DEF UiTypeOK, MainTypeOK
  <2>2. QED
    BY <1>1, <2>1, SetTickStores
<1>3. evt \in Event
  BY <1>1 DEF UiTypeOK, UiThreadTypeOK
<1>4. /\ screen_on' \in BOOLEAN /\ current_page' \in 0 .. PAGES - 1
      /\ page_mode' \in {"VIEW", "ENTER"} /\ anim' \in Anims
  <2>1. CASE evt.type = "SHUTDOWN" /\ UNCHANGED <<pageVars, panel>>
    BY <2>1 DEF UiTypeOK, UiThreadTypeOK, pageVars
  <2>2. CASE \E done \in BOOLEAN :
               evt.type = "KEY" /\ page_controller_handle_key(evt.data, done)
    <3>1. evt.data \in Keys
      BY <1>3, <2>2, UiKeyData
    <3>2. QED
      BY <2>2, <3>1, KeyTypes
  <2>3. CASE \E idle, done \in BOOLEAN : page_controller_tick(idle, done)
    BY <2>3, TickTypes
  <2>4. QED
    BY <1>1, <2>1, <2>2, <2>3, Zenon DEF ui_controller_handle_event
<1>5. panel' \in BOOLEAN
  <2>1. CASE panel' = panel
    BY <2>1 DEF UiTypeOK, UiThreadTypeOK
  <2>2. CASE \E changed \in BOOLEAN : Show(changed)
    BY <2>2 DEF Show, UiTypeOK, UiThreadTypeOK
  <2>3. QED
    BY <1>1, <2>1, <2>2, Zenon DEF ui_controller_handle_event
<1>6. MainTypeOK'
  BY <1>1, <1>2 DEF UiTypeOK, MainTypeOK, loopVars, timerVars, signalVars
<1>7. SharedTypeOK'
  BY <1>1, SharedStays DEF UiTypeOK
<1>8. UiThreadTypeOK'
  BY <1>1, <1>2, <1>4, <1>5 DEF UiTypeOK, UiThreadTypeOK, UiPc
<1>9. QED
  BY <1>6, <1>7, <1>8 DEF UiTypeOK

LEMMA UiStepTypes ==
  ASSUME UiTypeOK, Ui
  PROVE  UiTypeOK'
<1>1. CASE Top
  <2>1. /\ upc' \in {"wait", "done"} /\ popped' = Nothing
        /\ UNCHANGED <<loopVars, timerVars, requestVars, signalVars, ringVars,
                       closed, ui_running, tickVars, panel, pageVars>>
    BY <1>1 DEF Top
  <2>2. UiThreadTypeOK'
    BY <2>1, LoopValues DEF UiTypeOK, UiThreadTypeOK, UiPc, tickVars, pageVars
  <2>3. QED
    BY <2>1, <2>2, MainStays, SharedStays DEF UiTypeOK
<1>2. CASE Wait
  <2>1. UNCHANGED <<loopVars, timerVars, requestVars, signalVars, closed,
                    ui_running, tickVars, panel, pageVars>>
    BY <1>2 DEF Wait
  <2>2. MainTypeOK'
    BY <2>1, MainStays DEF UiTypeOK
  <2>3. CASE items # <<>> /\ Popping!Pop /\ upc' = "handle"
    <3>1. /\ items' \in Seq(Event) /\ Len(items') <= CAPACITY
          /\ policy' = policy /\ merging' = merging
          /\ popped' \in Return /\ popped'.out \in Event
      BY <2>3, UiPopTypes DEF UiTypeOK
    <3>2. SharedTypeOK'
      BY <2>1, <3>1, Zenon DEF UiTypeOK, SharedTypeOK
    <3>3. UiThreadTypeOK'
      BY <2>1, <2>3, <3>1 DEF UiTypeOK, UiThreadTypeOK, UiPc, tickVars, pageVars, evt
    <3>4. QED
      BY <2>2, <3>2, <3>3 DEF UiTypeOK
  <2>4. CASE upc' = "top" /\ popped' = popped /\ UNCHANGED ringVars
    <3>1. UiThreadTypeOK'
      BY <2>1, <2>4 DEF UiTypeOK, UiThreadTypeOK, UiPc, tickVars, pageVars
    <3>2. QED
      BY <2>1, <2>2, <2>4, <3>1, SharedStays DEF UiTypeOK
  <2>5. QED
    BY <1>2, <2>3, <2>4 DEF Wait
<1>3. CASE Handle
  BY <1>3, UiHandleTypes
<1>4. CASE WriteEventfd
  <2>1. /\ upc' = "handled" /\ eventfd' = TRUE
        /\ UNCHANGED <<loopVars, timerVars, pending_tick_ms, signalVars, ringVars,
                       closed, ui_running, popped, tickVars, panel, pageVars>>
    BY <1>4 DEF WriteEventfd
  <2>2. MainTypeOK'
    BY <2>1 DEF UiTypeOK, MainTypeOK, loopVars, timerVars, signalVars
  <2>3. UiThreadTypeOK'
    BY <2>1 DEF UiTypeOK, UiThreadTypeOK, UiPc, tickVars, pageVars
  <2>4. QED
    BY <2>1, <2>2, <2>3, SharedStays DEF UiTypeOK
<1>5. QED
  BY <1>1, <1>2, <1>3, <1>4 DEF Ui

----------------------------------------------------------------------------
(* what main holds, and the request for a period *)

UiInv == UiTypeOK /\ HeldExactly /\ UiThreadLives /\ RequestInv

\* What the steps of the loop do to the rest: they stay in it and touch neither what main
\* holds nor the UI thread.  A request leaves pending_tick_ms only for the timer, and only
\* in that step's predecessor is its wake-up drained.
LEMMA LoopKeeps ==
  ASSUME UiTypeOK, Loop
  PROVE  /\ lpc \in LoopPc /\ lpc' \in LoopPc /\ held' = held
         /\ upc' = upc /\ tick_ms' = tick_ms
         /\ \/ /\ lpc # "take"
               /\ pending_tick_ms' = pending_tick_ms /\ timer' = timer
               /\ eventfd' = eventfd \/ lpc' = "take"
            \/ /\ lpc = "take"
               /\ pending_tick_ms' = NoRequest
               /\ timer' = IF pending_tick_ms # NoRequest THEN pending_tick_ms ELSE timer
<1>1. back \in {"gpio", "control", "poll"}
  BY DEF UiTypeOK, MainTypeOK
<1>2. CASE event_loop_run \/ Poll
  BY <1>2 DEF event_loop_run, Poll, LoopPc, uiVars, tickVars, requestVars, timerVars
<1>3. CASE ReplaceTick
  BY <1>1, <1>3 DEF ReplaceTick, LoopPc, uiVars, tickVars, requestVars, timerVars
<1>4. \A e, to : Push(e, to) => lpc' \in {to, "replace"}
  BY DEF Push
<1>5. CASE handle_gpio
  <2>1. /\ lpc = "gpio" /\ lpc' \in {"timer", "gpio", "replace"} /\ held' = held
        /\ UNCHANGED <<timer, requestVars, uiVars>>
    <3>1. CASE Goes("timer")
      BY <1>5, <3>1 DEF handle_gpio, Goes, timerVars
    <3>2. CASE ~Goes("timer")
      BY <1>4, <1>5, <3>2 DEF handle_gpio, timerVars
    <3>3. QED
      BY <3>1, <3>2
  <2>2. QED
    BY <2>1 DEF LoopPc, uiVars, tickVars, requestVars
<1>6. CASE handle_timer
  <2>1. /\ lpc = "timer" /\ lpc' \in {"control", "replace"} /\ held' = held
        /\ UNCHANGED <<timer, requestVars, uiVars>>
    <3>1. CASE Goes("control")
      BY <1>6, <3>1 DEF handle_timer, Goes, timerVars
    <3>2. CASE ~Goes("control")
      BY <1>4, <1>6, <3>2 DEF handle_timer
    <3>3. QED
      BY <3>1, <3>2
  <2>2. QED
    BY <2>1 DEF LoopPc, uiVars, tickVars, requestVars
<1>7. CASE Drain
  BY <1>7 DEF Drain, LoopPc, uiVars, tickVars, timerVars
<1>8. CASE TakeRequest
  BY <1>8 DEF TakeRequest, event_loop_apply_tick, LoopPc, uiVars, tickVars, timerVars
<1>9. CASE TakeShutdown
  <2>1. /\ lpc = "shutdown?" /\ lpc' \in {"poll", "replace"} /\ held' = held
        /\ UNCHANGED <<timer, requestVars, uiVars>>
    <3>1. CASE Goes("poll")
      BY <1>9, <3>1 DEF TakeShutdown, Goes, timerVars
    <3>2. CASE ~Goes("poll")
      BY <1>4, <1>9, <3>2 DEF TakeShutdown, timerVars
    <3>3. QED
      BY <3>1, <3>2
  <2>2. QED
    BY <2>1 DEF LoopPc, uiVars, tickVars, requestVars
<1>10. QED
  BY <1>2, <1>3, <1>5, <1>6, <1>7, <1>8, <1>9 DEF Loop

LEMMA LoopOwns ==
  ASSUME UiInv, Loop
  PROVE  HeldExactly' /\ UiThreadLives' /\ RequestInv'
<1>1. /\ lpc \in LoopPc /\ lpc' \in LoopPc /\ held' = held /\ upc' = upc /\ tick_ms' = tick_ms
      /\ \/ /\ lpc # "take"
            /\ pending_tick_ms' = pending_tick_ms /\ timer' = timer
            /\ eventfd' = eventfd \/ lpc' = "take"
         \/ /\ lpc = "take"
            /\ pending_tick_ms' = NoRequest
            /\ timer' = IF pending_tick_ms # NoRequest THEN pending_tick_ms ELSE timer
  BY LoopKeeps DEF UiInv
<1>2. HeldExactly'
  BY <1>1, Labels DEF UiInv, HeldExactly, LoopPc
<1>3. UiThreadLives'
  BY <1>1 DEF UiThreadLives
<1>4. RequestInv'
  BY <1>1 DEF UiInv, RequestInv
<1>5. QED
  BY <1>2, <1>3, <1>4

\* Main's start and end.  Creating the UI thread asks for the idle period with the wake-up
\* already written; the join waits until that thread is done.
LEMMA MainOwns ==
  ASSUME UiInv, Acquire \/ ui_thread_start_default \/ End
  PROVE  HeldExactly' /\ UiThreadLives' /\ RequestInv'
<1>1. CASE Acquire
  <2>1. OwnedInv'
    BY <1>1, AcquireOwns DEF UiInv, OwnedInv, UiTypeOK, MainTypeOK
  <2>2. /\ UNCHANGED <<requestVars, timer, tick_ms, upc>>
        /\ lpc # "take"
    BY <1>1, Labels DEF Acquire, timerVars, uiVars, tickVars
  <2>3. RequestInv'
    BY <2>2 DEF UiInv, RequestInv, requestVars
  <2>4. QED
    BY <2>1, <2>3 DEF OwnedInv
<1>2. CASE ui_thread_start_default
  <2>1. held = HeldAt["ui start"] /\ HeldAt["ui start"] = Unwinds["ui start"]
    BY <1>2, Labels DEF UiInv, HeldExactly, ui_thread_start_default, HeldAt
  <2>2. Unwinds["ui start"] \cup {"ui thread"} = Resources
    BY Labels DEF Unwinds, Hal, Queues, Resources
  <2>3. \/ lpc' = "run" /\ held' = Resources
        \/ lpc' = "off" /\ held' = {} /\ upc' = upc
    BY <1>2, <2>1, <2>2 DEF ui_thread_start_default
  <2>4. upc \in {"none", "done"}
    BY <1>2 DEF UiInv, UiThreadLives, ui_thread_start_default, LoopPc
  <2>5. HeldExactly' /\ UiThreadLives'
    BY <2>3, <2>4, Labels DEF HeldExactly, UiThreadLives, LoopPc
  <2>6. pending_tick_ms' = UI_IDLE_TICK_MS /\ eventfd' = TRUE /\ tick_ms' = UI_IDLE_TICK_MS
    BY <1>2 DEF ui_thread_start_default
  <2>7. UI_IDLE_TICK_MS # NoRequest
    BY DEF UI_IDLE_TICK_MS, NoRequest
  <2>8. RequestInv'
    BY <2>6, <2>7 DEF RequestInv
  <2>9. QED
    BY <2>5, <2>8
<1>3. CASE End
  <2>1. UNCHANGED <<requestVars, timer, tick_ms, upc>> /\ lpc # "take"
    BY <1>3 DEF End, StopUi, CloseQueue, Join, TearDown, timerVars, uiVars,
                tickVars
  <2>2. RequestInv'
    BY <2>1 DEF UiInv, RequestInv, requestVars
  <2>3. CASE StopUi \/ CloseQueue
    <3>1. lpc \in LoopPc /\ lpc' \in LoopPc /\ held' = held
      BY <2>3 DEF StopUi, CloseQueue, LoopPc
    <3>2. QED
      BY <2>1, <2>2, <3>1, Labels DEF UiInv, HeldExactly, UiThreadLives, LoopPc
  <2>4. CASE Join
    <3>1. /\ held = Resources /\ held' = Resources \ {"ui thread", "worker thread"}
          /\ lpc' = "tear down" /\ upc = "done"
      BY <2>4 DEF Join, UiInv, HeldExactly, LoopPc
    <3>2. QED
      BY <2>1, <2>2, <3>1, Labels DEF HeldExactly, UiThreadLives, LoopPc
  <2>5. CASE TearDown
    <3>1. /\ held = Resources \ {"worker thread", "ui thread"}
          /\ held' = held \ ({"worker", "loop", "status", "results", "tasks", "events"} \cup Hal)
          /\ lpc = "tear down" /\ lpc' = "off"
      BY <2>5 DEF TearDown, UiInv, HeldExactly
    <3>2. held' = {}
      BY <3>1 DEF Resources, Hal
    <3>3. upc \in {"none", "done"}
      BY <3>1 DEF UiInv, UiThreadLives, LoopPc
    <3>4. QED
      BY <2>1, <2>2, <3>1, <3>2, <3>3, Labels DEF HeldExactly, UiThreadLives, LoopPc
  <2>6. QED
    BY <1>3, <2>3, <2>4, <2>5 DEF End
<1>4. QED
  BY <1>1, <1>2, <1>3

\* The UI thread lives on or ends, and what it stores it announces.
LEMMA UiOwns ==
  ASSUME UiInv, Ui
  PROVE  HeldExactly' /\ UiThreadLives' /\ RequestInv'
<1>1. /\ lpc' = lpc /\ held' = held /\ timer' = timer
      /\ upc \notin {"none", "done"}
  BY DEF Ui, Top, Wait, Handle, WriteEventfd, loopVars, timerVars
<1>2. HeldExactly' /\ UiThreadLives'
  BY <1>1 DEF UiInv, HeldExactly, UiThreadLives
<1>3. CASE Top \/ Wait
  <2>1. /\ pending_tick_ms' = pending_tick_ms /\ eventfd' = eventfd /\ tick_ms' = tick_ms
        /\ upc # "write"
    BY <1>3 DEF Top, Wait, requestVars, tickVars
  <2>2. RequestInv'
    BY <1>1, <2>1 DEF UiInv, RequestInv
  <2>3. QED
    BY <1>2, <2>2
<1>4. CASE Handle
  <2>1. eventfd' = eventfd /\ upc = "handle"
    BY <1>4 DEF Handle
  <2>2. /\ \/ upc' = "handled" /\ tick_ms' = tick_ms /\ pending_tick_ms' = pending_tick_ms
           \/ upc' = "write" /\ pending_tick_ms' = tick_ms'
        /\ tick_ms' \in Period
    BY <1>4, SetTickStores DEF UiInv, Handle
  <2>3. NoRequest \notin Period
    BY LoopValues
  <2>4. RequestInv'
    BY <1>1, <2>1, <2>2, <2>3 DEF UiInv, RequestInv
  <2>5. QED
    BY <1>2, <2>4
<1>5. CASE WriteEventfd
  <2>1. pending_tick_ms' = pending_tick_ms /\ eventfd' = TRUE /\ tick_ms' = tick_ms
    BY <1>5 DEF WriteEventfd, tickVars
  <2>2. RequestInv'
    BY <1>1, <2>1 DEF UiInv, RequestInv
  <2>3. QED
    BY <1>2, <2>2
<1>6. QED
  BY <1>2, <1>3, <1>4, <1>5 DEF Ui

LEMMA OutsideOwns ==
  ASSUME UiInv, TimerFires \/ SignalArrives \/ SignalWrites \/ UNCHANGED vars
  PROVE  HeldExactly' /\ UiThreadLives' /\ RequestInv'
<1>1. /\ lpc' = lpc /\ held' = held /\ upc' = upc /\ timer' = timer /\ tick_ms' = tick_ms
      /\ pending_tick_ms' = pending_tick_ms /\ eventfd' \in {eventfd, TRUE}
  BY DEF TimerFires, SignalArrives, SignalWrites, loopVars, requestVars,
         uiVars, tickVars, timerVars, vars
<1>2. QED
  BY <1>1 DEF UiInv, HeldExactly, UiThreadLives, RequestInv

LEMMA UiInitInv ==
  ASSUME Init
  PROVE  UiInv
<1>1. UiTypeOK
  BY UiInitTypes
<1>2. /\ held = {} /\ lpc = "gpio init" /\ upc = "none" /\ pending_tick_ms = NoRequest
      /\ timer = OFF /\ tick_ms = OFF
  BY Zenon DEF Init
<1>3. HeldAt["gpio init"] = {}
  BY Labels DEF HeldAt, Unwinds
<1>4. HeldExactly
  BY <1>2, <1>3 DEF HeldExactly, LoopPc
<1>5. UiThreadLives /\ RequestInv
  BY <1>2 DEF UiThreadLives, RequestInv
<1>6. QED
  BY <1>1, <1>4, <1>5 DEF UiInv

LEMMA UiStepInv ==
  ASSUME UiInv, [Next]_vars
  PROVE  UiInv'
<1>0. UiTypeOK
  BY DEF UiInv
<1>1. CASE Acquire \/ ui_thread_start_default
  BY <1>0, <1>1, StartTypes, MainOwns DEF UiInv
<1>2. CASE Loop
  BY <1>0, <1>2, LoopTypes, LoopOwns DEF UiInv
<1>3. CASE End
  BY <1>0, <1>3, EndTypes, MainOwns DEF UiInv
<1>4. CASE Ui
  BY <1>0, <1>4, UiStepTypes, UiOwns DEF UiInv
<1>5. CASE TimerFires \/ SignalArrives \/ SignalWrites
  BY <1>0, <1>5, OutsideTypes, OutsideOwns DEF UiInv
<1>6. CASE UNCHANGED vars
  <2>1. UiTypeOK'
    BY <1>0, <1>6, MainStays, SharedStays, UiThreadStays DEF UiTypeOK, vars
  <2>2. QED
    BY <1>6, <2>1, OutsideOwns DEF UiInv
<1>7. QED
  BY <1>1, <1>2, <1>3, <1>4, <1>5, <1>6 DEF Next, Main

----------------------------------------------------------------------------
(* the theorems *)

\* The invariant holds in every state of the two threads.
THEOREM UiInvariant == Spec => []UiInv
<1>1. Init => UiInv
  BY UiInitInv
<1>2. UiInv /\ [Next]_vars => UiInv'
  BY UiStepInv
<1>3. QED
  BY <1>1, <1>2, PTL DEF Spec

\* The event queue never holds more than its slots nor anything but events, a merged tick
\* never counts past the length of an animation, and the page shown or slid to exists
\* (event_queue.c, page_controller.c).
THEOREM UiTypesHold == Spec => []UiTypeOK
<1>1. UiInv => UiTypeOK
  BY DEF UiInv
<1>2. QED
  BY <1>1, UiInvariant, PTL

\* While the UI thread lives, what it waits on, pushes to, asks and draws on exists: the
\* order of main's shutdown, for every interleaving.
THEOREM UiInUseIsHeld == Spec => []InUseIsHeld
<1>1. UiInv => InUseIsHeld
  BY DEF UiInv, UiThreadLives, HeldExactly, InUseIsHeld, Resources
<1>2. QED
  BY <1>1, UiInvariant, PTL

\* Every exit of main, those of a failed start included, has released everything.
THEOREM UiNothingLeaks == Spec => []NothingLeaks
<1>1. UiInv => NothingLeaks
  BY DEF UiInv, HeldExactly, NothingLeaks
<1>2. QED
  BY <1>1, UiInvariant, PTL

\* A request for another timer period is never lost between event_loop_request_tick, which
\* stores it and then writes the eventfd, and event_loop_handle_control, which drains the
\* eventfd and then takes it.
THEOREM UiRequestNotLost == Spec => []RequestNotLost
<1>1. UiInv => RequestNotLost
  BY DEF UiInv, RequestInv, RequestNotLost
<1>2. QED
  BY <1>1, UiInvariant, PTL
=============================================================================
