----------------------------- MODULE EventQueue -----------------------------
(***************************************************************************)
(* event_queue.c of the threaded daemon (ADR 0005): the queue by which the  *)
(* thread of the event loop hands key presses, ticks and the shutdown to    *)
(* the UI thread.  The ring buffer inside is BoundedQueue (RingQueue shows  *)
(* that ring_queue.c implements it), each of its calls one step under the   *)
(* ring's own lock.  Everything else is not under that lock: the sequence   *)
(* number seq, the flag closed and the condition variable, so the steps of  *)
(* event_queue_push and event_queue_wait interleave.                        *)
(*                                                                          *)
(* The consumer only ever compares seq with the value it captured: stale    *)
(* says that they differ.  wait_lock is held by the consumer from its       *)
(* second look at the ring until it sleeps or returns; event_queue_signal   *)
(* takes it for one step.                                                   *)
(***************************************************************************)
EXTENDS Integers, Sequences, FiniteSets

CONSTANTS
  CAPACITY,    \* slots of the ring (main.c: 32)
  MAX_KEYS,    \* bound: critical events, numbered in the order they are pushed
  MAX_TICKS,   \* bound: expirations a merged tick counts to
  Timeouts     \* what callers pass as timeout_ms: "forever", "some", "zero"

ASSUME EventQueueAssumption ==
  /\ CAPACITY \in Nat \ {0} /\ MAX_KEYS \in Nat /\ MAX_TICKS \in Nat \ {0}
  /\ Timeouts \subseteq {"forever", "some", "zero"}

NoEvent == [type |-> "NONE", data |-> 0]
\* The k-th critical event, a key press or the shutdown: the queue treats them alike.
Key(k) == [type |-> "KEY", data |-> k]
Tick(n) == [type |-> "TICK", data |-> n]

Event == {Key(k) : k \in 1 .. MAX_KEYS} \cup {Tick(n) : n \in 1 .. MAX_TICKS}

VARIABLES
  items,            \* the ring, oldest first
  policy, merging,  \* how it was set up
  closed,
  stale,            \* seq is no longer the value the consumer captured
  replaced_ticks, dropped_critical,
  ppc, pushing,     \* the pushing thread: where it is, with which event
  pushed,           \* what its last ring call returned
  cpc, timeout,     \* the consumer: where it is, how long it would wait
  popped,           \* what its last ring call returned
  sent, handed      \* history: critical events pushed, handed out

ringVars == <<items, policy, merging>>
queueVars == <<ringVars, closed, stale, replaced_ticks, dropped_critical>>
producerVars == <<ppc, pushing, pushed, sent>>
consumerVars == <<cpc, timeout, popped, handed>>
vars == <<queueVars, producerVars, consumerVars>>

\* event_queue_merge_tick: the counts add up, the newest time stamp stays.
Merged == [p \in Event \X Event |->
             IF p[1].type = "TICK" /\ p[2].type = "TICK"
             THEN Tick(IF p[1].data + p[2].data > MAX_TICKS THEN MAX_TICKS
                       ELSE p[1].data + p[2].data)
             ELSE NoEvent]

Ticks == {e \in Event : e.type = "TICK"}

\* The ring as either thread uses it, with its own variable for the outcome.
Pushing == INSTANCE BoundedQueue
  WITH Item <- Event, None <- NoEvent, Matches <- {Ticks}, last <- pushed
Popping == INSTANCE BoundedQueue
  WITH Item <- Event, None <- NoEvent, Matches <- {Ticks}, last <- popped

\* event_queue_init
Init ==
  /\ items = <<>> /\ policy = "COALESCE" /\ merging = TRUE
  /\ closed = FALSE /\ stale = FALSE
  /\ replaced_ticks = 0 /\ dropped_critical = 0
  /\ ppc = "idle" /\ pushing = NoEvent /\ pushed = [ret |-> "OK", out |-> NoEvent]
  /\ cpc = "out" /\ timeout = "forever" /\ popped = [ret |-> "OK", out |-> NoEvent]
  /\ sent = 0 /\ handed = 0

-----------------------------------------------------------------------------
(* event_queue_push *)

\* The ring takes the event, merges it or is full; a tick that does not fit is
\* dropped at once.
PushRing(e) ==
  /\ ppc = "idle"
  /\ Pushing!Push(e)
  /\ ppc' = IF pushed'.ret # "DROPPED" THEN "bump"
            ELSE IF e.type = "TICK" THEN "idle" ELSE "full"
  /\ pushing' = e
  /\ sent' = IF e.type = "KEY" THEN e.data ELSE sent
  /\ UNCHANGED <<closed, stale, replaced_ticks, dropped_critical, consumerVars>>

\* Defect: an event that finds no tick to replace is not counted.
ReplaceTick_Uncounted ==
  /\ ppc = "full"
  /\ Pushing!ReplaceFirst(Ticks, pushing)
  /\ \/ /\ pushed'.ret = "OK"
        /\ replaced_ticks' = replaced_ticks + 1 /\ ppc' = "bump"
     \/ /\ pushed'.ret # "OK"
        /\ ppc' = "idle" /\ UNCHANGED replaced_ticks
  /\ UNCHANGED <<closed, stale, dropped_critical, pushing, sent, consumerVars>>

\* A key or the shutdown takes the slot of a tick, in a second ring call.
ReplaceTick ==
  /\ ppc = "full"
  /\ Pushing!ReplaceFirst(Ticks, pushing)
  /\ \/ /\ pushed'.ret = "OK"
        /\ replaced_ticks' = replaced_ticks + 1
        /\ ppc' = "bump" /\ UNCHANGED dropped_critical
     \/ /\ pushed'.ret # "OK"
        /\ dropped_critical' = dropped_critical + 1
        /\ ppc' = "idle" /\ UNCHANGED replaced_ticks
  /\ UNCHANGED <<closed, stale, pushing, sent, consumerVars>>

\* event_queue_signal: first the number, then, under the lock, the condition.
\* Defect: the condition is signalled, the number never moves.
Bump_Signal_Only ==
  /\ ppc = "bump" /\ ppc' = "signal"
  /\ UNCHANGED <<queueVars, pushing, pushed, sent, consumerVars>>

Bump ==
  /\ ppc = "bump" /\ ppc' = "signal"
  /\ stale' = TRUE
  /\ UNCHANGED <<ringVars, closed, replaced_ticks, dropped_critical, pushing, pushed, sent, consumerVars>>

\* The consumer holds wait_lock between its second look and its sleep.
ConsumerHasLock == cpc \in {"closed again", "check", "go to sleep"}

Signal ==
  /\ ppc = "signal" /\ ~ConsumerHasLock
  /\ ppc' = "idle"
  /\ cpc' = IF cpc = "asleep" THEN "woken" ELSE cpc
  /\ UNCHANGED <<queueVars, pushing, pushed, sent, timeout, popped, handed>>

\* event_queue_close
close ==
  /\ ppc = "idle" /\ ~closed
  /\ closed' = TRUE /\ ppc' = "bump"
  /\ UNCHANGED <<ringVars, stale, replaced_ticks, dropped_critical, pushing, pushed, sent, consumerVars>>

-----------------------------------------------------------------------------
(* event_queue_wait and event_queue_try_pop *)

Keeps(pc) == cpc' = pc /\ UNCHANGED <<timeout, popped, handed, queueVars, producerVars>>

\* One call of ring_queue_pop: the caller returns with the event, or goes on.
PopOr(pc) ==
  /\ Popping!Pop
  /\ cpc' = IF popped'.ret = "OK" THEN "out" ELSE pc
  /\ handed' = IF popped'.out.type = "KEY" THEN handed + 1 ELSE handed
  /\ UNCHANGED <<closed, stale, replaced_ticks, dropped_critical, timeout, producerVars>>

try_pop == cpc = "out" /\ PopOr("out")

\* seq is captured before the ring is looked at.
WaitCaptures ==
  /\ cpc = "out" /\ cpc' = "pop"
  /\ timeout' \in Timeouts /\ stale' = FALSE
  /\ UNCHANGED <<ringVars, closed, replaced_ticks, dropped_critical, popped, handed, producerVars>>

WaitPops == cpc = "pop" /\ PopOr("closed")

WaitChecksClosed ==
  /\ cpc = "closed"
  /\ Keeps(IF closed \/ timeout = "zero" THEN "out" ELSE "lock")

\* From here on under wait_lock.
WaitPopsAgain == cpc = "lock" /\ PopOr("closed again")

WaitChecksClosedAgain ==
  /\ cpc = "closed again"
  /\ Keeps(IF closed THEN "out" ELSE "check")

Recapture(pc) ==
  /\ cpc' = pc /\ stale' = FALSE
  /\ UNCHANGED <<ringVars, closed, replaced_ticks, dropped_critical, timeout, popped, handed, producerVars>>

WaitChecksSeq ==
  /\ cpc = "check"
  /\ IF stale THEN Recapture("pop") ELSE Keeps("go to sleep")

\* Defect: any wake-up ends the wait.
timed_wait_WithoutLoop ==
  \/ cpc = "go to sleep" /\ (IF stale \/ closed THEN Recapture("pop") ELSE Keeps("asleep"))
  \/ cpc = "woken" /\ Keeps("out")

\* event_queue_timed_wait: the loop around the condition variable.
timed_wait ==
  /\ cpc \in {"go to sleep", "woken"}
  /\ IF stale \/ closed THEN Recapture("pop") ELSE Keeps("asleep")

\* A condition variable may wake its waiter without a signal.
WakesSpuriously == cpc = "asleep" /\ Keeps("woken")

TimesOut ==
  /\ cpc = "asleep" /\ timeout = "some"
  /\ Keeps("out")

-----------------------------------------------------------------------------
Pushes ==
  \/ sent < MAX_KEYS /\ PushRing(Key(sent + 1))
  \/ \E n \in 1 .. MAX_TICKS : PushRing(Tick(n))

Produce == Pushes \/ ReplaceTick \/ Bump \/ Signal \/ close

WaitReturns ==
  \/ WaitPops \/ WaitChecksClosed \/ WaitPopsAgain \/ WaitChecksClosedAgain
  \/ WaitChecksSeq \/ timed_wait

Consume == try_pop \/ WaitCaptures \/ WaitReturns \/ WakesSpuriously \/ TimesOut

Next == Produce \/ Consume

\* A push that has begun goes on, and the UI thread calls event_queue_wait again
\* and again and carries out what it does there.
Fairness ==
  /\ WF_vars(ReplaceTick) /\ WF_vars(Bump) /\ WF_vars(Signal)
  /\ WF_vars(WaitCaptures) /\ WF_vars(WaitReturns)

Spec == Init /\ [][Next]_vars /\ Fairness

-----------------------------------------------------------------------------
(* The promise to the two threads, read off the state of the queue: a key is
   late between the two ring calls of its push; the consumer has seen nothing
   from its first look at the ring on. *)

Asking ==
  IF cpc = "out" THEN "no" ELSE IF cpc = "pop" THEN "asked" ELSE "saw none"

Channel == INSTANCE EventChannel
  WITH Keys <- {Key(k) : k \in 1 .. MAX_KEYS}, None <- NoEvent,
       late <- IF ppc = "full" THEN pushing ELSE NoEvent,
       asking <- Asking, patient <- timeout = "forever"

-----------------------------------------------------------------------------
(* Properties *)

\* Every variable has its type (event_queue.h).
QueueTypeOK ==
  /\ items \in Seq(Event) /\ Len(items) <= CAPACITY
  /\ policy = "COALESCE" /\ merging = TRUE
  /\ closed \in BOOLEAN /\ stale \in BOOLEAN
  /\ replaced_ticks \in Nat /\ dropped_critical \in Nat
  /\ ppc \in {"idle", "full", "bump", "signal"} /\ pushing \in Event \cup {NoEvent}
  /\ cpc \in {"out", "pop", "closed", "lock", "closed again", "check", "go to sleep",
              "asleep", "woken"}
  /\ timeout \in {"forever", "some", "zero"}
  /\ sent \in 0 .. MAX_KEYS /\ handed \in Nat

\* No wake-up is lost (event_queue_wait against event_queue_push): while the
\* consumer sleeps on an event, or on a closed queue, the push that brought it is
\* still on its way to the signal.
NoLostWakeup ==
  cpc = "asleep" /\ (items # <<>> \/ closed) => ppc \in {"bump", "signal"}

KeysHeld == {i \in 1 .. Len(items) : items[i].type = "KEY"}

\* event_queue_push: a key is in the queue, handed out, counted as dropped or
\* still between the two ring calls; none vanishes without trace.
KeysAccounted ==
  sent = Cardinality(KeysHeld) + handed + dropped_critical
         + (IF ppc = "full" /\ pushing.type = "KEY" THEN 1 ELSE 0)

\* event_queue_push, event_queue_wait, event_queue_try_pop and event_queue_close,
\* whose steps interleave, look to the two threads like single steps on a channel:
\* a wait for ever returns empty-handed only from a closed queue, it returns
\* once there is something to return for, and no step loses or reorders an event
\* but the replacement of a tick.
IsChannel == Channel!ChannelSpec

\* The part of the promise that needs no fairness.
IsChannelSafely == Channel!ChannelSafety
=============================================================================
