-------------------------- MODULE EventQueueProofs --------------------------
(***************************************************************************)
(* Proofs about EventQueue: for every capacity and every number of events   *)
(* no wake-up of the UI thread is lost, and no key vanishes uncounted.      *)
(***************************************************************************)
EXTENDS EventQueue, Functions, SequenceTheorems, FunctionTheorems, FiniteSetTheorems, TLAPS

USE EventQueueAssumption DEF EventQueueAssumption

----------------------------------------------------------------------------
(* Types *)

\* Between the two ring calls of event_queue_push there is an event to place.
TypeInv == QueueTypeOK /\ (ppc = "full" => pushing \in Event)

LEMMA EventTypes ==
  /\ \A k \in 1 .. MAX_KEYS : Key(k) \in Event
  /\ \A n \in 1 .. MAX_TICKS : Tick(n) \in Event
  BY DEF Event

LEMMA TicksAdd ==
  ASSUME NEW n \in 1 .. MAX_TICKS, NEW m \in 1 .. MAX_TICKS
  PROVE  (IF n + m > MAX_TICKS THEN MAX_TICKS ELSE n + m) \in 1 .. MAX_TICKS
  OBVIOUS

LEMMA TickData ==
  ASSUME NEW e \in Event, e.type = "TICK"
  PROVE  e.data \in 1 .. MAX_TICKS
  BY DEF Event, Key, Tick

LEMMA MergedType ==
  ASSUME NEW y \in Event, NEW x \in Event
  PROVE  Merged[<<y, x>>] \in Event \cup {NoEvent}
<1>1. CASE y.type = "TICK" /\ x.type = "TICK"
  <2> DEFINE d == IF y.data + x.data > MAX_TICKS THEN MAX_TICKS ELSE y.data + x.data
  <2>1. d \in 1 .. MAX_TICKS
    BY <1>1, TickData, TicksAdd
  <2>2. Merged[<<y, x>>] = Tick(d)
    BY <1>1 DEF Merged
  <2> HIDE DEF d
  <2>3. QED
    BY <2>1, <2>2, EventTypes
<1>2. CASE ~(y.type = "TICK" /\ x.type = "TICK")
  BY <1>2 DEF Merged
<1>3. QED
  BY <1>1, <1>2

LEMMA SetItem ==
  ASSUME NEW S, NEW q \in Seq(S), NEW i \in 1 .. Len(q), NEW v \in S
  PROVE  [q EXCEPT ![i] = v] \in Seq(S) /\ Len([q EXCEPT ![i] = v]) = Len(q)
  BY ExceptSeq

\* The ring stays a queue of events within its capacity.
LEMMA PushTypes ==
  ASSUME items \in Seq(Event), Len(items) <= CAPACITY, policy = "COALESCE",
         NEW e \in Event, Pushing!Push(e)
  PROVE  items' \in Seq(Event) /\ Len(items') <= CAPACITY
<1>1. CASE \E i \in 1 .. Len(items) :
             /\ Pushing!First(i, Pushing!Partners(e))
             /\ items' = [items EXCEPT ![i] = Merged[@, e]]
  <2>1. PICK i \in 1 .. Len(items) :
          /\ items[i] \in Pushing!Partners(e)
          /\ items' = [items EXCEPT ![i] = Merged[<<items[i], e>>]]
    BY <1>1, Zenon DEF Pushing!First
  <2>2. items[i] \in Event /\ Merged[<<items[i], e>>] # NoEvent
    BY <2>1, Zenon DEF Pushing!Partners
  <2> DEFINE v == Merged[<<items[i], e>>]
  <2>3. v \in Event
    BY <2>2, MergedType
  <2>4. items' = [items EXCEPT ![i] = v]
    BY <2>1
  <2> HIDE DEF v
  <2>5. QED
    BY <2>3, <2>4, SetItem
<1>2. CASE Len(items) < CAPACITY /\ items' = Append(items, e)
  BY <1>2
<1>3. CASE items' = items
  BY <1>3
<1>4. QED
  BY <1>1, <1>2, <1>3, Zenon DEF Pushing!Push

LEMMA ReplaceTypes ==
  ASSUME items \in Seq(Event), Len(items) <= CAPACITY,
         NEW e \in Event, Pushing!ReplaceFirst(Ticks, e)
  PROVE  items' \in Seq(Event) /\ Len(items') <= CAPACITY
<1>1. CASE \E i \in 1 .. Len(items) : items' = [items EXCEPT ![i] = e]
  BY <1>1, SetItem
<1>2. CASE items' = items
  BY <1>2
<1>3. QED
  BY <1>1, <1>2, Zenon DEF Pushing!ReplaceFirst

\* The numbers among the variables.
LEMMA CountTypes ==
  ASSUME TypeInv
  PROVE  /\ sent \in 0 .. MAX_KEYS /\ handed \in Nat /\ MAX_KEYS \in Nat /\ CAPACITY \in Nat
         /\ replaced_ticks \in Nat /\ dropped_critical \in Nat
         /\ items \in Seq(Event) /\ Len(items) \in Nat /\ Len(items) <= CAPACITY
<1>1. items \in Seq(Event)
  BY Zenon DEF TypeInv, QueueTypeOK
<1>2. Len(items) \in Nat
  BY <1>1, LenProperties
<1>3. MAX_KEYS \in Nat /\ CAPACITY \in Nat
  OBVIOUS
<1>4. QED
  BY <1>1, <1>2, <1>3, Zenon DEF TypeInv, QueueTypeOK

LEMMA OneLess ==
  ASSUME NEW n \in Nat, NEW c \in Nat, n <= c
  PROVE  n - 1 <= c
  OBVIOUS

LEMMA CountsOn ==
  ASSUME NEW n \in Nat, NEW m, m = n + 1 \/ m = n
  PROVE  m \in Nat
  OBVIOUS

LEMMA InitTypes == Init => TypeInv
<1>1. <<>> \in Seq(Event) /\ Len(<<>>) = 0 /\ 0 <= CAPACITY /\ 0 \in 0 .. MAX_KEYS
      /\ 0 \in Nat
  BY EmptySeq
<1>2. QED
  BY <1>1, Zenon DEF Init, TypeInv, QueueTypeOK

LEMMA ProduceTypes ==
  ASSUME TypeInv, Produce
  PROVE  TypeInv'
<1>1. ASSUME NEW e \in Event, PushRing(e), e.type = "KEY" => e.data \in 1 .. MAX_KEYS
      PROVE  TypeInv'
  <2>0. policy = "COALESCE"
    BY DEF TypeInv, QueueTypeOK
  <2>1. Pushing!Push(e) /\ policy' = policy /\ merging' = merging
    BY <1>1, Zenon DEF PushRing, Pushing!Push
  <2>2. items' \in Seq(Event) /\ Len(items') <= CAPACITY
    BY <1>1, <2>1, PushTypes, CountTypes, <2>0
  <2>3. /\ ppc' \in {"idle", "full", "bump"} /\ pushing' = e
        /\ sent' = IF e.type = "KEY" THEN e.data ELSE sent
        /\ UNCHANGED <<closed, stale, replaced_ticks, dropped_critical, consumerVars>>
    BY <1>1, Zenon DEF PushRing
  <2>4. sent' \in 0 .. MAX_KEYS
    BY <1>1, <2>3, CountTypes
  <2>5. /\ closed' = closed /\ stale' = stale /\ timeout' = timeout /\ cpc' = cpc
        /\ replaced_ticks' = replaced_ticks /\ dropped_critical' = dropped_critical
        /\ handed' = handed
    BY <2>3 DEF consumerVars
  <2>6. QED
    BY <1>1, <2>1, <2>2, <2>3, <2>4, <2>5, Zenon DEF TypeInv, QueueTypeOK
<1>2. CASE ReplaceTick
  <2>1. /\ Pushing!ReplaceFirst(Ticks, pushing) /\ policy' = policy /\ merging' = merging
        /\ pushing \in Event
    BY <1>2, Zenon DEF ReplaceTick, Pushing!ReplaceFirst, TypeInv
  <2>2. items' \in Seq(Event) /\ Len(items') <= CAPACITY
    BY <2>1, ReplaceTypes, CountTypes
  <2>3. /\ ppc' \in {"bump", "idle"}
        /\ replaced_ticks' \in Nat /\ dropped_critical' \in Nat
    BY <1>2, CountTypes DEF ReplaceTick
  <2>4. /\ closed' = closed /\ stale' = stale /\ timeout' = timeout /\ cpc' = cpc
        /\ handed' = handed /\ pushing' = pushing /\ sent' = sent
    BY <1>2 DEF ReplaceTick, consumerVars
  <2>5. ppc' \in {"idle", "full", "bump", "signal"} /\ ~(ppc' = "full")
    BY <2>3
  <2>6. QED
    BY <2>1, <2>2, <2>3, <2>4, <2>5, Zenon DEF TypeInv, QueueTypeOK
<1>3. CASE Bump
  BY <1>3 DEF TypeInv, QueueTypeOK, Bump, ringVars, consumerVars
<1>4. CASE Signal
  BY <1>4 DEF TypeInv, QueueTypeOK, Signal, ringVars, queueVars, consumerVars
<1>5. CASE close
  BY <1>5 DEF TypeInv, QueueTypeOK, close, ringVars, consumerVars
<1>6. QED
  <2>1. ASSUME sent < MAX_KEYS, PushRing(Key(sent + 1))
        PROVE  TypeInv'
    <3> DEFINE e == Key(sent + 1)
    <3>1. sent + 1 \in 1 .. MAX_KEYS
      BY <2>1, CountTypes
    <3>2. e \in Event /\ e.data \in 1 .. MAX_KEYS
      BY <3>1, EventTypes DEF Key
    <3> HIDE DEF e
    <3>3. QED
      BY <2>1, <3>2, <1>1 DEF e
  <2>2. ASSUME NEW n \in 1 .. MAX_TICKS, PushRing(Tick(n))
        PROVE  TypeInv'
    BY <2>2, <1>1, EventTypes DEF Tick
  <2>3. QED
    BY <1>2, <1>3, <1>4, <1>5, <2>1, <2>2 DEF Produce, Pushes

LEMMA ConsumeTypes ==
  ASSUME TypeInv, Consume
  PROVE  TypeInv'
<1>1. ASSUME NEW pc \in {"out", "closed", "closed again"}, PopOr(pc)
      PROVE  TypeInv'
  <2>1. /\ items' = items \/ (items # <<>> /\ items' = Tail(items))
        /\ policy' = policy /\ merging' = merging
    BY <1>1 DEF PopOr, Popping!Pop
  <2>2. items' \in Seq(Event) /\ Len(items') <= CAPACITY
    <3>1. items # <<>> => Tail(items) \in Seq(Event) /\ Len(Tail(items)) = Len(items) - 1
      BY HeadTailProperties, CountTypes
    <3>2. CASE items' = items
      BY <3>2, CountTypes, Zenon
    <3>3. CASE items # <<>> /\ items' = Tail(items)
      <4>1. items' \in Seq(Event) /\ Len(items') = Len(items) - 1
        BY <3>1, <3>3, Zenon
      <4>2. Len(items) - 1 <= CAPACITY
        BY CountTypes, OneLess, Zenon
      <4>3. QED
        BY <4>1, <4>2, Zenon
    <3>4. QED
      BY <2>1, <3>2, <3>3, Zenon
  <2>3. /\ cpc' \in {"out", pc} /\ handed' \in Nat
    <3>1. cpc' \in {"out", pc} /\ (handed' = handed + 1 \/ handed' = handed)
      BY <1>1, Zenon DEF PopOr
    <3>2. handed \in Nat
      BY CountTypes, Zenon
    <3>3. QED
      BY <3>1, <3>2, CountsOn, Zenon
  <2>4. /\ UNCHANGED <<closed, stale, replaced_ticks, dropped_critical, timeout>>
        /\ ppc' = ppc /\ pushing' = pushing /\ sent' = sent
    BY <1>1 DEF PopOr, producerVars
  <2>5. cpc' \in {"out", "closed", "closed again"}
    BY <2>3
  <2>6. cpc' \in {"out", "pop", "closed", "lock", "closed again", "check", "go to sleep",
                  "asleep", "woken"}
    BY <2>5
  <2>7. QED
    BY <2>1, <2>2, <2>3, <2>4, <2>6, Zenon DEF TypeInv, QueueTypeOK
<1>2. CASE WaitCaptures
  BY <1>2 DEF TypeInv, QueueTypeOK, WaitCaptures, ringVars, producerVars
<1>3. CASE WaitChecksClosed
  BY <1>3 DEF TypeInv, QueueTypeOK, WaitChecksClosed, Keeps, queueVars, ringVars, producerVars
<1>4. CASE WaitChecksClosedAgain
  BY <1>4 DEF TypeInv, QueueTypeOK, WaitChecksClosedAgain, Keeps, queueVars, ringVars, producerVars
<1>5. CASE WaitChecksSeq
  BY <1>5 DEF TypeInv, QueueTypeOK, WaitChecksSeq, Keeps, Recapture, queueVars, ringVars, producerVars
<1>6. CASE timed_wait
  BY <1>6 DEF TypeInv, QueueTypeOK, timed_wait, Keeps, Recapture, queueVars, ringVars, producerVars
<1>7. CASE WakesSpuriously
  BY <1>7 DEF TypeInv, QueueTypeOK, WakesSpuriously, Keeps, queueVars, ringVars, producerVars
<1>8. CASE TimesOut
  BY <1>8 DEF TypeInv, QueueTypeOK, TimesOut, Keeps, queueVars, ringVars, producerVars
<1>9. QED
  BY <1>1, <1>2, <1>3, <1>4, <1>5, <1>6, <1>7, <1>8, Zenon
  DEF Consume, WaitReturns, try_pop, WaitPops, WaitPopsAgain

LEMMA StutterTypes == TypeInv /\ UNCHANGED vars => TypeInv'
  BY DEF TypeInv, QueueTypeOK, vars, queueVars, ringVars, producerVars, consumerVars

LEMMA TypesHold == Spec => []TypeInv
<1>1. TypeInv /\ [Next]_vars => TypeInv'
  BY ProduceTypes, ConsumeTypes, StutterTypes DEF Next
<1>2. QED
  BY <1>1, InitTypes, PTL DEF Spec

\* Every variable keeps its type: merged ticks are ticks, a replaced slot holds
\* an event, and the ring never outgrows its capacity.  (event_queue.h)
THEOREM QueueTypeCorrect == Spec => []QueueTypeOK
<1>1. TypeInv => QueueTypeOK
  BY DEF TypeInv
<1>2. QED
  BY <1>1, TypesHold, PTL

----------------------------------------------------------------------------
(* Wake-ups *)

\* Behind a pop that found nothing, the consumer will notice an event: the
\* push is about to move seq, or has moved it since it was captured.
EmptyWhenStale ==
  cpc \in {"closed", "lock", "closed again", "check", "go to sleep", "asleep", "woken"}
    /\ items # <<>> => ppc = "bump" \/ stale

\* Behind the second look at closed it will notice that the queue was closed.
ClosedIsNoticed ==
  cpc \in {"check", "go to sleep", "asleep", "woken"} /\ closed => ppc = "bump" \/ stale

\* It does not go to sleep on a seq that has moved; one that moves while it
\* sleeps is followed by the signal.
SleepsOnOldSeq == cpc = "asleep" /\ stale => ppc = "signal"

FlagsOK == closed \in BOOLEAN /\ stale \in BOOLEAN

WakeupInv == FlagsOK /\ EmptyWhenStale /\ ClosedIsNoticed /\ SleepsOnOldSeq

----------------------------------------------------------------------------
(* What the calls of the ring do that the invariant speaks of *)

\* A full ring is not empty, so an empty one takes the event.
LEMMA PushKeepsOrTakes ==
  ASSUME NEW e, PushRing(e)
  PROVE  \/ ppc' = "bump"
         \/ /\ items' = items
            /\ ppc' \in {"idle", "full"}
<1>1. \/ Pushing!Returns("MERGED", NoEvent) \/ Pushing!Returns("OK", NoEvent)
      \/ (Pushing!Returns("DROPPED", NoEvent) /\ items' = items)
  <2>1. Pushing!Push(e)
    BY DEF PushRing
  <2>2. QED
    BY <2>1, Zenon DEF Pushing!Push
<1>2. \/ pushed'.ret = "MERGED" \/ pushed'.ret = "OK"
      \/ (pushed'.ret = "DROPPED" /\ items' = items)
  BY <1>1 DEF Pushing!Returns
<1>3. ppc' = IF pushed'.ret # "DROPPED" THEN "bump"
             ELSE IF e.type = "TICK" THEN "idle" ELSE "full"
  BY DEF PushRing
<1>4. QED
  BY <1>2, <1>3

\* A tick is replaced in a queue that holds one; nothing else changes it.
LEMMA ReplaceKeeps ==
  ASSUME ReplaceTick
  PROVE  ppc' = "bump" \/ (items' = items /\ ppc' = "idle")
  BY DEF ReplaceTick, Pushing!ReplaceFirst, Pushing!Returns

\* The consumer goes on behind a pop only with an empty queue.
LEMMA PopGoesOnEmpty ==
  ASSUME NEW pc, PopOr(pc)
  PROVE  cpc' = "out" \/ (items' = <<>> /\ cpc' = pc)
  BY DEF PopOr, Popping!Pop, Popping!Returns

----------------------------------------------------------------------------
LEMMA InitWakeup == Init => WakeupInv
  BY DEF Init, WakeupInv, EmptyWhenStale, ClosedIsNoticed, SleepsOnOldSeq, FlagsOK

LEMMA ProduceKeepsWakeup ==
  ASSUME WakeupInv, Produce
  PROVE  WakeupInv'
<1> USE DEF WakeupInv, EmptyWhenStale, ClosedIsNoticed, SleepsOnOldSeq, FlagsOK
<1>1. ASSUME NEW e, PushRing(e)
      PROVE  WakeupInv'
  <2>1. /\ ppc = "idle" /\ closed' = closed /\ stale' = stale /\ cpc' = cpc
    BY <1>1 DEF PushRing, consumerVars
  <2>2. QED
    BY <1>1, <2>1, PushKeepsOrTakes
<1>2. CASE ReplaceTick
  <2>1. /\ ppc = "full" /\ closed' = closed /\ stale' = stale /\ cpc' = cpc
    BY <1>2 DEF ReplaceTick, consumerVars
  <2>2. QED
    BY <1>2, <2>1, ReplaceKeeps
<1>3. CASE Bump
  BY <1>3 DEF Bump, ringVars, consumerVars
<1>4. CASE Signal
  BY <1>4 DEF Signal, ringVars, queueVars, consumerVars, ConsumerHasLock
<1>5. CASE close
  BY <1>5 DEF close, ringVars, consumerVars
<1>6. QED
  BY <1>1, <1>2, <1>3, <1>4, <1>5 DEF Produce, Pushes

LEMMA ConsumeKeepsWakeup ==
  ASSUME WakeupInv, Consume
  PROVE  WakeupInv'
<1> USE DEF WakeupInv, EmptyWhenStale, ClosedIsNoticed, SleepsOnOldSeq, FlagsOK
<1>1. ASSUME NEW pc \in {"out", "closed", "closed again"}, PopOr(pc)
      PROVE  WakeupInv'
  <2>1. /\ closed' = closed /\ stale' = stale /\ ppc' = ppc
    BY <1>1 DEF PopOr, producerVars
  <2>2. QED
    BY <1>1, <2>1, PopGoesOnEmpty
<1>2. CASE WaitCaptures
  BY <1>2 DEF WaitCaptures, ringVars, producerVars
<1>3. CASE WaitChecksClosed
  BY <1>3 DEF WaitChecksClosed, Keeps, queueVars, ringVars, producerVars
<1>4. CASE WaitChecksClosedAgain
  BY <1>4 DEF WaitChecksClosedAgain, Keeps, queueVars, ringVars, producerVars
<1>5. CASE WaitChecksSeq
  BY <1>5 DEF WaitChecksSeq, Keeps, Recapture, queueVars, ringVars, producerVars
<1>6. CASE timed_wait
  BY <1>6 DEF timed_wait, Keeps, Recapture, queueVars, ringVars, producerVars
<1>7. CASE WakesSpuriously
  BY <1>7 DEF WakesSpuriously, Keeps, queueVars, ringVars, producerVars
<1>8. CASE TimesOut
  BY <1>8 DEF TimesOut, Keeps, queueVars, ringVars, producerVars
<1>9. QED
  BY <1>1, <1>2, <1>3, <1>4, <1>5, <1>6, <1>7, <1>8
  DEF Consume, WaitReturns, try_pop, WaitPops, WaitPopsAgain

LEMMA StutterKeepsWakeup == WakeupInv /\ UNCHANGED vars => WakeupInv'
<1>1. UNCHANGED vars => /\ items' = items /\ closed' = closed /\ stale' = stale
                        /\ ppc' = ppc /\ cpc' = cpc
  BY DEF vars, queueVars, ringVars, producerVars, consumerVars
<1>2. QED
  BY <1>1 DEF WakeupInv, EmptyWhenStale, ClosedIsNoticed, SleepsOnOldSeq, FlagsOK

\* No wake-up is lost between event_queue_push and event_queue_wait, although
\* seq, closed and the ring are not under one lock.
THEOREM NoWakeupIsLost == Spec => []NoLostWakeup
<1>1. WakeupInv /\ [Next]_vars => WakeupInv'
  BY ProduceKeepsWakeup, ConsumeKeepsWakeup, StutterKeepsWakeup DEF Next
<1>2. WakeupInv => NoLostWakeup
  BY DEF WakeupInv, EmptyWhenStale, ClosedIsNoticed, SleepsOnOldSeq, FlagsOK, NoLostWakeup
<1>3. QED
  BY <1>1, <1>2, InitWakeup, PTL DEF Spec

----------------------------------------------------------------------------
(* No key vanishes *)

KeysIn(q) == {i \in 1 .. Len(q) : q[i].type = "KEY"}

One(e) == IF e.type = "KEY" THEN 1 ELSE 0

LEMMA KeysInType ==
  ASSUME NEW q \in Seq(Event)
  PROVE  IsFiniteSet(KeysIn(q)) /\ Cardinality(KeysIn(q)) \in Nat
<1>1. Len(q) \in Nat /\ KeysIn(q) \in SUBSET (1 .. Len(q))
  BY LenProperties DEF KeysIn
<1>2. IsFiniteSet(1 .. Len(q))
  BY <1>1, FS_Interval
<1>3. QED
  BY <1>1, <1>2, FS_Subset, FS_CardinalityType

LEMMA AppendKeys ==
  ASSUME NEW q \in Seq(Event), NEW e \in Event
  PROVE  Cardinality(KeysIn(Append(q, e))) = Cardinality(KeysIn(q)) + One(e)
<1>1. /\ Len(q) \in Nat /\ Len(Append(q, e)) = Len(q) + 1
      /\ Append(q, e)[Len(q) + 1] = e
      /\ \A i \in 1 .. Len(q) : Append(q, e)[i] = q[i]
  BY LenProperties, AppendProperties
<1>2. Len(q) + 1 \notin KeysIn(q)
  BY <1>1 DEF KeysIn
<1>3. CASE e.type = "KEY"
  <2>1. KeysIn(Append(q, e)) = KeysIn(q) \cup {Len(q) + 1}
    BY <1>1, <1>3 DEF KeysIn
  <2>2. QED
    BY <2>1, <1>2, <1>3, KeysInType, FS_AddElement DEF One
<1>4. CASE e.type # "KEY"
  <2>1. KeysIn(Append(q, e)) = KeysIn(q)
    BY <1>1, <1>4 DEF KeysIn
  <2>2. QED
    BY <2>1, <1>4, KeysInType DEF One
<1>5. QED
  BY <1>3, <1>4

\* A tick that gives its place to an event.
LEMMA ReplaceKeys ==
  ASSUME NEW q \in Seq(Event), NEW i \in 1 .. Len(q), NEW v \in Event, q[i].type # "KEY"
  PROVE  Cardinality(KeysIn([q EXCEPT ![i] = v])) = Cardinality(KeysIn(q)) + One(v)
<1> DEFINE r == [q EXCEPT ![i] = v]
<1>1. /\ Len(r) = Len(q) /\ r[i] = v /\ \A j \in 1 .. Len(q) : j # i => r[j] = q[j]
  BY ExceptSeq, LenProperties
<1>2. i \notin KeysIn(q)
  BY DEF KeysIn
<1> HIDE DEF r
<1>3. CASE v.type = "KEY"
  <2>1. KeysIn(r) = KeysIn(q) \cup {i}
    BY <1>1, <1>3 DEF KeysIn
  <2>2. Cardinality(KeysIn(r)) = Cardinality(KeysIn(q)) + One(v)
    BY <2>1, <1>2, <1>3, KeysInType, FS_AddElement DEF One
  <2>3. QED
    BY <2>2 DEF r
<1>4. CASE v.type # "KEY"
  <2>1. KeysIn(r) = KeysIn(q)
    BY <1>1, <1>2, <1>4 DEF KeysIn
  <2>2. Cardinality(KeysIn(r)) = Cardinality(KeysIn(q)) + One(v)
    BY <2>1, <1>4, KeysInType DEF One
  <2>3. QED
    BY <2>2 DEF r
<1>5. QED
  BY <1>3, <1>4

LEMMA TailKeys ==
  ASSUME NEW q \in Seq(Event), q # <<>>
  PROVE  Cardinality(KeysIn(q)) = Cardinality(KeysIn(Tail(q))) + One(Head(q))
<1>1. /\ Len(q) \in Nat \ {0} /\ Tail(q) \in Seq(Event) /\ Len(Tail(q)) = Len(q) - 1
      /\ Head(q) = q[1] /\ \A i \in 1 .. Len(q) - 1 : Tail(q)[i] = q[i + 1]
  BY HeadTailProperties, EmptySeq, LenProperties
<1> DEFINE S == KeysIn(Tail(q))
           T == KeysIn(q) \ {1}
           f == [i \in S |-> i + 1]
<1>2. f \in Bijection(S, T)
  <2>1. \A i \in S : i \in 1 .. Len(q) - 1 /\ i + 1 \in T
    BY <1>1 DEF KeysIn
  <2>2. f \in [S -> T]
    BY <2>1
  <2>3. \A i, j \in S : f[i] = f[j] => i = j
    BY <2>1
  <2>4. \A t \in T : t - 1 \in S /\ f[t - 1] = t
    <3>1. SUFFICES ASSUME NEW t \in T
                   PROVE  t - 1 \in S /\ (t - 1) + 1 = t
      OBVIOUS
    <3>2. t \in 1 .. Len(q) /\ t # 1 /\ q[t].type = "KEY"
      BY DEF KeysIn
    <3>3. t - 1 \in 1 .. Len(q) - 1 /\ (t - 1) + 1 = t
      BY <1>1, <3>2
    <3>4. QED
      BY <1>1, <3>2, <3>3 DEF KeysIn
  <2>5. QED
    BY <2>2, <2>3, <2>4, Fun_IsBij
<1>3. Cardinality(T) = Cardinality(S)
  <2>1. IsFiniteSet(S)
    BY <1>1, KeysInType
  <2>2. ExistsBijection(S, T)
    BY <1>2, Zenon DEF ExistsBijection
  <2>3. QED
    BY <2>1, <2>2, FS_Bijection
<1>4. 1 \in KeysIn(q) <=> Head(q).type = "KEY"
  BY <1>1 DEF KeysIn
<1>5. IsFiniteSet(KeysIn(q)) /\ Cardinality(KeysIn(q)) \in Nat
  BY KeysInType
<1>6. Cardinality(T) = IF 1 \in KeysIn(q) THEN Cardinality(KeysIn(q)) - 1 ELSE Cardinality(KeysIn(q))
  BY <1>5, FS_RemoveElement
<1> HIDE DEF S, T, f
<1>7. QED
  BY <1>3, <1>4, <1>5, <1>6 DEF One, S

\* What one call of the ring does to the keys it holds.
LEMMA PushCounts ==
  ASSUME items \in Seq(Event), policy = "COALESCE", NEW e \in Event, Pushing!Push(e)
  PROVE  \/ /\ pushed'.ret # "DROPPED"
            /\ Cardinality(KeysIn(items')) = Cardinality(KeysIn(items)) + One(e)
         \/ pushed'.ret = "DROPPED" /\ items' = items
<1>1. CASE /\ \E i \in 1 .. Len(items) :
                /\ Pushing!First(i, Pushing!Partners(e))
                /\ items' = [items EXCEPT ![i] = Merged[@, e]]
           /\ Pushing!Returns("MERGED", NoEvent)
  <2>1. PICK i \in 1 .. Len(items) :
          /\ items[i] \in Pushing!Partners(e)
          /\ items' = [items EXCEPT ![i] = Merged[<<items[i], e>>]]
    BY <1>1, Zenon DEF Pushing!First
  <2>2. items[i] \in Event /\ Merged[<<items[i], e>>] # NoEvent
    BY <2>1, Zenon DEF Pushing!Partners
  <2> DEFINE v == Merged[<<items[i], e>>]
  <2>3. items[i].type = "TICK" /\ e.type = "TICK"
    BY <2>2 DEF Merged
  <2>4. v \in Event /\ v.type = "TICK"
    BY <2>2, <2>3, MergedType DEF Merged, Tick
  <2>5. items' = [items EXCEPT ![i] = v]
    BY <2>1
  <2> HIDE DEF v
  <2>6. One(v) = 0 /\ One(e) = 0 /\ items[i].type # "KEY"
    BY <2>3, <2>4 DEF One
  <2>7. Cardinality(KeysIn(items')) = Cardinality(KeysIn(items)) + One(e)
    BY <2>4, <2>5, <2>6, ReplaceKeys
  <2>8. pushed'.ret # "DROPPED"
    <3>1. Pushing!Returns("MERGED", NoEvent)
      BY <1>1, Zenon
    <3>2. QED
      BY <3>1 DEF Pushing!Returns
  <2>9. QED
    BY <2>7, <2>8
<1>2. CASE items' = Append(items, e) /\ Pushing!Returns("OK", NoEvent)
  <2>1. pushed'.ret # "DROPPED"
    BY <1>2 DEF Pushing!Returns
  <2>2. QED
    BY <1>2, <2>1, AppendKeys
<1>3. CASE items' = items /\ Pushing!Returns("DROPPED", NoEvent)
  <2>1. pushed'.ret = "DROPPED"
    BY <1>3 DEF Pushing!Returns
  <2>2. QED
    BY <1>3, <2>1
<1>4. QED
  <2>1. policy # "OVERWRITE_OLDEST"
    OBVIOUS
  <2>2. QED
    BY <1>1, <1>2, <1>3, <2>1, Zenon DEF Pushing!Push

LEMMA ReplaceCounts ==
  ASSUME items \in Seq(Event), NEW e \in Event, Pushing!ReplaceFirst(Ticks, e)
  PROVE  \/ /\ pushed'.ret = "OK"
            /\ Cardinality(KeysIn(items')) = Cardinality(KeysIn(items)) + One(e)
         \/ pushed'.ret = "ERR" /\ items' = items
<1>1. CASE /\ \E i \in 1 .. Len(items) : items[i] \in Ticks /\ items' = [items EXCEPT ![i] = e]
           /\ Pushing!Returns("OK", NoEvent)
  <2>1. PICK i \in 1 .. Len(items) : items[i] \in Ticks /\ items' = [items EXCEPT ![i] = e]
    BY <1>1
  <2>2. items[i].type # "KEY"
    BY <2>1 DEF Ticks
  <2>3. Cardinality(KeysIn(items')) = Cardinality(KeysIn(items)) + One(e)
    BY <2>1, <2>2, ReplaceKeys
  <2>4. pushed'.ret = "OK"
    BY <1>1 DEF Pushing!Returns
  <2>5. QED
    BY <2>3, <2>4
<1>2. CASE Pushing!Returns("ERR", NoEvent) /\ items' = items
  <2>1. pushed'.ret = "ERR"
    BY <1>2 DEF Pushing!Returns
  <2>2. QED
    BY <1>2, <2>1
<1>3. QED
  BY <1>1, <1>2, Zenon DEF Pushing!ReplaceFirst, Pushing!First

LEMMA PopCounts ==
  ASSUME items \in Seq(Event), Popping!Pop
  PROVE  /\ items' \in Seq(Event)
         /\ Cardinality(KeysIn(items)) = Cardinality(KeysIn(items')) + One(popped'.out)
<1>1. CASE items = <<>> /\ items' = items /\ popped' = [ret |-> "ERR", out |-> NoEvent]
  <2>1. One(popped'.out) = 0
    BY <1>1 DEF One, NoEvent
  <2>2. Cardinality(KeysIn(items)) = Cardinality(KeysIn(items)) + One(popped'.out)
    BY <2>1, KeysInType
  <2>3. KeysIn(items') = KeysIn(items) /\ items' \in Seq(Event)
    BY <1>1
  <2>4. QED
    BY <2>2, <2>3
<1>2. CASE items # <<>> /\ items' = Tail(items) /\ popped' = [ret |-> "OK", out |-> Head(items)]
  <2>1. popped'.out = Head(items)
    BY <1>2
  <2>2. QED
    BY <1>2, <2>1, TailKeys, HeadTailProperties
<1>3. QED
  BY <1>1, <1>2, Zenon DEF Popping!Pop, Popping!Returns

\* Only a key looks for a tick to replace.
AccountInv == KeysAccounted /\ (ppc = "full" => pushing.type = "KEY")

\* The account, n being the keys in the queue.
Balance(n, s, h, d, p, e) == s = n + h + d + (IF p = "full" /\ e.type = "KEY" THEN 1 ELSE 0)

LEMMA BalanceStays ==
  ASSUME AccountInv, items' = items, sent' = sent, handed' = handed,
         dropped_critical' = dropped_critical,
         pushing' = pushing, ppc' = ppc \/ (ppc # "full" /\ ppc' # "full")
  PROVE  AccountInv'
  BY DEF AccountInv, KeysAccounted, KeysHeld

LEMMA InitAccount == Init => AccountInv
<1>1. ASSUME Init
      PROVE  AccountInv
  <2>1. KeysHeld = {} /\ sent = 0 /\ handed = 0 /\ dropped_critical = 0 /\ ppc = "idle"
    BY <1>1 DEF Init, KeysHeld
  <2>2. Cardinality(KeysHeld) = 0
    BY <2>1, FS_EmptySet
  <2>3. QED
    BY <2>1, <2>2 DEF AccountInv, KeysAccounted
<1>2. QED
  BY <1>1

LEMMA PushAccounts ==
  ASSUME TypeInv, AccountInv, NEW e \in Event, PushRing(e),
         (e.type = "KEY" /\ e.data = sent + 1) \/ e.type = "TICK"
  PROVE  AccountInv'
<1> DEFINE n == Cardinality(KeysIn(items))
           m == Cardinality(KeysIn(items'))
<1>1. items \in Seq(Event) /\ policy = "COALESCE" /\ Pushing!Push(e)
  BY DEF TypeInv, QueueTypeOK, PushRing
<1>2. n \in Nat /\ sent \in Nat /\ handed \in Nat /\ dropped_critical \in Nat
  BY <1>1, KeysInType, CountTypes
<1>3. sent = n + handed + dropped_critical
  <2>1. KeysHeld = KeysIn(items)
    BY DEF KeysHeld, KeysIn
  <2>2. ppc = "idle"
    BY DEF PushRing
  <2>3. sent = n + handed + dropped_critical + 0
    BY <2>1, <2>2 DEF AccountInv, KeysAccounted
  <2> HIDE DEF n
  <2>4. QED
    BY <1>2, <2>3
<1>4. \/ pushed'.ret # "DROPPED" /\ m = n + One(e)
      \/ pushed'.ret = "DROPPED" /\ m = n
  BY <1>1, PushCounts
<1>5. /\ sent' = sent + One(e) /\ handed' = handed /\ dropped_critical' = dropped_critical
      /\ pushing' = e
      /\ ppc' = IF pushed'.ret # "DROPPED" THEN "bump"
                ELSE IF e.type = "TICK" THEN "idle" ELSE "full"
  BY <1>2 DEF PushRing, consumerVars, One
<1> HIDE DEF n, m
<1>6. Balance(m, sent', handed', dropped_critical', ppc', pushing')
  BY <1>2, <1>3, <1>4, <1>5 DEF Balance, One
<1>7. KeysAccounted'
  <2>1. KeysHeld' = KeysIn(items')
    BY DEF KeysHeld, KeysIn
  <2>2. QED
    BY <1>6, <2>1 DEF KeysAccounted, Balance, m
<1>8. ppc' = "full" => pushing'.type = "KEY"
  BY <1>5
<1>9. QED
  BY <1>7, <1>8 DEF AccountInv

LEMMA ReplaceAccounts ==
  ASSUME TypeInv, AccountInv, ReplaceTick
  PROVE  AccountInv'
<1> DEFINE n == Cardinality(KeysIn(items))
           m == Cardinality(KeysIn(items'))
<1>1. /\ items \in Seq(Event) /\ pushing \in Event /\ pushing.type = "KEY"
      /\ Pushing!ReplaceFirst(Ticks, pushing) /\ ppc = "full"
  BY DEF TypeInv, QueueTypeOK, AccountInv, ReplaceTick
<1>2. n \in Nat /\ sent \in Nat /\ handed \in Nat /\ dropped_critical \in Nat
  BY <1>1, KeysInType, CountTypes
<1>3. sent = n + handed + dropped_critical + 1
  <2>1. KeysHeld = KeysIn(items)
    BY DEF KeysHeld, KeysIn
  <2>2. QED
    BY <1>1, <2>1 DEF AccountInv, KeysAccounted
<1>4. \/ pushed'.ret = "OK" /\ m = n + 1
      \/ pushed'.ret = "ERR" /\ m = n
  BY <1>1, ReplaceCounts DEF One
<1>5. \/ pushed'.ret = "OK" /\ dropped_critical' = dropped_critical
      \/ pushed'.ret # "OK" /\ dropped_critical' = dropped_critical + 1
  BY Zenon DEF ReplaceTick
<1>6. /\ sent' = sent /\ handed' = handed /\ pushing' = pushing /\ ppc' # "full"
  BY DEF ReplaceTick, consumerVars
<1> HIDE DEF n, m
<1>7. Balance(m, sent', handed', dropped_critical', ppc', pushing')
  <2>1. sent' = m + handed' + dropped_critical' + 0
    BY <1>2, <1>3, <1>4, <1>5, <1>6
  <2>2. QED
    BY <2>1, <1>6 DEF Balance
<1>8. KeysAccounted'
  <2>1. KeysHeld' = KeysIn(items')
    BY DEF KeysHeld, KeysIn
  <2>2. QED
    BY <1>7, <2>1 DEF KeysAccounted, Balance, m
<1>9. QED
  BY <1>6, <1>8 DEF AccountInv

LEMMA PopAccounts ==
  ASSUME TypeInv, AccountInv, NEW pc, PopOr(pc)
  PROVE  AccountInv'
<1> DEFINE n == Cardinality(KeysIn(items))
           m == Cardinality(KeysIn(items'))
<1>1. items \in Seq(Event) /\ Popping!Pop
  BY DEF TypeInv, QueueTypeOK, PopOr
<1>2. n \in Nat /\ sent \in Nat /\ handed \in Nat /\ dropped_critical \in Nat
  BY <1>1, KeysInType, CountTypes
<1>3. n = m + One(popped'.out) /\ m \in Nat
  BY <1>1, PopCounts, KeysInType
<1>4. /\ handed' = handed + One(popped'.out)
  BY <1>2 DEF PopOr, One
<1>5. /\ sent' = sent /\ dropped_critical' = dropped_critical
      /\ pushing' = pushing /\ ppc' = ppc
  BY DEF PopOr, producerVars
<1>6. Balance(n, sent, handed, dropped_critical, ppc, pushing)
  <2>1. KeysHeld = KeysIn(items)
    BY DEF KeysHeld, KeysIn
  <2>2. QED
    BY <2>1 DEF AccountInv, KeysAccounted, Balance
<1> HIDE DEF n, m
<1>7. Balance(m, sent', handed', dropped_critical', ppc', pushing')
  <2> DEFINE o == One(popped'.out)
             h == IF ppc = "full" /\ pushing.type = "KEY" THEN 1 ELSE 0
  <2>1. o \in {0, 1} /\ h \in {0, 1}
    BY DEF One
  <2>2. sent = n + handed + dropped_critical + h
    BY <1>6 DEF Balance
  <2>3. n = m + o /\ handed' = handed + o
    BY <1>3, <1>4
  <2> HIDE DEF o, h
  <2>4. sent = m + (handed + o) + dropped_critical + h
    BY <1>2, <1>3, <2>1, <2>2, <2>3
  <2>5. QED
    BY <1>5, <2>3, <2>4 DEF Balance, h
<1>8. KeysAccounted'
  <2>1. KeysHeld' = KeysIn(items')
    BY DEF KeysHeld, KeysIn
  <2>2. QED
    BY <1>7, <2>1 DEF KeysAccounted, Balance, m
<1>9. QED
  BY <1>5, <1>8 DEF AccountInv

LEMMA StepAccounts ==
  ASSUME TypeInv, AccountInv, [Next]_vars
  PROVE  AccountInv'
<1>1. CASE Pushes
  <2>1. ASSUME sent < MAX_KEYS, PushRing(Key(sent + 1))
        PROVE  AccountInv'
    <3> DEFINE e == Key(sent + 1)
    <3>1. sent + 1 \in 1 .. MAX_KEYS
      BY <2>1, CountTypes
    <3>2. e \in Event /\ e.type = "KEY" /\ e.data = sent + 1
      BY <3>1, EventTypes DEF Key
    <3> HIDE DEF e
    <3>3. QED
      BY <2>1, <3>2, PushAccounts DEF e
  <2>2. ASSUME NEW k \in 1 .. MAX_TICKS, PushRing(Tick(k))
        PROVE  AccountInv'
    <3>1. Tick(k) \in Event /\ Tick(k).type = "TICK"
      BY EventTypes DEF Tick
    <3>2. QED
      BY <2>2, <3>1, PushAccounts
  <2>3. QED
    BY <1>1, <2>1, <2>2 DEF Pushes
<1>2. CASE ReplaceTick
  BY <1>2, ReplaceAccounts
<1>3. CASE Bump \/ Signal \/ close
  <2>1. /\ items' = items /\ sent' = sent /\ handed' = handed
        /\ dropped_critical' = dropped_critical /\ pushing' = pushing
        /\ ppc # "full" /\ ppc' # "full"
    BY <1>3 DEF Bump, Signal, close, ringVars, queueVars, consumerVars
  <2>2. QED
    BY <2>1, BalanceStays
<1>4. CASE try_pop \/ WaitPops \/ WaitPopsAgain
  BY <1>4, PopAccounts DEF try_pop, WaitPops, WaitPopsAgain
<1>5. CASE \/ WaitCaptures \/ WaitChecksClosed \/ WaitChecksClosedAgain \/ WaitChecksSeq
           \/ timed_wait \/ WakesSpuriously \/ TimesOut
  <2>1. /\ items' = items /\ sent' = sent /\ handed' = handed
        /\ dropped_critical' = dropped_critical /\ pushing' = pushing /\ ppc' = ppc
    BY <1>5 DEF WaitCaptures, WaitChecksClosed, WaitChecksClosedAgain, WaitChecksSeq,
      timed_wait, WakesSpuriously, TimesOut, Keeps, Recapture, queueVars, ringVars, producerVars
  <2>2. QED
    BY <2>1, BalanceStays
<1>6. CASE UNCHANGED vars
  <2>1. /\ items' = items /\ sent' = sent /\ handed' = handed
        /\ dropped_critical' = dropped_critical /\ pushing' = pushing /\ ppc' = ppc
    BY <1>6 DEF vars, queueVars, ringVars, producerVars, consumerVars
  <2>2. QED
    BY <2>1, BalanceStays
<1>7. QED
  BY <1>1, <1>2, <1>3, <1>4, <1>5, <1>6 DEF Next, Produce, Consume, WaitReturns

\* event_queue_push never loses a key without counting it: each is in the queue,
\* handed out, in dropped_critical, or between the push and the replacement.
THEOREM KeysNeverVanish == Spec => []KeysAccounted
<1>1. TypeInv /\ AccountInv /\ [Next]_vars => AccountInv'
  BY StepAccounts
<1>2. AccountInv => KeysAccounted
  BY DEF AccountInv
<1>3. QED
  BY <1>1, <1>2, InitAccount, TypesHold, PTL DEF Spec

----------------------------------------------------------------------------
(* The queue is a channel *)

Late == IF ppc = "full" THEN pushing ELSE NoEvent

\* What the channel shows of the consumer does not change with these.
ConsumerStays == cpc' = cpc /\ timeout' = timeout

LEMMA EventKinds ==
  ASSUME NEW e \in Event
  PROVE  /\ e # NoEvent
         /\ \/ e.type = "TICK" /\ e \in Ticks
            \/ e.type = "KEY" /\ e \in {Key(k) : k \in 1 .. MAX_KEYS} /\ e \notin Ticks
  BY DEF Event, Key, Tick, Ticks, NoEvent

LEMMA TicksMerge ==
  ASSUME NEW y \in Event, NEW x \in Event
  PROVE  Merged[<<y, x>>] # NoEvent <=> y \in Ticks /\ x \in Ticks
<1>1. CASE y.type = "TICK" /\ x.type = "TICK"
  <2>1. Merged[<<y, x>>].type = "TICK"
    BY <1>1 DEF Merged, Tick
  <2>2. QED
    BY <1>1, <2>1 DEF Ticks, NoEvent
<1>2. CASE ~(y.type = "TICK" /\ x.type = "TICK")
  BY <1>2 DEF Merged, Ticks
<1>3. QED
  BY <1>1, <1>2

\* A tick looks for a tick to add to, a key for nothing.
LEMMA PartnersOfEvent ==
  ASSUME QueueTypeOK, NEW e \in Event
  PROVE  Pushing!Partners(e) = IF e \in Ticks THEN Ticks ELSE {}
<1>1. Pushing!Partners(e) = {y \in Event : Merged[y, e] # NoEvent}
  BY DEF QueueTypeOK, Pushing!Partners
<1>2. \A y \in Event : Merged[y, e] # NoEvent <=> y \in Ticks /\ e \in Ticks
  BY TicksMerge
<1>3. Ticks \subseteq Event
  BY DEF Ticks
<1>4. QED
  BY <1>1, <1>2, <1>3, Zenon

LEMMA FirstIsOldest ==
  ASSUME NEW i \in 1 .. Len(items), Len(items) \in Nat, Pushing!First(i, Ticks)
  PROVE  i \in Channel!TickPlaces /\ Channel!Oldest(i)
  BY DEF Pushing!First, Channel!TickPlaces, Channel!Oldest

LEMMA NoneIsHeld ==
  ASSUME Pushing!Held \cap Ticks = {}
  PROVE  Channel!TickPlaces = {}
  BY DEF Pushing!Held, Channel!TickPlaces

\* event_queue_push up to its second ring call: the event is in, or it is a tick
\* that is lost or a key that is late.
LEMMA PushSends ==
  ASSUME QueueTypeOK, NEW e \in Event, PushRing(e)
  PROVE  \/ e \in Ticks /\ Channel!SendTick(e)
         \/ e \in {Key(k) : k \in 1 .. MAX_KEYS} /\ Channel!SendKey(e)
         \/ UNCHANGED Channel!channelVars
<1>1. /\ closed' = closed /\ Late = NoEvent /\ ConsumerStays
      /\ pushing' = e
      /\ ppc' = IF pushed'.ret # "DROPPED" THEN "bump"
                ELSE IF e.type = "TICK" THEN "idle" ELSE "full"
  BY DEF PushRing, consumerVars, Late, ConsumerStays
<1>2. Asking' = Asking /\ (timeout = "forever")' = (timeout = "forever")
  BY <1>1 DEF Asking, ConsumerStays
<1>3. items \in Seq(Event) /\ Len(items) \in Nat /\ policy = "COALESCE"
  BY LenProperties DEF QueueTypeOK
<1>4. CASE /\ \E i \in 1 .. Len(items) :
                /\ Pushing!First(i, Pushing!Partners(e))
                /\ items' = [items EXCEPT ![i] = Merged[@, e]]
           /\ Pushing!Returns("MERGED", NoEvent)
  <2>1. PICK i \in 1 .. Len(items) :
          /\ Pushing!First(i, Pushing!Partners(e))
          /\ items' = [items EXCEPT ![i] = Merged[<<items[i], e>>]]
    BY <1>4
  <2>2. e \in Ticks /\ Pushing!First(i, Ticks)
    <3>1. items[i] \in Pushing!Partners(e)
      BY <2>1 DEF Pushing!First
    <3>2. QED
      BY <2>1, <3>1, PartnersOfEvent
  <2>3. i \in Channel!TickPlaces /\ Channel!Oldest(i)
    BY <1>3, <2>2, FirstIsOldest
  <2>4. Late' = NoEvent
    <3>1. pushed'.ret = "MERGED"
      BY <1>4 DEF Pushing!Returns
    <3>2. QED
      BY <1>1, <3>1 DEF Late
  <2>5. Channel!SendTick(e)
    BY <1>1, <1>2, <2>1, <2>3, <2>4, Zenon DEF Channel!SendTick, Late
  <2>6. QED
    BY <2>2, <2>5
<1>5. CASE /\ Pushing!Held \cap Pushing!Partners(e) = {} /\ Len(items) < CAPACITY
           /\ items' = Append(items, e) /\ Pushing!Returns("OK", NoEvent)
  <2>1. Late' = NoEvent
    <3>1. pushed'.ret = "OK"
      BY <1>5 DEF Pushing!Returns
    <3>2. QED
      BY <1>1, <3>1 DEF Late
  <2>2. ~Channel!Full
    BY <1>3, <1>5 DEF Channel!Full
  <2>3. CASE e \in Ticks
    <3>1. Channel!TickPlaces = {}
      BY <1>5, <2>3, PartnersOfEvent, NoneIsHeld
    <3>2. Channel!SendTick(e)
      BY <1>1, <1>2, <1>5, <2>1, <2>2, <3>1, Zenon DEF Channel!SendTick, Late
    <3>3. QED
      BY <2>3, <3>2
  <2>4. CASE e \in {Key(k) : k \in 1 .. MAX_KEYS}
    <3>1. Channel!SendKey(e)
      BY <1>1, <1>2, <1>5, <2>1, <2>2, Zenon DEF Channel!SendKey, Late
    <3>2. QED
      BY <2>4, <3>1
  <2>5. QED
    BY <2>3, <2>4, EventKinds
<1>6. CASE Len(items) = CAPACITY /\ items' = items /\ Pushing!Returns("DROPPED", NoEvent)
  <2>1. ppc' = IF e.type = "TICK" THEN "idle" ELSE "full"
    <3>1. pushed'.ret = "DROPPED"
      BY <1>6 DEF Pushing!Returns
    <3>2. QED
      BY <1>1, <3>1
  <2>2. CASE e.type = "TICK"
    <3>1. Late' = Late
      BY <1>1, <2>1, <2>2 DEF Late
    <3>2. QED
      BY <1>1, <1>2, <1>6, <3>1, Zenon DEF Channel!channelVars, Late
  <2>3. CASE e.type = "KEY"
    <3>1. Late' = e
      BY <1>1, <2>1, <2>3 DEF Late
    <3>2. Channel!SendKey(e)
      BY <1>1, <1>2, <1>6, <3>1, Zenon DEF Channel!SendKey, Channel!Full, Late
    <3>3. e \in {Key(k) : k \in 1 .. MAX_KEYS}
      BY <2>3, EventKinds
    <3>4. QED
      BY <3>2, <3>3
  <2>4. QED
    BY <2>2, <2>3, EventKinds
<1>7. QED
  <2>1. Pushing!Push(e) /\ policy # "OVERWRITE_OLDEST"
    BY <1>3 DEF PushRing
  <2>2. QED
    BY <2>1, <1>4, <1>5, <1>6, Zenon DEF Pushing!Push

\* Its second ring call.
LEMMA ReplacePlaces ==
  ASSUME TypeInv, ReplaceTick
  PROVE  Channel!PlaceLate
<1>1. /\ Late = pushing /\ pushing \in Event /\ Late' = NoEvent
      /\ closed' = closed /\ ConsumerStays
  BY DEF ReplaceTick, TypeInv, Late, consumerVars, ConsumerStays
<1>2. Asking' = Asking /\ (timeout = "forever")' = (timeout = "forever")
  BY <1>1 DEF Asking, ConsumerStays
<1>3. Late # NoEvent
  BY <1>1, EventKinds
<1>4. CASE \E i \in 1 .. Len(items) :
             Pushing!First(i, Ticks) /\ items' = [items EXCEPT ![i] = pushing]
  <2>1. PICK i \in 1 .. Len(items) :
          Pushing!First(i, Ticks) /\ items' = [items EXCEPT ![i] = pushing]
    BY <1>4
  <2>2. i \in Channel!TickPlaces /\ Channel!Oldest(i)
    BY <2>1, FirstIsOldest, LenProperties DEF TypeInv, QueueTypeOK
  <2>3. QED
    BY <1>1, <1>2, <1>3, <2>1, <2>2, Zenon DEF Channel!PlaceLate, Late
<1>5. CASE Pushing!Held \cap Ticks = {} /\ items' = items
  <2>1. Channel!TickPlaces = {}
    BY <1>5, NoneIsHeld
  <2>2. QED
    BY <1>1, <1>2, <1>3, <1>5, <2>1, Zenon DEF Channel!PlaceLate, Late
<1>6. QED
  <2>1. Pushing!ReplaceFirst(Ticks, pushing)
    BY DEF ReplaceTick
  <2>2. QED
    BY <1>4, <1>5, <2>1, Zenon DEF Pushing!ReplaceFirst

LEMMA ProduceSends ==
  ASSUME TypeInv, Produce
  PROVE  Channel!Sends \/ UNCHANGED Channel!channelVars
<1>1. QueueTypeOK
  BY DEF TypeInv
<1>2. ASSUME NEW e \in Event, PushRing(e)
      PROVE  Channel!Sends \/ UNCHANGED Channel!channelVars
  BY <1>1, <1>2, PushSends DEF Channel!Sends
<1>3. CASE Pushes
  <2>1. ASSUME sent < MAX_KEYS, PushRing(Key(sent + 1))
        PROVE  Key(sent + 1) \in Event
    <3>1. sent + 1 \in 1 .. MAX_KEYS
      BY <2>1, CountTypes
    <3>2. QED
      BY <3>1, EventTypes
  <2>2. \A n \in 1 .. MAX_TICKS : Tick(n) \in Event
    BY EventTypes
  <2>3. QED
    BY <1>2, <1>3, <2>1, <2>2 DEF Pushes
<1>4. CASE ReplaceTick
  BY <1>4, ReplacePlaces DEF Channel!Sends
<1>5. CASE Bump \/ Signal
  <2>1. /\ items' = items /\ closed' = closed /\ timeout' = timeout
        /\ ppc # "full" /\ ppc' # "full"
        /\ cpc' = cpc \/ (cpc = "asleep" /\ cpc' = "woken")
    BY <1>5 DEF Bump, Signal, queueVars, ringVars, consumerVars
  <2>2. Late' = Late /\ Asking' = Asking /\ (timeout = "forever")' = (timeout = "forever")
    BY <2>1 DEF Late, Asking
  <2>3. QED
    BY <2>1, <2>2, Zenon DEF Channel!channelVars, Late
<1>6. CASE close
  <2>1. /\ ~closed /\ closed' = TRUE /\ items' = items /\ ppc # "full" /\ ppc' # "full"
        /\ ConsumerStays
    BY <1>6 DEF close, ringVars, consumerVars, ConsumerStays
  <2>2. Late' = Late /\ Asking' = Asking /\ (timeout = "forever")' = (timeout = "forever")
    BY <2>1 DEF Late, Asking, ConsumerStays
  <2>3. Channel!Close
    BY <2>1, <2>2, Zenon DEF Channel!Close, Late
  <2>4. QED
    BY <2>3 DEF Channel!Sends
<1>7. QED
  BY <1>3, <1>4, <1>5, <1>6 DEF Produce

\* One look at the ring: the consumer has the oldest event, or has seen none.
LEMMA PopReceives ==
  ASSUME NEW pc, PopOr(pc)
  PROVE  \/ Channel!Receive
         \/ /\ items = <<>> /\ items' = items /\ cpc' = pc
            /\ closed' = closed /\ timeout' = timeout /\ Late' = Late
<1>1. closed' = closed /\ timeout' = timeout /\ Late' = Late
  BY DEF PopOr, producerVars, Late
<1>2. CASE items # <<>> /\ items' = Tail(items) /\ Popping!Returns("OK", Head(items))
  <2>1. popped'.ret = "OK"
    BY <1>2 DEF Popping!Returns
  <2>2. cpc' = "out"
    BY <2>1 DEF PopOr
  <2>3. Asking' = "no" /\ (timeout = "forever")' = (timeout = "forever")
    BY <1>1, <2>2 DEF Asking
  <2>4. QED
    BY <1>1, <1>2, <2>3, Zenon DEF Channel!Receive, Late
<1>3. CASE items = <<>> /\ items' = items /\ Popping!Returns("ERR", NoEvent)
  <2>1. popped'.ret = "ERR"
    BY <1>3 DEF Popping!Returns
  <2>2. cpc' = pc
    BY <2>1 DEF PopOr
  <2>3. QED
    BY <1>1, <1>3, <2>2
<1>4. QED
  BY <1>2, <1>3, Zenon DEF PopOr, Popping!Pop

\* A step of the consumer that leaves ring and flag alone.
LEMMA ConsumerMoves ==
  ASSUME items' = items, closed' = closed, Late' = Late, timeout' = timeout,
         \/ Asking' = Asking
         \/ Asking = "asked" /\ Asking' = "saw none" /\ items = <<>>
         \/ Asking = "saw none" /\ Asking' = "asked"
         \/ Asking = "saw none" /\ Asking' = "no" /\ (closed \/ timeout # "forever")
  PROVE  Channel!Receives \/ UNCHANGED Channel!channelVars
<1>1. (timeout = "forever")' = (timeout = "forever")
  OBVIOUS
<1>2. CASE Asking' = Asking
  BY <1>1, <1>2, Zenon DEF Channel!channelVars, Late
<1>3. CASE Asking = "asked" /\ Asking' = "saw none" /\ items = <<>>
  BY <1>1, <1>3, Zenon DEF Channel!SeeNone, Channel!Receives, Late
<1>4. CASE Asking = "saw none" /\ Asking' = "asked"
  BY <1>1, <1>4, Zenon DEF Channel!LookAgain, Channel!Receives, Late
<1>5. CASE Asking = "saw none" /\ Asking' = "no" /\ (closed \/ timeout # "forever")
  BY <1>1, <1>5, Zenon DEF Channel!GiveUp, Channel!Receives, Late
<1>6. QED
  BY <1>2, <1>3, <1>4, <1>5

LEMMA ConsumeReceives ==
  ASSUME Consume
  PROVE  Channel!Receives \/ UNCHANGED Channel!channelVars
<1>1. ASSUME NEW pc \in {"out", "closed", "closed again"}, PopOr(pc),
             \/ cpc = "out" /\ pc = "out"
             \/ cpc = "pop" /\ pc = "closed"
             \/ cpc = "lock" /\ pc = "closed again"
      PROVE  Channel!Receives \/ UNCHANGED Channel!channelVars
  <2>1. CASE Channel!Receive
    BY <2>1 DEF Channel!Receives
  <2>2. CASE /\ items = <<>> /\ items' = items /\ cpc' = pc
             /\ closed' = closed /\ timeout' = timeout /\ Late' = Late
    <3>1. Asking' = Asking \/ (Asking = "asked" /\ Asking' = "saw none")
      BY <1>1, <2>2 DEF Asking
    <3>2. QED
      BY <2>2, <3>1, ConsumerMoves
  <2>3. QED
    BY <1>1, <2>1, <2>2, PopReceives
<1>2. CASE WaitCaptures
  <2>1. /\ items' = items /\ closed' = closed /\ Late' = Late
        /\ cpc = "out" /\ cpc' = "pop"
    BY <1>2 DEF WaitCaptures, ringVars, producerVars, Late
  <2>2. Asking = "no" /\ Asking' = "asked" /\ (timeout = "forever")' \in BOOLEAN
    BY <2>1 DEF Asking
  <2>3. QED
    BY <2>1, <2>2, Zenon DEF Channel!Ask, Channel!Receives, Late
<1>3. CASE \/ WaitChecksClosed \/ WaitChecksClosedAgain \/ WaitChecksSeq \/ timed_wait
           \/ WakesSpuriously \/ TimesOut
  <2>1. items' = items /\ closed' = closed /\ Late' = Late /\ timeout' = timeout
    BY <1>3 DEF WaitChecksClosed, WaitChecksClosedAgain, WaitChecksSeq, timed_wait,
      WakesSpuriously, TimesOut, Keeps, Recapture, queueVars, ringVars, producerVars, Late
  <2>2. /\ cpc \in {"closed", "closed again", "check", "go to sleep", "woken", "asleep"}
        /\ \/ cpc' \in {"lock", "check", "go to sleep", "asleep", "woken"}
           \/ cpc' = "pop"
           \/ cpc' = "out" /\ (closed \/ timeout # "forever")
    BY <1>3 DEF WaitChecksClosed, WaitChecksClosedAgain, WaitChecksSeq, timed_wait,
      WakesSpuriously, TimesOut, Keeps, Recapture
  <2>3. \/ Asking' = Asking
        \/ Asking = "saw none" /\ Asking' = "asked"
        \/ Asking = "saw none" /\ Asking' = "no" /\ (closed \/ timeout # "forever")
    BY <2>2 DEF Asking
  <2>4. QED
    BY <2>1, <2>3, ConsumerMoves
<1>4. CASE try_pop \/ WaitPops \/ WaitPopsAgain
  <2>1. CASE try_pop
    BY <1>1, <2>1 DEF try_pop
  <2>2. CASE WaitPops
    BY <1>1, <2>2 DEF WaitPops
  <2>3. CASE WaitPopsAgain
    BY <1>1, <2>3 DEF WaitPopsAgain
  <2>4. QED
    BY <1>4, <2>1, <2>2, <2>3
<1>5. QED
  BY <1>2, <1>3, <1>4 DEF Consume, WaitReturns

\* The calls of the two threads, whose steps interleave, are single steps on a
\* channel: nothing is lost but the ticks and the keys the channel loses, nothing
\* changes its order but a key that takes a tick's place, and event_queue_wait
\* returns empty-handed only having seen an empty channel, and then only if that
\* is closed or the caller was not ready to wait for ever.
THEOREM QueueIsChannel == Spec => IsChannelSafely
<1>1. Init => Channel!ChannelInit
  <2>1. ASSUME Init
        PROVE  Channel!ChannelInit
    <3>1. Late = NoEvent /\ Asking = "no" /\ (timeout = "forever") \in BOOLEAN
      BY <2>1 DEF Init, Late, Asking
    <3>2. items = <<>> /\ closed = FALSE
      BY <2>1 DEF Init
    <3>3. QED
      BY <3>1, <3>2, Zenon DEF Channel!ChannelInit, Late
  <2>2. QED
    BY <2>1
<1>2. TypeInv /\ [Next]_vars => [Channel!ChannelNext]_(Channel!channelVars)
  <2>1. TypeInv /\ Produce => [Channel!ChannelNext]_(Channel!channelVars)
    BY ProduceSends DEF Channel!ChannelNext
  <2>2. Consume => [Channel!ChannelNext]_(Channel!channelVars)
    BY ConsumeReceives DEF Channel!ChannelNext
  <2>3. UNCHANGED vars => UNCHANGED Channel!channelVars
    BY DEF vars, queueVars, ringVars, producerVars, consumerVars, Channel!channelVars, Asking
  <2>4. QED
    BY <2>1, <2>2, <2>3 DEF Next
<1>3. QED
  BY <1>1, <1>2, TypesHold, PTL DEF Spec, IsChannelSafely, Channel!ChannelSafety
=============================================================================
