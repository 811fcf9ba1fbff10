--------------------------- MODULE GpioHalProofs ---------------------------
(***************************************************************************)
(* Proofs about GpioHal, for every number of buttons, every long press and  *)
(* debounce period and every size of the queue and of the read buffer.      *)
(***************************************************************************)
EXTENDS GpioHal, TLAPS, SequenceTheorems, FiniteSetTheorems, WellFoundedInduction

\* What is pending and what the batch may still add fit in the queue together.
QueueHasRoom == Len(g_pending) + Len(batch) <= MAX_PENDING_EVENTS

GpioInv ==
  /\ GpioTypeOK
  /\ TimerRunsIffWaiting
  /\ NothingLeftBehind
  /\ OneEventPerHold
  /\ QueueHasRoom

----------------------------------------------------------------------------
(* The timer *)

\* A non-empty set of natural numbers has a least element, and Min is that.
LEMMA MinIsLeast ==
  ASSUME NEW S \in SUBSET Nat, S # {}
  PROVE  Min(S) \in S /\ \A y \in S : Min(S) <= y
<1> DEFINE Less == {ss \in Nat \X Nat : ss[1] < ss[2]}
<1>1. IsWellFoundedOn(Less, Nat)
  BY NatLessThanWellFounded, Zenon DEF OpToRel
<1>2. \E x \in S : \A y \in S : ~(<<y, x>> \in Less)
  <2> HIDE DEF Less
  <2> QED
    BY <1>1, WFMin
<1>3. PICK x \in S : \A y \in S : ~(<<y, x>> \in Less)
  BY <1>2
<1>4. \A y \in S : x <= y
  <2> TAKE y \in S
  <2>1. x \in Nat /\ y \in Nat
    OBVIOUS
  <2>2. ~(y < x)
    BY <1>3, <2>1
  <2> QED
    BY <2>1, <2>2
<1> QED
  BY <1>4 DEF Min

\* The delay for a waiting button is at most a whole long press, and no delay is Off.
LEMMA DelayRange ==
  ASSUME NEW W \in SUBSET Button, NEW ages \in [Button -> Nat]
  PROVE  NextDelay(W, ages) \in 0 .. GPIO_LONG_PRESS
<1> DEFINE lastDue == Max({0} \cup {b \in W : Remaining(ages[b]) = 0})
           after   == {Remaining(ages[b]) : b \in {w \in W : w > lastDue}}
<1>1. \A b \in Button : Remaining(ages[b]) \in 0 .. GPIO_LONG_PRESS
  BY GpioAssumption DEF Remaining
<1>2. after \subseteq 0 .. GPIO_LONG_PRESS
  BY <1>1
<1>3. CASE after = {}
  <2>1. NextDelay(W, ages) = 0
    BY <1>3 DEF NextDelay
  <2> QED
    BY <2>1, GpioAssumption
<1>4. CASE after # {}
  <2>1. after \in SUBSET Nat
    BY <1>2
  <2>2. Min(after) \in after
    BY <1>4, <2>1, MinIsLeast
  <2>3. NextDelay(W, ages) = Min(after)
    BY <1>4 DEF NextDelay
  <2> QED
    BY <1>2, <2>2, <2>3
<1> QED
  BY <1>3, <1>4

\* Setting the timer anew, from whatever the buttons have become, makes it run for
\* the buttons that wait and for nothing else.
LEMMA TimerIsRight ==
  ASSUME update_long_press_timer_locked, press_age' \in [Button -> 0 .. AGE_MAX]
  PROVE  /\ g_timer' \in {Off} \cup 0 .. GPIO_LONG_PRESS
         /\ TimerRunsIffWaiting'
<1> DEFINE W == WaitingIn(g_pressed', g_long_sent')
<1>1. W \in SUBSET Button
  BY DEF WaitingIn
<1>2. press_age' \in [Button -> Nat]
  OBVIOUS
<1>3. NextDelay(W, press_age') \in 0 .. GPIO_LONG_PRESS
  BY <1>1, <1>2, DelayRange
<1>4. W = Waiting'
  BY DEF Waiting, WaitingIn
<1> QED
  BY <1>3, <1>4, GpioAssumption DEF update_long_press_timer_locked, TimerRunsIffWaiting, Off

----------------------------------------------------------------------------
(* Long presses *)

\* The type invariant of all that is not a queue.
ButtonsTypeOK ==
  /\ g_use_soft_debounce \in BOOLEAN
  /\ down \in [Button -> BOOLEAN]
  /\ g_pressed \in [Button -> BOOLEAN] /\ g_long_sent \in [Button -> BOOLEAN]
  /\ press_age \in [Button -> 0 .. AGE_MAX] /\ edge_age \in [Button -> 0 .. AGE_MAX]
  /\ g_timer \in {Off} \cup 0 .. GPIO_LONG_PRESS
  /\ told \in [Button -> 0 .. 2]

\* The long presses sent together are as many as their buttons, and fit in the queue.
LEMMA LongEventsType ==
  ASSUME NEW D \in SUBSET Button, NEW q \in LongEvents(D)
  PROVE  /\ q \in Seq(Event)
         /\ Len(q) <= MAX_PENDING_EVENTS
         /\ D = {} => q = <<>>
<1>1. Cardinality(D) \in Nat /\ Cardinality(D) <= GPIO_NUM_BUTTONS
  <2>1. IsFiniteSet(Button) /\ Cardinality(Button) = GPIO_NUM_BUTTONS
    BY GpioAssumption, FS_Interval DEF Button
  <2>2. IsFiniteSet(D) /\ Cardinality(D) <= Cardinality(Button)
    BY <2>1, FS_Subset
  <2> QED
    BY <2>1, <2>2, FS_CardinalityType
<1>2. q \in [1 .. Cardinality(D) -> Event]
  BY DEF LongEvents, Event
<1>3. q \in Seq(Event)
  BY <1>1, <1>2, SeqDef
<1>4. Len(q) = Cardinality(D)
  BY <1>1, <1>2, <1>3, LenProperties
<1>5. ASSUME D = {} PROVE q = <<>>
  BY <1>3, <1>4, <1>5, FS_EmptySet, EmptySeq
<1> QED
  BY <1>1, <1>3, <1>4, <1>5, GpioAssumption

\* Looking at the timer sends the long presses that are due, once each, and leaves
\* the timer right for the others.
LEMMA LongPressStep ==
  ASSUME GpioInv, NEW due \in SUBSET Button, handle_long_press_timer_locked(due)
  PROVE  /\ ButtonsTypeOK' /\ TimerRunsIffWaiting' /\ OneEventPerHold'
         /\ g_pending' \in Seq(Event) /\ Len(g_pending') <= MAX_PENDING_EVENTS
         /\ due = {} => g_pending' = <<>>
<1>1. /\ due = {b \in Waiting : press_age[b] >= GPIO_LONG_PRESS}
      /\ g_long_sent' = [b \in Button |-> g_long_sent[b] \/ b \in due]
      /\ g_pending' \in LongEvents(due)
      /\ told' = [b \in Button |-> IF b \in due THEN told[b] + 1 ELSE told[b]]
      /\ UNCHANGED <<g_use_soft_debounce, down, g_pressed, press_age, edge_age>>
      /\ update_long_press_timer_locked
  BY DEF handle_long_press_timer_locked
<1>2. GpioTypeOK /\ OneEventPerHold
  BY DEF GpioInv
<1>3. press_age' \in [Button -> 0 .. AGE_MAX]
  BY <1>1, <1>2 DEF GpioTypeOK
<1>4. g_timer' \in {Off} \cup 0 .. GPIO_LONG_PRESS /\ TimerRunsIffWaiting'
  BY <1>1, <1>3, TimerIsRight
<1>5. OneEventPerHold'
  <2> SUFFICES ASSUME NEW b \in Button
               PROVE  told'[b] = IF g_pressed'[b] /\ ~g_long_sent'[b] THEN 0 ELSE 1
    BY DEF OneEventPerHold
  <2>1. told[b] = IF g_pressed[b] /\ ~g_long_sent[b] THEN 0 ELSE 1
    BY <1>2 DEF OneEventPerHold
  <2>2. CASE b \in due
    <3>1. g_pressed[b] /\ ~g_long_sent[b]
      BY <1>1, <2>2 DEF Waiting, WaitingIn
    <3>2. g_long_sent'[b] /\ told'[b] = told[b] + 1
      BY <1>1, <2>2
    <3> QED
      BY <2>1, <3>1, <3>2
  <2>3. CASE b \notin due
    <3>1. g_long_sent'[b] <=> g_long_sent[b]
      BY <1>1, <2>3
    <3>2. told'[b] = told[b] /\ g_pressed' = g_pressed
      BY <1>1, <2>3
    <3> QED
      BY <2>1, <3>1, <3>2
  <2> QED
    BY <2>2, <2>3
<1>6. told' \in [Button -> 0 .. 2]
  BY <1>1, <1>5 DEF OneEventPerHold
<1>7. g_long_sent' \in [Button -> BOOLEAN]
  BY <1>1
<1>8. ButtonsTypeOK'
  BY <1>1, <1>2, <1>3, <1>4, <1>6, <1>7 DEF GpioTypeOK, ButtonsTypeOK
<1> QED
  BY <1>1, <1>4, <1>5, <1>8, LongEventsType

----------------------------------------------------------------------------
(* Edges *)

\* A push makes the queue one longer at most, and overwrites nothing while there is room.
LEMMA PushOne ==
  ASSUME NEW q \in Seq(Event), NEW e \in Event
  PROVE  /\ pending_push(q, e) \in Seq(Event)
         /\ Len(pending_push(q, e)) <= Len(q) + 1
         /\ Len(q) < MAX_PENDING_EVENTS => pending_push(q, e) = Append(q, e)
<1>1. Len(q) \in Nat
  BY LenProperties
<1>2. CASE Len(q) < MAX_PENDING_EVENTS
  <2>1. pending_push(q, e) = Append(q, e)
    BY <1>1, <1>2, GpioAssumption DEF pending_push
  <2> QED
    BY <1>1, <2>1, AppendProperties
<1>3. CASE ~(Len(q) < MAX_PENDING_EVENTS)
  <2>1. q # <<>>
    BY <1>1, <1>3, GpioAssumption, EmptySeq
  <2>2. Tail(q) \in Seq(Event) /\ Len(Tail(q)) = Len(q) - 1
    BY <2>1, HeadTailProperties
  <2>3. pending_push(q, e) = Append(Tail(q), e)
    BY <1>1, <1>3, GpioAssumption DEF pending_push
  <2>4. Append(Tail(q), e) \in Seq(Event) /\ Len(Append(Tail(q), e)) = Len(Tail(q)) + 1
    BY <2>2, AppendProperties
  <2>5. Len(pending_push(q, e)) = Len(q)
    BY <1>1, <2>2, <2>3, <2>4
  <2>6. pending_push(q, e) \in Seq(Event)
    BY <2>3, <2>4
  <2> QED
    BY <1>1, <1>3, <2>5, <2>6
<1> QED
  BY <1>2, <1>3

\* What an edge does to the buttons and to the queue of events.
EdgeEffect ==
  /\ ButtonsTypeOK' /\ TimerRunsIffWaiting' /\ OneEventPerHold'
  /\ g_pending' \in Seq(Event) /\ Len(g_pending') <= Len(g_pending) + 1

\* A press: a new hold, with no event yet.
LEMMA PressStep ==
  ASSUME GpioInv, NEW e \in Edge, ButtonPressed(e), UNCHANGED <<g_use_soft_debounce, down>>
  PROVE  EdgeEffect
<1>1. GpioTypeOK /\ OneEventPerHold
  BY DEF GpioInv
<1>2. e.line \in Button /\ e.age \in 0 .. AGE_MAX /\ AGE_MAX \in 0 .. AGE_MAX
  BY GpioAssumption DEF Edge, AGE_MAX
<1>3. /\ press_age' \in [Button -> 0 .. AGE_MAX]
      /\ edge_age' \in [Button -> 0 .. AGE_MAX]
      /\ g_pressed' \in [Button -> BOOLEAN] /\ g_long_sent' \in [Button -> BOOLEAN]
      /\ told' \in [Button -> 0 .. 2]
  BY <1>1, <1>2 DEF ButtonPressed, EdgeNoted, GpioTypeOK
<1>4. g_timer' \in {Off} \cup 0 .. GPIO_LONG_PRESS /\ TimerRunsIffWaiting'
  BY <1>3, TimerIsRight DEF ButtonPressed
<1>5. ASSUME NEW b \in Button
      PROVE  told'[b] = IF g_pressed'[b] /\ ~g_long_sent'[b] THEN 0 ELSE 1
  <2>1. told[b] = IF g_pressed[b] /\ ~g_long_sent[b] THEN 0 ELSE 1
    BY <1>1 DEF OneEventPerHold
  <2>2. CASE b = e.line
    BY <1>1, <1>2, <2>2 DEF ButtonPressed, GpioTypeOK
  <2>3. CASE b # e.line
    <3>1. /\ told'[b] = told[b] /\ g_pressed'[b] = g_pressed[b]
          /\ g_long_sent'[b] = g_long_sent[b]
      BY <1>1, <1>2, <2>3 DEF ButtonPressed, GpioTypeOK
    <3> QED
      BY <2>1, <3>1
  <2> QED
    BY <2>2, <2>3
<1>6. g_pending' \in Seq(Event) /\ Len(g_pending') <= Len(g_pending) + 1
  BY <1>1, LenProperties DEF ButtonPressed, GpioTypeOK
<1> QED
  BY <1>1, <1>3, <1>4, <1>5, <1>6 DEF EdgeEffect, ButtonsTypeOK, OneEventPerHold, GpioTypeOK

\* A release: the hold has its event now, the one sent before or a short press.
LEMMA ReleaseStep ==
  ASSUME GpioInv, NEW e \in Edge, ButtonReleased(e), UNCHANGED <<g_use_soft_debounce, down>>
  PROVE  EdgeEffect
<1>1. GpioTypeOK /\ OneEventPerHold
  BY DEF GpioInv
<1>2. e.line \in Button /\ e.age \in 0 .. AGE_MAX /\ AGE_MAX \in 0 .. AGE_MAX
  BY GpioAssumption DEF Edge, AGE_MAX
<1>3. /\ press_age' \in [Button -> 0 .. AGE_MAX]
      /\ edge_age' \in [Button -> 0 .. AGE_MAX]
      /\ g_pressed' \in [Button -> BOOLEAN] /\ g_long_sent' \in [Button -> BOOLEAN]
  BY <1>1, <1>2 DEF ButtonReleased, EdgeNoted, GpioTypeOK
<1>4. g_timer' \in {Off} \cup 0 .. GPIO_LONG_PRESS /\ TimerRunsIffWaiting'
  BY <1>3, TimerIsRight DEF ButtonReleased
<1>5. told' = [told EXCEPT ![e.line] = 1]
  <2>1. told[e.line] = IF g_pressed[e.line] /\ ~g_long_sent[e.line] THEN 0 ELSE 1
    BY <1>1, <1>2 DEF OneEventPerHold
  <2>2. g_pressed[e.line]
    BY DEF ButtonReleased
  <2>3. CASE g_long_sent[e.line]
    <3>1. told' = told
      BY <2>3 DEF ButtonReleased
    <3> QED
      BY <1>1, <1>2, <2>1, <2>3, <3>1 DEF GpioTypeOK
  <2>4. CASE ~g_long_sent[e.line]
    <3>1. told' = [told EXCEPT ![e.line] = @ + 1]
      BY <2>4 DEF ButtonReleased
    <3>2. told[e.line] = 0
      BY <2>1, <2>2, <2>4
    <3> QED
      BY <3>1, <3>2
  <2> QED
    BY <2>3, <2>4
<1>6. ASSUME NEW b \in Button
      PROVE  told'[b] = IF g_pressed'[b] /\ ~g_long_sent'[b] THEN 0 ELSE 1
  <2>1. told[b] = IF g_pressed[b] /\ ~g_long_sent[b] THEN 0 ELSE 1
    BY <1>1 DEF OneEventPerHold
  <2>2. CASE b = e.line
    BY <1>1, <1>2, <1>5, <2>2 DEF ButtonReleased, GpioTypeOK
  <2>3. CASE b # e.line
    <3>1. /\ told'[b] = told[b] /\ g_pressed'[b] = g_pressed[b]
          /\ g_long_sent'[b] = g_long_sent[b]
      BY <1>1, <1>2, <1>5, <2>3 DEF ButtonReleased, GpioTypeOK
    <3> QED
      BY <2>1, <3>1
  <2> QED
    BY <2>2, <2>3
<1>7. g_pending' \in Seq(Event) /\ Len(g_pending') <= Len(g_pending) + 1
  <2>1. g_pending \in Seq(Event) /\ [line |-> e.line, long |-> FALSE] \in Event
    BY <1>1, <1>2 DEF GpioTypeOK, Event
  <2> QED
    BY <2>1, PushOne, LenProperties DEF ButtonReleased
<1>8. told' \in [Button -> 0 .. 2]
  BY <1>1, <1>2, <1>5 DEF GpioTypeOK
<1> QED
  BY <1>1, <1>3, <1>4, <1>6, <1>7, <1>8 DEF EdgeEffect, ButtonsTypeOK, OneEventPerHold, GpioTypeOK

\* One edge of the batch, whatever becomes of it.
LEMMA EdgeStep ==
  ASSUME GpioInv, process_edge_event
  PROVE  GpioInv'
<1> DEFINE e == Head(batch)
<1>1. GpioTypeOK /\ TimerRunsIffWaiting /\ OneEventPerHold /\ NothingLeftBehind /\ QueueHasRoom
  BY DEF GpioInv
<1>2. /\ e \in Edge
      /\ Tail(batch) \in Seq(Edge) /\ Len(Tail(batch)) = Len(batch) - 1
      /\ Len(batch) \in Nat \ {0} /\ Len(g_pending) \in Nat
  BY <1>1, HeadTailProperties, LenProperties, EmptySeq DEF process_edge_event, GpioTypeOK
<1>3. UNCHANGED <<g_use_soft_debounce, down>> /\ batch' = Tail(batch) /\ fifo' = fifo
  BY DEF process_edge_event
<1>4. EdgeEffect
  <2>1. CASE EdgeIgnored(e)
    BY <1>1, <1>2, <1>3, <2>1
    DEF EdgeIgnored, EdgeEffect, ButtonsTypeOK, GpioTypeOK, buttonState, TimerRunsIffWaiting, Waiting,
        WaitingIn, OneEventPerHold
  <2>2. CASE ButtonPressed(e)
    BY <1>2, <1>3, <2>2, PressStep
  <2>3. CASE ButtonReleased(e)
    BY <1>2, <1>3, <2>3, ReleaseStep
  <2>4. CASE ReleaseUnmatched(e)
    <3>1. edge_age' \in [Button -> 0 .. AGE_MAX]
      <4>1. e.age \in 0 .. AGE_MAX /\ AGE_MAX \in 0 .. AGE_MAX
        BY <1>2, GpioAssumption DEF Edge, AGE_MAX
      <4>2. edge_age' = [edge_age EXCEPT ![e.line] = IF g_use_soft_debounce THEN e.age ELSE AGE_MAX]
        BY <2>4 DEF ReleaseUnmatched, EdgeNoted
      <4>3. QED
        BY <1>1, <4>1, <4>2 DEF GpioTypeOK
    <3>2. UNCHANGED <<g_pressed, press_age, g_long_sent, g_timer, g_pending, told>>
      BY <2>4 DEF ReleaseUnmatched
    <3>3. ButtonsTypeOK'
      BY <1>1, <1>3, <3>1, <3>2 DEF ButtonsTypeOK, GpioTypeOK
    <3>4. TimerRunsIffWaiting' /\ OneEventPerHold'
      BY <1>1, <3>2 DEF TimerRunsIffWaiting, Waiting, WaitingIn, OneEventPerHold
    <3> QED
      BY <1>1, <1>2, <3>2, <3>3, <3>4 DEF EdgeEffect, GpioTypeOK
  <2> QED
    BY <2>1, <2>2, <2>3, <2>4 DEF process_edge_event
<1>5. calls \in 1 .. 2
  BY <1>1, <1>2, EmptySeq DEF GpioTypeOK, NothingLeftBehind, InCallback, process_edge_event
<1>6. calls' \in 0 .. 2 /\ (calls' = 0 => batch' = <<>> /\ g_pending' = <<>>)
  BY <1>5 DEF process_edge_event
<1>7. GpioTypeOK'
  BY <1>1, <1>2, <1>3, <1>4, <1>6, GpioAssumption DEF GpioTypeOK, EdgeEffect, ButtonsTypeOK
<1>8. NothingLeftBehind'
  BY <1>6 DEF NothingLeftBehind, InCallback
<1>9. QueueHasRoom'
  <2>1. Len(g_pending') \in Nat
    BY <1>4, LenProperties DEF EdgeEffect
  <2> QED
    BY <1>1, <1>2, <1>3, <1>4, <2>1, GpioAssumption DEF QueueHasRoom, EdgeEffect
<1> QED
  BY <1>4, <1>7, <1>8, <1>9 DEF GpioInv, EdgeEffect

----------------------------------------------------------------------------
(* The other steps *)

LEMMA PopStep ==
  ASSUME GpioInv, pending_pop
  PROVE  GpioInv'
<1> USE DEF GpioInv
<1>1. Tail(g_pending) \in Seq(Event) /\ Len(Tail(g_pending)) = Len(g_pending) - 1
  BY HeadTailProperties DEF pending_pop, GpioTypeOK
<1>2. Len(g_pending) \in Nat /\ Len(batch) \in Nat
  BY LenProperties DEF GpioTypeOK
<1>3. GpioTypeOK'
  BY <1>1 DEF pending_pop, GpioTypeOK, buttonState
<1>4. QueueHasRoom'
  BY <1>1, <1>2, GpioAssumption DEF pending_pop, QueueHasRoom
<1> QED
  BY <1>3, <1>4 DEF pending_pop, buttonState, TimerRunsIffWaiting, Waiting, WaitingIn,
                    NothingLeftBehind, InCallback, OneEventPerHold

\* A stretch of a queue of edges.
LEMMA EdgesOfSubSeq ==
  ASSUME NEW q, NEW k \in Int, NEW m \in Int, \A i \in k .. m : q[i] \in Edge
  PROVE  /\ SubSeq(q, k, m) \in Seq(Edge)
         /\ Len(SubSeq(q, k, m)) = IF k <= m THEN m - k + 1 ELSE 0
BY SubSeqProperties

\* The first READ_MAX edges of a queue of edges.
LEMMA ReadSplit ==
  ASSUME NEW q \in Seq(Edge), Len(q) <= FIFO_SIZE,
         NEW n, n = Min({READ_MAX, Len(q)})
  PROVE  /\ SubSeq(q, 1, n) \in Seq(Edge) /\ Len(SubSeq(q, 1, n)) <= READ_MAX
         /\ SubSeq(q, n + 1, Len(q)) \in Seq(Edge) /\ Len(SubSeq(q, n + 1, Len(q))) <= FIFO_SIZE
<1> DEFINE first == SubSeq(q, 1, n)
           rest  == SubSeq(q, n + 1, Len(q))
<1>1. Len(q) \in Nat
  BY LenProperties
<1>2. n \in {READ_MAX, Len(q)} /\ n <= READ_MAX /\ n <= Len(q)
  <2>1. {READ_MAX, Len(q)} \in SUBSET Nat
    BY <1>1, GpioAssumption
  <2> QED
    BY <2>1, MinIsLeast
<1>3. n \in Nat
  BY <1>1, <1>2, GpioAssumption
<1>a. \A i \in 1 .. Len(q) : q[i] \in Edge
  BY ElementOfSeq
<1>b. ASSUME NEW k \in Int, NEW m \in Int, \A i \in k .. m : q[i] \in Edge
      PROVE  SubSeq(q, k, m) \in Seq(Edge) /\ Len(SubSeq(q, k, m)) = IF k <= m THEN m - k + 1 ELSE 0
  BY <1>b, EdgesOfSubSeq
<1>4. first \in Seq(Edge) /\ Len(first) = IF 1 <= n THEN n - 1 + 1 ELSE 0
  <2>0. 1 .. n \subseteq 1 .. Len(q)
    BY <1>1, <1>2, <1>3
  <2>1. 1 \in Int /\ n \in Int
    BY <1>3
  <2>2. \A i \in 1 .. n : q[i] \in Edge
    BY <2>0, <1>a, Zenon
  <2> QED
    BY <2>1, <2>2, <1>b, Zenon
<1>5. rest \in Seq(Edge) /\ Len(rest) = IF n + 1 <= Len(q) THEN Len(q) - (n + 1) + 1 ELSE 0
  <2>0. n + 1 .. Len(q) \subseteq 1 .. Len(q)
    BY <1>1, <1>3
  <2>1. n + 1 \in Int /\ Len(q) \in Int
    BY <1>1, <1>3
  <2>2. \A i \in n + 1 .. Len(q) : q[i] \in Edge
    BY <2>0, <1>a, Zenon
  <2> QED
    BY <2>1, <2>2, <1>b, Zenon
<1> HIDE DEF first, rest
<1>6. Len(first) <= READ_MAX /\ Len(rest) <= FIFO_SIZE
  BY <1>1, <1>2, <1>3, <1>4, <1>5, GpioAssumption
<1> QED
  BY <1>4, <1>5, <1>6 DEF first, rest

\* The reads: long presses, edges, nothing, or a failure.
LEMMA ReadStep ==
  ASSUME GpioInv, SendLongPresses \/ ReadEdges \/ ReadsNothing \/ ReadFails
  PROVE  GpioInv'
<1>1. GpioTypeOK /\ NothingLeftBehind
  BY DEF GpioInv
<1>2. PICK due \in SUBSET Button :
        /\ handle_long_press_timer_locked(due)
        /\ \/ due # {} /\ UNCHANGED <<fifo, batch, calls>>
           \/ due = {} /\ (ReadEdges \/ ReadsNothing \/ ReadFails)
  BY DEF SendLongPresses, ReadEdges, ReadsNothing, ReadFails
<1>3. /\ ButtonsTypeOK' /\ TimerRunsIffWaiting' /\ OneEventPerHold'
      /\ g_pending' \in Seq(Event) /\ Len(g_pending') <= MAX_PENDING_EVENTS
      /\ due = {} => g_pending' = <<>>
  BY <1>2, LongPressStep
<1>4. batch = <<>> /\ calls \in 1 .. 2
  BY <1>1, <1>2 DEF handle_long_press_timer_locked, InCallback, GpioTypeOK
<1>5. /\ fifo' \in Seq(Edge) /\ Len(fifo') <= FIFO_SIZE
      /\ batch' \in Seq(Edge) /\ Len(batch') <= READ_MAX
      /\ batch' # <<>> => g_pending' = <<>>
      /\ calls' \in 0 .. 2 /\ (calls' = 0 => batch' = <<>> /\ g_pending' = <<>>)
  <2>1. CASE due # {}
    <3>1. fifo' = fifo /\ batch' = <<>> /\ batch' = batch /\ calls' = calls
      BY <1>2, <1>4, <2>1
    <3>2. calls' \in 0 .. 2 /\ calls' # 0
      BY <1>4, <3>1
    <3> QED
      BY <1>1, <3>1, <3>2 DEF GpioTypeOK
  <2>2. CASE due = {} /\ ReadEdges
    <3>1. PICK n : /\ n = Min({READ_MAX, Len(fifo)})
                   /\ batch' = SubSeq(fifo, 1, n) /\ fifo' = SubSeq(fifo, n + 1, Len(fifo))
      BY <2>2 DEF ReadEdges
    <3>2. /\ batch' \in Seq(Edge) /\ Len(batch') <= READ_MAX
          /\ fifo' \in Seq(Edge) /\ Len(fifo') <= FIFO_SIZE
      BY <1>1, <3>1, ReadSplit DEF GpioTypeOK
    <3>3. calls' = calls
      BY <2>2 DEF ReadEdges
    <3> QED
      BY <1>3, <1>4, <2>2, <3>2, <3>3
  <2>3. CASE due = {} /\ (ReadsNothing \/ ReadFails)
    <3>1. UNCHANGED <<fifo, batch>> /\ calls' = calls - 1 /\ g_pending' = <<>>
      BY <1>3, <2>3 DEF ReadsNothing, ReadFails
    <3> QED
      BY <1>1, <1>3, <1>4, <2>3, <3>1 DEF GpioTypeOK
  <2> QED
    BY <1>2, <2>1, <2>2, <2>3
<1>6. GpioTypeOK'
  BY <1>3, <1>5 DEF GpioTypeOK, ButtonsTypeOK
<1>7. QueueHasRoom'
  <2>1. Len(g_pending') \in Nat /\ Len(batch') \in Nat
    BY <1>3, <1>5, LenProperties
  <2>2. CASE batch' = <<>>
    BY <1>3, <2>1, <2>2, GpioAssumption DEF QueueHasRoom
  <2>3. CASE g_pending' = <<>>
    BY <1>5, <2>1, <2>3, GpioAssumption DEF QueueHasRoom
  <2> QED
    BY <1>5, <2>2, <2>3
<1> QED
  BY <1>3, <1>5, <1>6, <1>7 DEF GpioInv, NothingLeftBehind, InCallback

\* uloop starts a callback, or a button sends an edge to the kernel.
LEMMA OutsideStep ==
  ASSUME GpioInv, gpio_fd_cb \/ \E b \in Button : ButtonMoves(b)
  PROVE  GpioInv'
<1> USE DEF GpioInv
<1>1. CASE gpio_fd_cb
  BY <1>1 DEF gpio_fd_cb, InCallback, buttonState, GpioTypeOK, TimerRunsIffWaiting, Waiting, WaitingIn,
              NothingLeftBehind, OneEventPerHold, QueueHasRoom
<1>2. ASSUME NEW b \in Button, ButtonMoves(b)
      PROVE  GpioInv'
  <2>1. down' \in [Button -> BOOLEAN]
    BY <1>2 DEF ButtonMoves, GpioTypeOK
  <2>2. [line |-> b, press |-> down'[b], age |-> 0] \in Edge
    BY <2>1, GpioAssumption DEF Edge
  <2>3. fifo' \in Seq(Edge) /\ Len(fifo') = Len(fifo) + 1
    BY <1>2, <2>2, AppendProperties DEF ButtonMoves, GpioTypeOK
  <2>4. Len(fifo) \in Nat
    BY LenProperties DEF GpioTypeOK
  <2>5. fifo' \in Seq(Edge) /\ Len(fifo') <= FIFO_SIZE
    BY <1>2, <2>3, <2>4, GpioAssumption DEF ButtonMoves
  <2>6. UNCHANGED <<g_use_soft_debounce, batch, buttonState, g_pending, calls, told>>
    BY <1>2 DEF ButtonMoves
  <2>7. GpioTypeOK'
    BY <2>1, <2>5, <2>6 DEF GpioTypeOK, buttonState
  <2> QED
    BY <2>6, <2>7 DEF buttonState, TimerRunsIffWaiting, Waiting, WaitingIn, NothingLeftBehind,
                      InCallback, OneEventPerHold, QueueHasRoom
<1> QED
  BY <1>1, <1>2

\* Edges that wait grow older and keep their order.
LEMMA OlderEdges ==
  ASSUME NEW q \in Seq(Edge), AllYoung(q)
  PROVE  Older(q) \in Seq(Edge) /\ Len(Older(q)) = Len(q)
<1>1. Len(q) \in Nat /\ DOMAIN q = 1 .. Len(q)
  BY LenProperties
<1>2. ASSUME NEW i \in 1 .. Len(q)
      PROVE  [q[i] EXCEPT !.age = @ + 1] \in Edge
  <2>1. q[i] \in Edge
    BY ElementOfSeq
  <2>2. q[i].age < MAX_LATE
    BY <1>1 DEF AllYoung
  <2>3. q[i].age + 1 \in 0 .. MAX_LATE
    BY <2>1, <2>2, GpioAssumption DEF Edge
  <2> QED
    BY <2>1, <2>3 DEF Edge
<1>3. Older(q) = [i \in 1 .. Len(q) |-> [q[i] EXCEPT !.age = @ + 1]]
  BY <1>1 DEF Older
<1>4. Older(q) \in [1 .. Len(q) -> Edge]
  BY <1>2, <1>3
<1>5. Older(q) \in Seq(Edge)
  BY <1>1, <1>4, SeqDef
<1>6. DOMAIN Older(q) = 1 .. Len(q) /\ Len(Older(q)) \in Nat /\ DOMAIN Older(q) = 1 .. Len(Older(q))
  BY <1>4, <1>5, LenProperties
<1> QED
  BY <1>1, <1>5, <1>6

\* Time passes: a timer that runs goes on running, down to 0.
LEMMA TickStep ==
  ASSUME GpioInv, Tick
  PROVE  GpioInv'
<1> USE DEF GpioInv
<1>1. GpioTypeOK
  OBVIOUS
<1>2. fifo' \in Seq(Edge) /\ Len(fifo') = Len(fifo) /\ batch' \in Seq(Edge) /\ Len(batch') = Len(batch)
  BY <1>1, OlderEdges DEF Tick, GpioTypeOK
<1>3. press_age' \in [Button -> 0 .. AGE_MAX] /\ edge_age' \in [Button -> 0 .. AGE_MAX]
  <2>1. \A age \in 0 .. AGE_MAX : OneOlder(age) \in 0 .. AGE_MAX
    BY GpioAssumption DEF OneOlder, AGE_MAX
  <2> QED
    BY <1>1, <2>1 DEF Tick, GpioTypeOK
<1>4. g_timer' \in {Off} \cup 0 .. GPIO_LONG_PRESS /\ (g_timer' = Off <=> g_timer = Off)
  BY <1>1, GpioAssumption DEF Tick, GpioTypeOK, Off
<1>5. UNCHANGED <<g_use_soft_debounce, down, g_pressed, g_long_sent, g_pending, calls, told>>
  BY DEF Tick
<1>6. GpioTypeOK'
  BY <1>1, <1>2, <1>3, <1>4, <1>5 DEF GpioTypeOK
<1>7. TimerRunsIffWaiting'
  BY <1>4, <1>5 DEF TimerRunsIffWaiting, Waiting, WaitingIn
<1>8. NothingLeftBehind'
  <2>1. batch = <<>> => batch' = <<>>
    BY <1>1, <1>2, EmptySeq DEF GpioTypeOK
  <2> QED
    BY <1>5, <2>1 DEF NothingLeftBehind, InCallback
<1>9. OneEventPerHold' /\ QueueHasRoom'
  BY <1>2, <1>5 DEF OneEventPerHold, QueueHasRoom
<1> QED
  BY <1>6, <1>7, <1>8, <1>9

----------------------------------------------------------------------------
(* The theorems *)

LEMMA GpioInit ==
  ASSUME Init
  PROVE  GpioInv
<1>1. AGE_MAX \in 0 .. AGE_MAX
  BY GpioAssumption DEF AGE_MAX
<1>2. /\ down \in [Button -> BOOLEAN] /\ g_pressed \in [Button -> BOOLEAN]
      /\ g_long_sent \in [Button -> BOOLEAN]
      /\ press_age \in [Button -> 0 .. AGE_MAX] /\ edge_age \in [Button -> 0 .. AGE_MAX]
      /\ told \in [Button -> 0 .. 2]
  BY <1>1 DEF Init
<1>3. /\ fifo \in Seq(Edge) /\ Len(fifo) = 0 /\ batch \in Seq(Edge) /\ Len(batch) = 0
      /\ g_pending \in Seq(Event) /\ Len(g_pending) = 0
  BY EmptySeq DEF Init
<1>4. GpioTypeOK
  BY <1>2, <1>3, GpioAssumption DEF Init, GpioTypeOK
<1>5. TimerRunsIffWaiting
  BY DEF Init, TimerRunsIffWaiting, Waiting, WaitingIn
<1>6. NothingLeftBehind /\ OneEventPerHold
  BY DEF Init, NothingLeftBehind, InCallback, OneEventPerHold
<1>7. QueueHasRoom
  BY <1>3, GpioAssumption DEF QueueHasRoom
<1> QED
  BY <1>4, <1>5, <1>6, <1>7 DEF GpioInv

LEMMA GpioStep ==
  ASSUME GpioInv, [Next]_vars
  PROVE  GpioInv'
<1>1. CASE pending_pop
  BY <1>1, PopStep
<1>2. CASE SendLongPresses \/ ReadEdges \/ ReadsNothing \/ ReadFails
  BY <1>2, ReadStep
<1>3. CASE process_edge_event
  BY <1>3, EdgeStep
<1>4. CASE gpio_fd_cb \/ \E b \in Button : ButtonMoves(b)
  BY <1>4, OutsideStep
<1>5. CASE Tick
  BY <1>5, TickStep
<1>6. CASE UNCHANGED vars
  BY <1>6 DEF vars, buttonState, GpioInv, GpioTypeOK, TimerRunsIffWaiting, Waiting, WaitingIn,
              NothingLeftBehind, InCallback, OneEventPerHold, QueueHasRoom
<1> QED
  BY <1>1, <1>2, <1>3, <1>4, <1>5, <1>6 DEF Next

LEMMA GpioInvInductive == GpioSafety => []GpioInv
<1>1. Init => GpioInv
  BY GpioInit
<1>2. GpioInv /\ [Next]_vars => GpioInv'
  BY GpioStep
<1> QED
  BY <1>1, <1>2, PTL DEF GpioSafety

\* The state of the buttons, the queues and the timer stay in their ranges.
THEOREM GpioTypeCorrect == GpioSafety => []GpioTypeOK
<1>1. GpioInv => GpioTypeOK
  BY DEF GpioInv
<1> QED
  BY <1>1, GpioInvInductive, PTL

\* The shared timer is right after every edge, long press and tick.
THEOREM TimerFollowsButtons == GpioSafety => []TimerRunsIffWaiting
<1>1. GpioInv => TimerRunsIffWaiting
  BY DEF GpioInv
<1> QED
  BY <1>1, GpioInvInductive, PTL

\* gpio_fd_cb never returns to uloop with an event or an edge in its hands.
THEOREM CallbackDrains == GpioSafety => []NothingLeftBehind
<1>1. GpioInv => NothingLeftBehind
  BY DEF GpioInv
<1> QED
  BY <1>1, GpioInvInductive, PTL

\* A hold of a button, from one accepted press to the next, is told to the user
\* interface exactly once (process_edge_event and the long-press timer).
THEOREM HoldsAreToldOnce == GpioSafety => []OneEventPerHold
<1>1. GpioInv => OneEventPerHold
  BY DEF GpioInv
<1> QED
  BY <1>1, GpioInvInductive, PTL

\* A step that leaves the queue alone, adds to it with room to spare or fills it
\* while it is empty overwrites nothing.
LEMMA QueueKeeps ==
  ASSUME NEW q \in Seq(Event), NEW r \in Seq(Event),
         r = q \/ q = <<>> \/ \E x \in Event : r = Append(q, x)
  PROVE  Len(r) >= Len(q) /\ SubSeq(r, 1, Len(q)) = q
<1>1. Len(q) \in Nat /\ Len(r) \in Nat
  BY LenProperties
<1>2. CASE r = q
  BY <1>1, <1>2, SubSeqFull
<1>3. CASE q = <<>>
  <2>1. Len(q) = 0
    BY <1>3
  <2>2. SubSeq(r, 1, 0) = <<>>
    BY SubSeqEmpty
  <2> QED
    BY <1>1, <1>3, <2>1, <2>2
<1>4. ASSUME NEW x \in Event, r = Append(q, x)
      PROVE  Len(r) >= Len(q) /\ SubSeq(r, 1, Len(q)) = q
  <2>1. r = q \o <<x>> /\ <<x>> \in Seq(Event)
    BY <1>4, AppendIsConcat
  <2>2. SubSeq(r, 1, Len(q)) = SubSeq(q, 1, Len(q))
    BY <1>1, <2>1, SubSeqOfConcat1
  <2>3. Len(r) = Len(q) + 1
    BY <1>4, AppendProperties
  <2> QED
    BY <1>1, <2>2, <2>3, SubSeqFull
<1> QED
  BY <1>2, <1>3, <1>4

\* No event is lost to a full queue: pending_push never finds it full.
THEOREM NothingOverwritten == GpioSafety => NoEventOverwritten
<1> DEFINE Keeps == \/ g_pending # <<>> /\ g_pending' = Tail(g_pending)
                    \/ Len(g_pending') >= Len(g_pending)
                       /\ SubSeq(g_pending', 1, Len(g_pending)) = g_pending
<1>1. ASSUME GpioInv, GpioInv', [Next]_vars
      PROVE  [Keeps]_vars
  <2>1. g_pending \in Seq(Event) /\ g_pending' \in Seq(Event)
    BY <1>1 DEF GpioInv, GpioTypeOK
  <2>2. CASE pending_pop
    BY <2>2 DEF pending_pop
  <2>3. CASE SendLongPresses \/ ReadEdges \/ ReadsNothing \/ ReadFails
    <3>1. g_pending = <<>>
      BY <2>3 DEF SendLongPresses, ReadEdges, ReadsNothing, ReadFails, handle_long_press_timer_locked
    <3> QED
      BY <2>1, <3>1, QueueKeeps
  <2>4. CASE process_edge_event
    <3>1. Len(g_pending) < MAX_PENDING_EVENTS
      <4>1. Len(batch) \in Nat \ {0} /\ Len(g_pending) \in Nat
        BY <1>1, <2>1, <2>4, EmptySeq, LenProperties DEF process_edge_event, GpioInv, GpioTypeOK
      <4> QED
        BY <1>1, <4>1, GpioAssumption DEF GpioInv, QueueHasRoom
    <3>2. [line |-> Head(batch).line, long |-> FALSE] \in Event
      <4>1. Head(batch) \in Edge
        BY <1>1, <2>4, HeadTailProperties DEF process_edge_event, GpioInv, GpioTypeOK
      <4> QED
        BY <4>1 DEF Edge, Event
    <3>3. \/ g_pending' = g_pending
          \/ g_pending' = pending_push(g_pending, [line |-> Head(batch).line, long |-> FALSE])
      BY <2>4 DEF process_edge_event, EdgeIgnored, ButtonPressed, ButtonReleased, ReleaseUnmatched
    <3>4. g_pending' = g_pending \/ \E x \in Event : g_pending' = Append(g_pending, x)
      BY <2>1, <3>1, <3>2, <3>3, PushOne
    <3> QED
      BY <2>1, <3>4, QueueKeeps
  <2>5. CASE gpio_fd_cb \/ (\E b \in Button : ButtonMoves(b)) \/ Tick \/ UNCHANGED vars
    <3>1. g_pending' = g_pending
      BY <2>5 DEF gpio_fd_cb, ButtonMoves, Tick, vars
    <3> QED
      BY <2>1, <3>1, QueueKeeps
  <2> QED
    BY <1>1, <2>2, <2>3, <2>4, <2>5 DEF Next
<1> HIDE DEF Keeps
<1>2. GpioSafety => [][Keeps]_vars
  BY <1>1, GpioInvInductive, PTL DEF GpioSafety
<1> QED
  BY <1>2 DEF NoEventOverwritten, Keeps

----------------------------------------------------------------------------
(* Short presses *)

\* While uloop is in time, no edge that is still in the batch ends a hold of
\* GPIO_LONG_PRESS that has not been told yet: the timer was looked at before the batch was
\* read, and what passes since makes the hold and the edge older alike.
ShortHolds ==
  MAX_LATE < GPIO_LONG_PRESS =>
    \A b \in Waiting, i \in 1 .. Len(batch) : press_age[b] - batch[i].age < GPIO_LONG_PRESS

\* Looking at the timer leaves nobody waiting who is due.
LEMMA HoldsWhenRead ==
  ASSUME GpioInv, GpioInv', ShortHolds, SendLongPresses \/ ReadEdges \/ ReadsNothing \/ ReadFails
  PROVE  ShortHolds'
<1>1. batch = <<>> /\ batch' \in Seq(Edge)
  BY DEF SendLongPresses, ReadEdges, ReadsNothing, ReadFails, handle_long_press_timer_locked,
         GpioInv, GpioTypeOK
<1>2. CASE ReadEdges
  <2>1. /\ {} = {b \in Waiting : press_age[b] >= GPIO_LONG_PRESS}
        /\ g_long_sent' = [b \in Button |-> g_long_sent[b] \/ b \in {}]
        /\ press_age' = press_age /\ g_pressed' = g_pressed
    BY <1>2 DEF ReadEdges, handle_long_press_timer_locked
  <2>2. Waiting' = Waiting
    BY <2>1 DEF Waiting, WaitingIn
  <2>3. ASSUME NEW b \in Waiting', NEW i \in 1 .. Len(batch')
        PROVE  press_age'[b] - batch'[i].age < GPIO_LONG_PRESS
    <3>1. b \in Button /\ ~(press_age[b] >= GPIO_LONG_PRESS)
      BY <2>1, <2>2, <2>3 DEF Waiting, WaitingIn
    <3>2. press_age[b] \in Nat
      BY <3>1 DEF GpioInv, GpioTypeOK
    <3>3. batch'[i] \in Edge
      BY <1>1, <2>3, ElementOfSeq
    <3>4. batch'[i].age \in Nat
      BY <3>3 DEF Edge
    <3> QED
      BY <2>1, <3>1, <3>2, <3>4, GpioAssumption
  <2> QED
    BY <2>3 DEF ShortHolds
<1>3. CASE SendLongPresses \/ ReadsNothing \/ ReadFails
  <2>1. batch' = <<>>
    BY <1>1, <1>3 DEF SendLongPresses, ReadsNothing, ReadFails
  <2>2. Len(batch') = 0
    BY <2>1, EmptySeq
  <2> QED
    BY <2>2 DEF ShortHolds
<1> QED
  BY <1>2, <1>3

\* An edge leaves the other holds as they are; a press begins one that is no older than an
\* edge can be.
LEMMA HoldsAtEdge ==
  ASSUME GpioInv, ShortHolds, process_edge_event
  PROVE  ShortHolds'
<1> DEFINE e == Head(batch)
<1>1. /\ batch \in Seq(Edge) /\ batch # <<>> /\ batch' = Tail(batch)
      /\ EdgeIgnored(e) \/ ButtonPressed(e) \/ ButtonReleased(e) \/ ReleaseUnmatched(e)
  BY DEF process_edge_event, GpioInv, GpioTypeOK
<1>2. /\ e \in Edge /\ batch' \in Seq(Edge) /\ Len(batch) \in Nat /\ Len(batch') = Len(batch) - 1
      /\ \A i \in 1 .. Len(batch') : batch'[i] = batch[i + 1]
  BY <1>1, HeadTailProperties, LenProperties
<1>3. e.line \in Button /\ e.age \in 0 .. MAX_LATE
  BY <1>2 DEF Edge
<1> HIDE DEF e
<1>4. GpioTypeOK
  BY DEF GpioInv
<1>5. ASSUME NEW b \in Waiting'
      PROVE  \/ b \in Waiting /\ press_age'[b] = press_age[b]
             \/ press_age'[b] = e.age
  <2>1. b \in Button
    BY <1>5 DEF Waiting, WaitingIn
  <2>2. CASE EdgeIgnored(e) \/ ReleaseUnmatched(e)
    BY <1>5, <2>2 DEF EdgeIgnored, ReleaseUnmatched, buttonState, Waiting, WaitingIn
  <2>3. CASE ButtonPressed(e)
    <3>1. /\ g_pressed' = [g_pressed EXCEPT ![e.line] = TRUE]
          /\ press_age' = [press_age EXCEPT ![e.line] = e.age]
          /\ g_long_sent' = [g_long_sent EXCEPT ![e.line] = FALSE]
      BY <2>3 DEF ButtonPressed
    <3> QED
      BY <1>3, <1>4, <1>5, <2>1, <3>1 DEF Waiting, WaitingIn, GpioTypeOK
  <2>4. CASE ButtonReleased(e)
    <3>1. /\ g_pressed' = [g_pressed EXCEPT ![e.line] = FALSE]
          /\ press_age' = [press_age EXCEPT ![e.line] = AGE_MAX]
          /\ g_long_sent' = [g_long_sent EXCEPT ![e.line] = FALSE]
      BY <2>4 DEF ButtonReleased
    <3>2. b # e.line
      BY <1>3, <1>4, <1>5, <3>1 DEF Waiting, WaitingIn, GpioTypeOK
    <3> QED
      BY <1>3, <1>4, <1>5, <2>1, <3>1, <3>2 DEF Waiting, WaitingIn, GpioTypeOK
  <2> QED
    BY <1>1, <2>2, <2>3, <2>4
<1>6. ASSUME MAX_LATE < GPIO_LONG_PRESS, NEW b \in Waiting', NEW i \in 1 .. Len(batch')
      PROVE  press_age'[b] - batch'[i].age < GPIO_LONG_PRESS
  <2>1. i + 1 \in 1 .. Len(batch) /\ batch'[i] = batch[i + 1]
    BY <1>2, <1>6
  <2>2. batch'[i].age \in 0 .. MAX_LATE
    <3>1. batch'[i] \in Edge
      BY <1>2, <1>6, ElementOfSeq
    <3> QED
      BY <3>1 DEF Edge
  <2>3. CASE b \in Waiting /\ press_age'[b] = press_age[b]
    BY <1>6, <2>1, <2>3 DEF ShortHolds
  <2>4. CASE press_age'[b] = e.age
    BY <1>3, <1>6, <2>2, <2>4, GpioAssumption
  <2> QED
    BY <1>5, <1>6, <2>3, <2>4
<1> QED
  BY <1>6 DEF ShortHolds

\* A tick makes the edges of the batch one tick older, and the holds no more than that.
LEMMA HoldsAtTick ==
  ASSUME GpioInv, ShortHolds, Tick
  PROVE  ShortHolds'
<1>1. /\ batch \in Seq(Edge) /\ press_age \in [Button -> 0 .. AGE_MAX]
      /\ batch' = Older(batch)
      /\ press_age' = [b \in Button |-> OneOlder(press_age[b])]
      /\ g_pressed' = g_pressed /\ g_long_sent' = g_long_sent
  BY DEF Tick, GpioInv, GpioTypeOK
<1>2. Waiting' = Waiting
  BY <1>1 DEF Waiting, WaitingIn
<1>3. DOMAIN batch = 1 .. Len(batch) /\ Len(batch') = Len(batch)
  BY <1>1, LenProperties, OlderEdges DEF Tick
<1>4. ASSUME MAX_LATE < GPIO_LONG_PRESS, NEW b \in Waiting', NEW i \in 1 .. Len(batch')
      PROVE  press_age'[b] - batch'[i].age < GPIO_LONG_PRESS
  <2>1. press_age[b] - batch[i].age < GPIO_LONG_PRESS
    BY <1>2, <1>3, <1>4 DEF ShortHolds
  <2>2. batch[i] \in Edge /\ batch'[i] = [batch[i] EXCEPT !.age = @ + 1]
    BY <1>1, <1>3, <1>4, ElementOfSeq DEF Older
  <2>3. batch[i].age \in Nat /\ batch'[i].age = batch[i].age + 1
    BY <2>2 DEF Edge
  <2>4. b \in Button
    BY <1>4 DEF Waiting, WaitingIn
  <2>5. press_age[b] \in Nat /\ press_age'[b] \in Nat /\ press_age'[b] <= press_age[b] + 1
    BY <1>1, <2>4, GpioAssumption DEF OneOlder, AGE_MAX
  <2> QED
    BY <2>1, <2>3, <2>5, GpioAssumption
<1> QED
  BY <1>4 DEF ShortHolds

\* The holds that wait are short, at every instant at which one of them may end.
LEMMA HoldsStayShort == GpioSafety => [](GpioInv /\ ShortHolds)
<1>1. Init => GpioInv /\ ShortHolds
  <2>1. ASSUME Init PROVE ShortHolds
    <3>1. Len(batch) = 0
      BY <2>1, EmptySeq DEF Init
    <3> QED
      BY <3>1 DEF ShortHolds
  <2> QED
    BY <2>1, GpioInit
<1>2. GpioInv /\ ShortHolds /\ [Next]_vars => (GpioInv /\ ShortHolds)'
  <2> SUFFICES ASSUME GpioInv, ShortHolds, [Next]_vars
               PROVE  GpioInv' /\ ShortHolds'
    OBVIOUS
  <2>1. GpioInv'
    BY GpioStep
  <2>2. CASE SendLongPresses \/ ReadEdges \/ ReadsNothing \/ ReadFails
    BY <2>1, <2>2, HoldsWhenRead
  <2>3. CASE process_edge_event
    BY <2>1, <2>3, HoldsAtEdge
  <2>4. CASE Tick
    BY <2>1, <2>4, HoldsAtTick
  <2>5. CASE pending_pop \/ gpio_fd_cb \/ (\E b \in Button : ButtonMoves(b)) \/ UNCHANGED vars
    <3>1. batch' = batch /\ press_age' = press_age /\ g_pressed' = g_pressed
          /\ g_long_sent' = g_long_sent
      BY <2>5 DEF pending_pop, gpio_fd_cb, ButtonMoves, vars, buttonState
    <3> QED
      BY <2>1, <3>1 DEF ShortHolds, Waiting, WaitingIn
  <2> QED
    BY <2>2, <2>3, <2>4, <2>5 DEF Next
<1> QED
  BY <1>1, <1>2, PTL DEF GpioSafety

\* A release that is told as a short press ends a hold of less than GPIO_LONG_PRESS, if
\* uloop is never late by that much: read_event looks at the timer before it reads edges.
THEOREM ShortIsShort == GpioSafety => ShortPressIsShort
<1> DEFINE Short == MAX_LATE < GPIO_LONG_PRESS =>
                      \A b \in Button :
                        g_pressed[b] /\ ~g_pressed'[b] /\ told'[b] > told[b]
                          => press_age[b] - Head(batch).age < GPIO_LONG_PRESS
<1>1. ASSUME GpioInv, ShortHolds, [Next]_vars
      PROVE  [Short]_vars
  <2> SUFFICES ASSUME MAX_LATE < GPIO_LONG_PRESS, NEW b \in Button,
                      g_pressed[b], ~g_pressed'[b], told'[b] > told[b]
               PROVE  press_age[b] - Head(batch).age < GPIO_LONG_PRESS
    OBVIOUS
  <2>1. GpioTypeOK
    BY <1>1 DEF GpioInv
  <2>2. process_edge_event
    BY <1>1 DEF Next, pending_pop, SendLongPresses, ReadEdges, ReadsNothing, ReadFails,
                handle_long_press_timer_locked, gpio_fd_cb, ButtonMoves, Tick, vars, buttonState
  <2> DEFINE e == Head(batch)
  <2>3. /\ batch \in Seq(Edge) /\ batch # <<>>
        /\ EdgeIgnored(e) \/ ButtonPressed(e) \/ ButtonReleased(e) \/ ReleaseUnmatched(e)
    BY <2>1, <2>2 DEF process_edge_event, GpioTypeOK
  <2>4. e \in Edge /\ e = batch[1] /\ 1 \in 1 .. Len(batch)
    <3>1. Len(batch) \in Nat \ {0}
      BY <2>3, EmptySeq, LenProperties
    <3> QED
      BY <2>3, <3>1, HeadTailProperties
  <2>5. e.line \in Button
    BY <2>4 DEF Edge
  <2> HIDE DEF e
  <2>6. ButtonReleased(e) /\ b = e.line
    BY <2>1, <2>3, <2>5 DEF EdgeIgnored, ButtonPressed, ButtonReleased, ReleaseUnmatched, buttonState,
                            GpioTypeOK
  <2>7. ~g_long_sent[b]
    <3>1. g_long_sent[b] => told' = told
      BY <2>6 DEF ButtonReleased
    <3>2. told[b] \in 0 .. 2
      BY <2>1 DEF GpioTypeOK
    <3>3. told' # told
      BY <3>2
    <3> QED
      BY <3>1, <3>3
  <2>8. b \in Waiting
    BY <2>7 DEF Waiting, WaitingIn
  <2>9. press_age[b] - batch[1].age < GPIO_LONG_PRESS
    BY <1>1, <2>4, <2>8 DEF ShortHolds
  <2> QED
    BY <2>4, <2>9 DEF e
<1> HIDE DEF Short
<1>2. GpioSafety => [][Short]_vars
  BY <1>1, HoldsStayShort, PTL DEF GpioSafety
<1> QED
  BY <1>2 DEF ShortPressIsShort, Short
=============================================================================
