------------------------ MODULE ThreadedQueuesProofs ------------------------
(***************************************************************************)
(* Proofs about the queues of the threaded daemon.  First RingQueue: the    *)
(* ring buffer implements the bounded queue for every capacity, every set   *)
(* of items and every way to merge them.  Then ThreadedStatus, two threads  *)
(* over two such queues, for every number of services and both capacities:  *)
(* no answer is refused, and a service that waits has its number on the     *)
(* way.  The two have no name in common.                                    *)
(***************************************************************************)
EXTENDS RingQueue, ThreadedStatus, SequenceTheorems, FiniteSetTheorems, WellFoundedInduction,
        TLAPS

----------------------------------------------------------------------------
(* RingQueue *)

\* The refinement needs to know that the count slots from head on hold items
\* and that tail is the slot after them; both need the types.
RingInv == RingTypeOK /\ HeldAreItems

\* The part of it that speaks of the buffer alone.
RingShape ==
  /\ buffer \in [Index -> Item \cup {Junk}]
  /\ head \in Index /\ tail \in Index /\ count \in 0 .. CAPACITY
  /\ HeldAreItems

USE RingAssumption DEF RingAssumption

\* The index arithmetic of the file, for h < CAPACITY and i <= CAPACITY.
LEMMA WrapsOnce ==
  ASSUME NEW h \in Index, NEW i \in 0 .. CAPACITY
  PROVE  /\ h + i < CAPACITY => (h + i) % CAPACITY = h + i
         /\ h + i >= CAPACITY => (h + i) % CAPACITY = h + i - CAPACITY
         /\ (h + i) % CAPACITY \in Index
<1>1. CASE h + i < CAPACITY
  BY <1>1 DEF Index
<1>2. CASE h + i >= CAPACITY
  <2> DEFINE r == h + i - CAPACITY
  <2>1. r \in Nat /\ r < CAPACITY /\ h + i = 1 * CAPACITY + r
    BY <1>2 DEF Index
  <2>2. (h + i) % CAPACITY = r
    BY <2>1
  <2>3. QED
    BY <1>2, <2>1, <2>2 DEF Index
<1>3. QED
  BY <1>1, <1>2 DEF Index

\* Different places lie in different slots.
LEMMA PlacesDiffer ==
  ASSUME NEW h \in Index, NEW i \in 0 .. CAPACITY - 1, NEW j \in 0 .. CAPACITY - 1,
         (h + i) % CAPACITY = (h + j) % CAPACITY
  PROVE  i = j
<1>1. /\ h + i < CAPACITY => (h + i) % CAPACITY = h + i
      /\ h + i >= CAPACITY => (h + i) % CAPACITY = h + i - CAPACITY
  BY WrapsOnce
<1>2. /\ h + j < CAPACITY => (h + j) % CAPACITY = h + j
      /\ h + j >= CAPACITY => (h + j) % CAPACITY = h + j - CAPACITY
  BY WrapsOnce
<1>3. QED
  BY <1>1, <1>2 DEF Index

\* One step on and then k is k + 1 steps on.
LEMMA StepsAdd ==
  ASSUME NEW h \in Index, NEW k \in 0 .. CAPACITY - 1
  PROVE  (((h + 1) % CAPACITY) + k) % CAPACITY = (h + (k + 1)) % CAPACITY
<1> DEFINE g == (h + 1) % CAPACITY
<1>1. /\ h \in Nat /\ k \in Nat /\ k \in 0 .. CAPACITY /\ k + 1 \in 0 .. CAPACITY
      /\ 1 \in 0 .. CAPACITY /\ h < CAPACITY
  BY DEF Index
<1>2. /\ h + 1 < CAPACITY => g = h + 1
      /\ h + 1 >= CAPACITY => g = h + 1 - CAPACITY
      /\ g \in Index
  BY <1>1, WrapsOnce
<1>3. /\ h + (k + 1) < CAPACITY => (h + (k + 1)) % CAPACITY = h + (k + 1)
      /\ h + (k + 1) >= CAPACITY => (h + (k + 1)) % CAPACITY = h + (k + 1) - CAPACITY
  BY <1>1, WrapsOnce
<1> HIDE DEF g
<1>4. /\ g + k < CAPACITY => (g + k) % CAPACITY = g + k
      /\ g + k >= CAPACITY => (g + k) % CAPACITY = g + k - CAPACITY
  BY <1>1, <1>2, WrapsOnce
<1>5. (g + k) % CAPACITY = (h + (k + 1)) % CAPACITY
  BY <1>1, <1>2, <1>3, <1>4 DEF Index
<1>6. QED
  BY <1>5 DEF g

\* The places of the buffer are slots, and different places different ones.
LEMMA Places ==
  ASSUME RingShape
  PROVE  /\ \A i \in 0 .. CAPACITY : At(i) \in Index
         /\ \A i, j \in 0 .. CAPACITY - 1 : At(i) = At(j) => i = j
BY WrapsOnce, PlacesDiffer DEF RingShape, At

\* To its users the buffer is a sequence of count items.
LEMMA ContentsAre ==
  RingShape => /\ Contents \in Seq(Item) /\ Len(Contents) = count
               /\ \A i \in 1 .. count : Contents[i] = buffer[At(i - 1)]
<1> SUFFICES ASSUME RingShape
             PROVE  /\ Contents \in Seq(Item) /\ Len(Contents) = count
                    /\ \A i \in 1 .. count : Contents[i] = buffer[At(i - 1)]
  OBVIOUS
<1>1. \A i \in 1 .. count : buffer[At(i - 1)] \in Item
  BY DEF RingShape, HeldAreItems
<1>2. QED
  BY <1>1 DEF Contents, RingShape

\* Both specifications mean the same items.
LEMMA SameItems == ASSUME RingShape PROVE Held = Queue!Held
<1>1. /\ Len(Contents) = count /\ count \in Nat
      /\ \A k \in 1 .. count : Contents[k] = buffer[At(k - 1)]
  BY ContentsAre DEF RingShape
<1>2. \A x : x \in Held => x \in Queue!Held
  <2> TAKE x
  <2> HAVE x \in Held
  <2>1. PICK k \in 0 .. count - 1 : x = buffer[At(k)]
    BY DEF Held
  <2>2. k + 1 \in 1 .. Len(Contents) /\ x = Contents[k + 1]
    <3>1. k + 1 \in 1 .. count /\ (k + 1) - 1 = k
      BY <1>1
    <3>2. QED
      BY <1>1, <2>1, <3>1
  <2>3. QED
    BY <2>2 DEF Queue!Held
<1>3. \A x : x \in Queue!Held => x \in Held
  <2> TAKE x
  <2> HAVE x \in Queue!Held
  <2>1. PICK k \in 1 .. Len(Contents) : x = Contents[k]
    BY DEF Queue!Held
  <2>2. k - 1 \in 0 .. count - 1 /\ x = buffer[At(k - 1)]
    BY <1>1, <2>1
  <2>3. QED
    BY <2>2 DEF Held
<1>4. QED
  BY <1>2, <1>3

\* What a search finds first in the buffer it finds first in the sequence.
LEMMA SameSearch ==
  ASSUME RingShape, NEW P, NEW i \in 0 .. count - 1, First(i, P)
  PROVE  /\ i + 1 \in 1 .. Len(Contents) /\ Contents[i + 1] = buffer[At(i)]
         /\ Queue!First(i + 1, P)
<1>1. /\ Len(Contents) = count /\ count \in Nat
      /\ \A k \in 1 .. count : Contents[k] = buffer[At(k - 1)]
  BY ContentsAre DEF RingShape
<1>2. i + 1 \in 1 .. count /\ (i + 1) - 1 = i
  BY <1>1
<1>3. Contents[i + 1] = buffer[At(i)]
  BY <1>1, <1>2
<1>4. ASSUME NEW j \in 1 .. (i + 1) - 1 PROVE Contents[j] \notin P
  <2>1. j - 1 \in 0 .. i - 1 /\ j \in 1 .. count
    BY <1>1
  <2>2. buffer[At(j - 1)] \notin P
    BY <2>1 DEF First
  <2>3. QED
    BY <1>1, <2>1, <2>2
<1>5. QED
  BY <1>1, <1>2, <1>3, <1>4 DEF First, Queue!First

----------------------------------------------------------------------------
(* What the operations do to the contents *)

\* Indices of a sequence count from 1, places in the buffer from 0.
LEMMA OneBefore ==
  ASSUME NEW n \in Nat, NEW i \in 1 .. n
  PROVE  i - 1 \in 0 .. n - 1 /\ (i - 1) + 1 = i
OBVIOUS

\* If the new buffer keeps its shape and holds the items of s, its contents are s.
LEMMA NewContents ==
  ASSUME RingShape', NEW s \in Seq(Item), Len(s) = count',
         \A k \in 0 .. count' - 1 : (buffer[At(k)])' = s[k + 1]
  PROVE  Contents' = s
<1>1. (/\ Contents \in Seq(Item) /\ Len(Contents) = count
       /\ \A i \in 1 .. count : Contents[i] = buffer[At(i - 1)])'
  BY ContentsAre, PTL
<1>2. ASSUME NEW i \in 1 .. Len(s) PROVE Contents'[i] = s[i]
  <2>1. i - 1 \in 0 .. count' - 1 /\ (i - 1) + 1 = i
    <3>1. count' \in Nat /\ i \in 1 .. count'
      BY DEF RingShape
    <3>2. QED
      BY <3>1, OneBefore
  <2>2. (buffer[At(i - 1)])' = s[(i - 1) + 1]
    BY <2>1
  <2>3. QED
    BY <1>1, <2>1, <2>2
<1>3. QED
  BY <1>1, <1>2, SeqEqual

\* A new item in the slot behind the last one.
LEMMA Appends ==
  ASSUME RingShape, NEW x \in Item, count # CAPACITY,
         buffer' = [buffer EXCEPT ![tail] = x],
         tail' = (tail + 1) % CAPACITY, count' = count + 1, head' = head
  PROVE  RingShape' /\ Contents' = Append(Contents, x)
<1>1. /\ head \in Index /\ tail \in Index /\ count \in 0 .. CAPACITY - 1 /\ tail = At(count)
      /\ buffer \in [Index -> Item \cup {Junk}] /\ CAPACITY \in Nat \ {0}
      /\ 1 \in 0 .. CAPACITY /\ count + 1 \in 0 .. CAPACITY
  BY DEF RingShape, HeldAreItems
<1>2. buffer' \in [Index -> Item \cup {Junk}]
  BY <1>1
<1>3. \A k \in Int : (At(k))' = At(k)
  BY DEF At
<1>4. tail' \in Index
  BY <1>1, WrapsOnce
<1>5. tail' = (At(count))'
  <2>1. /\ head + (count + 1) < CAPACITY => (head + (count + 1)) % CAPACITY = head + (count + 1)
        /\ head + (count + 1) >= CAPACITY =>
              (head + (count + 1)) % CAPACITY = head + (count + 1) - CAPACITY
    BY <1>1, WrapsOnce
  <2>2. /\ head + count < CAPACITY => tail = head + count
        /\ head + count >= CAPACITY => tail = head + count - CAPACITY
    BY <1>1, WrapsOnce DEF At
  <2>3. /\ tail + 1 < CAPACITY => (tail + 1) % CAPACITY = tail + 1
        /\ tail + 1 >= CAPACITY => (tail + 1) % CAPACITY = tail + 1 - CAPACITY
    BY <1>1, WrapsOnce
  <2>4. (tail + 1) % CAPACITY = (head + (count + 1)) % CAPACITY
    <3>1. head \in 0 .. CAPACITY - 1 /\ count \in 0 .. CAPACITY - 1 /\ CAPACITY \in Nat \ {0}
      BY <1>1 DEF Index
    <3>2. CASE head + count < CAPACITY
      BY <3>1, <3>2, <2>1, <2>2, <2>3
    <3>3. CASE head + count >= CAPACITY
      BY <3>1, <3>3, <2>1, <2>2, <2>3
    <3>4. QED
      BY <3>1, <3>2, <3>3
  <2>5. (At(count))' = (head + (count + 1)) % CAPACITY
    BY DEF At
  <2>6. QED
    BY <2>4, <2>5
<1>6. ASSUME NEW k \in 0 .. count - 1
      PROVE  buffer'[At(k)] = buffer[At(k)] /\ buffer[At(k)] \in Item
  <2>1. /\ k \in 0 .. CAPACITY - 1 /\ k \in 0 .. CAPACITY /\ count \in 0 .. CAPACITY - 1
        /\ k # count
    BY <1>1
  <2>2. At(k) \in Index /\ At(k) # tail
    BY <1>1, <2>1, Places
  <2>3. QED
    BY <1>1, <2>2 DEF RingShape, HeldAreItems
<1>7. buffer'[At(count)] = x
  BY <1>1
<1>8. RingShape'
  <2>1. ASSUME NEW k \in 0 .. count' - 1 PROVE (buffer[At(k)])' \in Item
    <3>1. (buffer[At(k)])' = buffer'[At(k)] /\ (k \in 0 .. count - 1 \/ k = count)
      BY <1>1, <1>3
    <3>2. QED
      BY <1>6, <1>7, <3>1
  <2>2. QED
    BY <1>1, <1>2, <1>4, <1>5, <2>1 DEF RingShape, HeldAreItems
<1>9. Contents' = Append(Contents, x)
  <2>1. /\ Contents \in Seq(Item) /\ Len(Contents) = count
        /\ \A i \in 1 .. count : Contents[i] = buffer[At(i - 1)]
    BY ContentsAre
  <2>2. /\ Append(Contents, x) \in Seq(Item) /\ Len(Append(Contents, x)) = count + 1
        /\ \A i \in 1 .. count : Append(Contents, x)[i] = Contents[i]
        /\ Append(Contents, x)[count + 1] = x
    BY <2>1, AppendProperties
  <2>3. ASSUME NEW k \in 0 .. count' - 1
        PROVE  (buffer[At(k)])' = Append(Contents, x)[k + 1]
    <3>1. k \in Int /\ (buffer[At(k)])' = buffer'[At(k)]
      BY <1>3
    <3>2. CASE k = count
      BY <1>7, <2>2, <3>1, <3>2
    <3>3. CASE k # count
      <4>1. k \in 0 .. count - 1 /\ k + 1 \in 1 .. count /\ (k + 1) - 1 = k
        BY <1>1, <3>3
      <4>2. buffer'[At(k)] = Contents[k + 1]
        BY <1>6, <2>1, <4>1
      <4>3. QED
        BY <2>2, <3>1, <4>1, <4>2
    <3>4. QED
      BY <3>2, <3>3
  <2>4. QED
    BY <1>8, <2>2, <2>3, NewContents
<1>10. QED
  BY <1>8, <1>9

\* The oldest item leaves.
LEMMA Pops ==
  ASSUME RingShape, count # 0,
         head' = (head + 1) % CAPACITY, count' = count - 1, tail' = tail, buffer' = buffer
  PROVE  /\ RingShape' /\ Contents' = Tail(Contents)
         /\ Contents # <<>> /\ Head(Contents) = buffer[head] /\ buffer[head] \in Item
<1>1. /\ head \in Index /\ tail \in Index /\ count \in 1 .. CAPACITY /\ tail = At(count)
      /\ CAPACITY \in Nat \ {0} /\ 1 \in 0 .. CAPACITY
  BY DEF RingShape, HeldAreItems
<1>2. head' \in Index
  BY <1>1, WrapsOnce
<1>3. ASSUME NEW k \in 0 .. count - 1 PROVE (At(k))' = At(k + 1)
  <2>1. k \in 0 .. CAPACITY - 1
    BY <1>1
  <2>2. (head' + k) % CAPACITY = (head + (k + 1)) % CAPACITY
    BY <1>1, <2>1, StepsAdd
  <2>3. QED
    BY <2>2 DEF At
<1>4. RingShape'
  <2>1. ASSUME NEW k \in 0 .. count' - 1 PROVE (buffer[At(k)])' \in Item
    <3>1. k \in 0 .. count - 1 /\ k + 1 \in 0 .. count - 1
      BY <1>1
    <3>2. QED
      BY <1>3, <3>1 DEF RingShape, HeldAreItems
  <2>2. tail' = (At(count))'
    <3>1. count - 1 \in 0 .. count - 1 /\ (count - 1) + 1 = count
      BY <1>1
    <3>2. (head' + (count - 1)) % CAPACITY = At(count)
      BY <1>3, <3>1 DEF At
    <3>3. QED
      BY <1>1, <3>2 DEF At
  <2>3. QED
    BY <1>1, <1>2, <2>1, <2>2 DEF RingShape, HeldAreItems
<1>5. /\ Contents \in Seq(Item) /\ Len(Contents) = count
      /\ \A i \in 1 .. count : Contents[i] = buffer[At(i - 1)]
  BY ContentsAre
<1>6. Contents # <<>>
  BY <1>1, <1>5, EmptySeq
<1>7. /\ Tail(Contents) \in Seq(Item) /\ Len(Tail(Contents)) = count - 1
      /\ \A i \in 1 .. count - 1 : Tail(Contents)[i] = Contents[i + 1]
  BY <1>5, <1>6, HeadTailProperties
<1>8. Contents' = Tail(Contents)
  <2>1. ASSUME NEW k \in 0 .. count' - 1 PROVE (buffer[At(k)])' = Tail(Contents)[k + 1]
    <3>1. /\ k \in 0 .. count - 1 /\ k + 1 \in 1 .. count - 1
          /\ (k + 1) + 1 \in 1 .. count /\ ((k + 1) + 1) - 1 = k + 1
      BY <1>1
    <3>2. (buffer[At(k)])' = buffer[At(k + 1)]
      BY <1>3, <3>1
    <3>3. Tail(Contents)[k + 1] = buffer[At(k + 1)]
      BY <1>5, <1>7, <3>1
    <3>4. QED
      BY <3>2, <3>3
  <2>2. QED
    BY <1>4, <1>7, <2>1, NewContents
<1>9. Head(Contents) = buffer[head] /\ buffer[head] \in Item
  <2>1. At(0) = head
    <3>1. 0 \in 0 .. CAPACITY /\ head + 0 = head /\ head + 0 < CAPACITY
      BY <1>1 DEF Index
    <3>2. QED
      BY <1>1, <3>1, WrapsOnce DEF At
  <2>2. 1 \in 1 .. count /\ 0 \in 0 .. count - 1 /\ 1 - 1 = 0
    BY <1>1
  <2>3. buffer[head] \in Item /\ Contents[1] = buffer[head]
    BY <1>5, <2>1, <2>2 DEF RingShape, HeldAreItems
  <2>4. QED
    BY <1>5, <1>6, <2>3
<1>10. QED
  BY <1>4, <1>6, <1>8, <1>9

\* One item is changed in its place.
LEMMA Changes ==
  ASSUME RingShape, NEW i \in 0 .. count - 1, NEW x \in Item,
         buffer' = [buffer EXCEPT ![At(i)] = x], head' = head, tail' = tail, count' = count
  PROVE  RingShape' /\ Contents' = [Contents EXCEPT ![i + 1] = x]
<1>1. /\ head \in Index /\ count \in 0 .. CAPACITY /\ buffer \in [Index -> Item \cup {Junk}]
      /\ i \in 0 .. CAPACITY - 1 /\ At(i) \in Index /\ CAPACITY \in Nat
  BY Places DEF RingShape
<1>2. \A k \in Int : (At(k))' = At(k)
  BY DEF At
<1>3. ASSUME NEW k \in 0 .. count - 1
      PROVE  buffer'[At(k)] = IF k = i THEN x ELSE buffer[At(k)]
  <2>1. k \in 0 .. CAPACITY - 1 /\ k \in 0 .. CAPACITY
    BY <1>1
  <2>2. At(k) \in Index /\ (At(k) = At(i) => k = i)
    BY <1>1, <2>1, Places
  <2>3. QED
    BY <1>1, <2>2
<1>4. RingShape'
  <2>1. ASSUME NEW k \in 0 .. count' - 1 PROVE (buffer[At(k)])' \in Item
    <3>1. k \in 0 .. count - 1 /\ k \in Int
      BY <1>1
    <3>2. QED
      BY <1>2, <1>3, <3>1 DEF RingShape, HeldAreItems
  <2>2. buffer' \in [Index -> Item \cup {Junk}]
    BY <1>1
  <2>3. tail' = (At(count))'
    BY <1>1, <1>2 DEF RingShape, HeldAreItems
  <2>4. QED
    BY <2>1, <2>2, <2>3 DEF RingShape, HeldAreItems
<1>5. /\ Contents \in Seq(Item) /\ Len(Contents) = count
      /\ \A k \in 1 .. count : Contents[k] = buffer[At(k - 1)]
  BY ContentsAre
<1>6. i + 1 \in 1 .. Len(Contents)
  BY <1>1, <1>5
<1> DEFINE s == [Contents EXCEPT ![i + 1] = x]
<1>7. /\ s \in Seq(Item) /\ Len(s) = count
      /\ \A j \in 1 .. count : s[j] = IF j = i + 1 THEN x ELSE Contents[j]
  BY <1>5, <1>6, ExceptSeq
<1> HIDE DEF s
<1>8. ASSUME NEW k \in 0 .. count' - 1 PROVE (buffer[At(k)])' = s[k + 1]
  <2>1. k \in 0 .. count - 1 /\ k + 1 \in 1 .. count /\ (k + 1) - 1 = k /\ (k + 1 = i + 1 <=> k = i)
    BY <1>1
  <2>2. (buffer[At(k)])' = IF k = i THEN x ELSE buffer[At(k)]
    BY <1>2, <1>3, <2>1
  <2>3. s[k + 1] = IF k = i THEN x ELSE buffer[At(k)]
    BY <1>5, <1>7, <2>1
  <2>4. QED
    BY <2>2, <2>3
<1>9. Contents' = s
  BY <1>4, <1>7, <1>8, NewContents
<1>10. QED
  BY <1>4, <1>9 DEF s

\* A full buffer writes the new item over the oldest one and moves on.
LEMMA Overwrites ==
  ASSUME RingShape, NEW x \in Item, count = CAPACITY,
         buffer' = [buffer EXCEPT ![tail] = x],
         tail' = (tail + 1) % CAPACITY, head' = tail', count' = count
  PROVE  RingShape' /\ Contents' = Append(Tail(Contents), x)
<1>1. /\ head \in Index /\ tail \in Index /\ count \in 1 .. CAPACITY
      /\ buffer \in [Index -> Item \cup {Junk}]
      /\ CAPACITY \in Nat \ {0} /\ 1 \in 0 .. CAPACITY /\ CAPACITY \in 0 .. CAPACITY
  BY DEF RingShape
<1>2. tail = head
  <2>1. tail = (head + CAPACITY) % CAPACITY
    BY DEF RingShape, HeldAreItems, At
  <2>2. head + CAPACITY >= CAPACITY /\ head + CAPACITY - CAPACITY = head
    BY <1>1 DEF Index
  <2>3. QED
    BY <1>1, <2>1, <2>2, WrapsOnce
<1>3. head' \in Index /\ buffer' \in [Index -> Item \cup {Junk}]
  BY <1>1, WrapsOnce
<1>4. ASSUME NEW k \in 0 .. count - 2
      PROVE  (At(k))' = At(k + 1) /\ (buffer[At(k)])' = buffer[At(k + 1)]
  <2>1. /\ k \in 0 .. CAPACITY /\ k + 1 \in 0 .. CAPACITY /\ k + 1 \in 0 .. CAPACITY - 1
        /\ k + 1 # 0 /\ 0 \in 0 .. CAPACITY - 1 /\ 0 \in 0 .. CAPACITY
    BY <1>1
  <2>2. k \in 0 .. CAPACITY - 1
    BY <1>1
  <2>5. (head' + k) % CAPACITY = (head + (k + 1)) % CAPACITY
    BY <1>1, <1>2, <2>2, StepsAdd
  <2>6. (At(k))' = At(k + 1)
    BY <2>5 DEF At
  <2>7. At(0) = head
    <3>1. head + 0 = head /\ head + 0 < CAPACITY
      BY <1>1 DEF Index
    <3>2. QED
      BY <1>1, <2>1, <3>1, WrapsOnce DEF At
  <2>8. At(k + 1) \in Index /\ At(k + 1) # tail
    BY <1>2, <2>1, <2>7, Places
  <2>9. QED
    BY <1>1, <2>6, <2>8
<1>5. (At(count - 1))' = tail /\ (At(count))' = tail'
  <2>1. /\ count - 1 \in 0 .. CAPACITY
        /\ CAPACITY - 1 \in 0 .. CAPACITY
    BY <1>1
  <2>2. /\ head' + (CAPACITY - 1) < CAPACITY => (head' + (CAPACITY - 1)) % CAPACITY = head' + (CAPACITY - 1)
        /\ head' + (CAPACITY - 1) >= CAPACITY =>
             (head' + (CAPACITY - 1)) % CAPACITY = head' + (CAPACITY - 1) - CAPACITY
    BY <1>3, <2>1, WrapsOnce
  <2>3. /\ head + 1 < CAPACITY => head' = head + 1
        /\ head + 1 >= CAPACITY => head' = head + 1 - CAPACITY
    BY <1>1, <1>2, WrapsOnce
  <2>4. (head' + (CAPACITY - 1)) % CAPACITY = tail
    BY <1>1, <1>2, <1>3, <2>2, <2>3 DEF Index
  <2>5. (head' + CAPACITY) % CAPACITY = head'
    <3>1. head' + CAPACITY >= CAPACITY /\ head' + CAPACITY - CAPACITY = head'
      BY <1>1, <1>3 DEF Index
    <3>2. QED
      BY <1>1, <1>3, <3>1, WrapsOnce
  <2>6. QED
    BY <2>4, <2>5 DEF At
<1>6. buffer'[tail] = x
  BY <1>1
<1>7. ASSUME NEW k \in 0 .. count - 1
      PROVE  (buffer[At(k)])' = IF k = count - 1 THEN x ELSE buffer[At(k + 1)]
  <2>1. CASE k = count - 1
    <3>1. (At(k))' = tail
      BY <1>5, <2>1 DEF At
    <3>2. QED
      BY <1>6, <2>1, <3>1
  <2>2. CASE k # count - 1
    <3>1. k \in 0 .. count - 2
      BY <1>1, <2>2
    <3>2. QED
      BY <1>4, <2>2, <3>1
  <2>3. QED
    BY <2>1, <2>2
<1>8. RingShape'
  <2>1. ASSUME NEW k \in 0 .. count' - 1 PROVE (buffer[At(k)])' \in Item
    <3>1. k \in 0 .. count - 1 /\ (k # count - 1 => k + 1 \in 0 .. count - 1)
      BY <1>1
    <3>2. k # count - 1 => buffer[At(k + 1)] \in Item
      BY <3>1 DEF RingShape, HeldAreItems
    <3>3. QED
      BY <1>7, <3>1, <3>2
  <2>2. tail' = (At(count))'
    BY <1>5
  <2>3. QED
    BY <1>1, <1>3, <2>1, <2>2 DEF RingShape, HeldAreItems
<1>9. /\ Contents \in Seq(Item) /\ Len(Contents) = count
      /\ \A i \in 1 .. count : Contents[i] = buffer[At(i - 1)]
  BY ContentsAre
<1>10. Contents # <<>>
  BY <1>1, <1>9, EmptySeq
<1>11. /\ Tail(Contents) \in Seq(Item) /\ Len(Tail(Contents)) = count - 1
       /\ \A i \in 1 .. count - 1 : Tail(Contents)[i] = Contents[i + 1]
  BY <1>9, <1>10, HeadTailProperties
<1> DEFINE s == Append(Tail(Contents), x)
<1>12. /\ s \in Seq(Item) /\ Len(s) = (count - 1) + 1
       /\ \A i \in 1 .. count - 1 : s[i] = Tail(Contents)[i]
       /\ s[(count - 1) + 1] = x
  BY <1>11, AppendProperties
<1> HIDE DEF s
<1>13. ASSUME NEW k \in 0 .. count' - 1 PROVE (buffer[At(k)])' = s[k + 1]
  <2>1. CASE k = count - 1
    <3>1. k \in 0 .. count - 1 /\ k + 1 = (count - 1) + 1
      BY <1>1, <2>1
    <3>2. QED
      BY <1>7, <1>12, <2>1, <3>1
  <2>2. CASE k # count - 1
    <3>1. /\ k \in 0 .. count - 1 /\ k + 1 \in 1 .. count - 1 /\ (k + 1) + 1 \in 1 .. count
          /\ ((k + 1) + 1) - 1 = k + 1
      BY <1>1, <2>2
    <3>2. s[k + 1] = buffer[At(k + 1)]
      BY <1>9, <1>11, <1>12, <3>1
    <3>3. QED
      BY <1>7, <2>2, <3>1, <3>2
  <2>3. QED
    BY <2>1, <2>2
<1>14. Len(s) = count'
  BY <1>1, <1>12
<1>15. Contents' = s
  BY <1>8, <1>12, <1>13, <1>14, NewContents
<1>16. QED
  BY <1>8, <1>15 DEF s

----------------------------------------------------------------------------
(* Every operation keeps the invariant and is an operation of the queue *)

\* What is left of the type invariant when the shape is known.
Rest ==
  /\ policy \in Policy /\ merge_fn \in BOOLEAN
  /\ stats \in Stats
  /\ last \in [ret : {"OK", "MERGED", "DROPPED", "ERR"}, out : Item \cup {None}]

LEMMA InvIsShapeAndRest == RingInv <=> RingShape /\ Rest
BY DEF RingInv, RingTypeOK, RingShape, Rest

\* What the counters gain.
LEMMA OneMoreOf ==
  ASSUME NEW s \in Stats
  PROVE  LET o == [s EXCEPT !.overwrites = @ + 1]
             d == [s EXCEPT !.drops = @ + 1]
             m == [s EXCEPT !.merges = @ + 1]
             p == [s EXCEPT !.pushes = @ + 1]
             q == [s EXCEPT !.pops = @ + 1]
         IN  /\ o \in Stats /\ d \in Stats /\ m \in Stats /\ p \in Stats /\ q \in Stats
             /\ o.overwrites = s.overwrites + 1 /\ o.pushes = s.pushes /\ o.pops = s.pops
             /\ o.drops = s.drops /\ o.merges = s.merges
             /\ d.drops = s.drops + 1 /\ d.pushes = s.pushes /\ d.pops = s.pops
             /\ d.overwrites = s.overwrites /\ d.merges = s.merges
             /\ m.merges = s.merges + 1 /\ m.pushes = s.pushes /\ m.pops = s.pops
             /\ m.overwrites = s.overwrites /\ m.drops = s.drops
             /\ p.pushes = s.pushes + 1 /\ p.pops = s.pops /\ p.overwrites = s.overwrites
             /\ p.drops = s.drops /\ p.merges = s.merges
             /\ q.pops = s.pops + 1 /\ q.pushes = s.pushes /\ q.overwrites = s.overwrites
             /\ q.drops = s.drops /\ q.merges = s.merges
BY DEF Stats

\* A push counts itself, and what became of its item.
LEMMA PushCounts ==
  ASSUME RingTypeOK, NEW x \in Item, ring_queue_push(x)
  PROVE  /\ stats' \in Stats
         /\ StatsBalance => StatsBalance'
<1>1. stats \in Stats /\ count \in Nat
  BY DEF RingTypeOK
<1>2. CASE Counted([stats EXCEPT !.merges = @ + 1]) /\ count' = count
  <2> DEFINE m == [stats EXCEPT !.merges = @ + 1]
  <2>1. m \in Stats /\ m.merges = stats.merges + 1 /\ m.pushes = stats.pushes
        /\ m.pops = stats.pops /\ m.overwrites = stats.overwrites /\ m.drops = stats.drops
    BY <1>1, OneMoreOf
  <2>2. stats' = [m EXCEPT !.pushes = @ + 1]
    BY <1>2 DEF Counted
  <2> HIDE DEF m
  <2>3. stats' \in Stats /\ stats'.pushes = m.pushes + 1 /\ stats'.pops = m.pops
        /\ stats'.overwrites = m.overwrites /\ stats'.drops = m.drops /\ stats'.merges = m.merges
    BY <2>1, <2>2, OneMoreOf
  <2>4. QED
    BY <1>1, <1>2, <2>1, <2>3 DEF StatsBalance, Stats
<1>3. CASE Counted([stats EXCEPT !.overwrites = @ + 1]) /\ count' = count
  <2> DEFINE m == [stats EXCEPT !.overwrites = @ + 1]
  <2>1. m \in Stats /\ m.overwrites = stats.overwrites + 1 /\ m.pushes = stats.pushes
        /\ m.pops = stats.pops /\ m.merges = stats.merges /\ m.drops = stats.drops
    BY <1>1, OneMoreOf
  <2>2. stats' = [m EXCEPT !.pushes = @ + 1]
    BY <1>3 DEF Counted
  <2> HIDE DEF m
  <2>3. stats' \in Stats /\ stats'.pushes = m.pushes + 1 /\ stats'.pops = m.pops
        /\ stats'.overwrites = m.overwrites /\ stats'.drops = m.drops /\ stats'.merges = m.merges
    BY <2>1, <2>2, OneMoreOf
  <2>4. QED
    BY <1>1, <1>3, <2>1, <2>3 DEF StatsBalance, Stats
<1>4. CASE Counted([stats EXCEPT !.drops = @ + 1]) /\ count' = count
  <2> DEFINE m == [stats EXCEPT !.drops = @ + 1]
  <2>1. m \in Stats /\ m.drops = stats.drops + 1 /\ m.pushes = stats.pushes
        /\ m.pops = stats.pops /\ m.merges = stats.merges /\ m.overwrites = stats.overwrites
    BY <1>1, OneMoreOf
  <2>2. stats' = [m EXCEPT !.pushes = @ + 1]
    BY <1>4 DEF Counted
  <2> HIDE DEF m
  <2>3. stats' \in Stats /\ stats'.pushes = m.pushes + 1 /\ stats'.pops = m.pops
        /\ stats'.overwrites = m.overwrites /\ stats'.drops = m.drops /\ stats'.merges = m.merges
    BY <2>1, <2>2, OneMoreOf
  <2>4. QED
    BY <1>1, <1>4, <2>1, <2>3 DEF StatsBalance, Stats
<1>5. CASE Counted(stats) /\ count' = count + 1
  <2>1. stats' = [stats EXCEPT !.pushes = @ + 1]
    BY <1>5 DEF Counted
  <2>2. stats' \in Stats /\ stats'.pushes = stats.pushes + 1 /\ stats'.pops = stats.pops
        /\ stats'.overwrites = stats.overwrites /\ stats'.drops = stats.drops
        /\ stats'.merges = stats.merges
    BY <1>1, <2>1, OneMoreOf
  <2>3. QED
    BY <1>1, <1>5, <2>2 DEF StatsBalance, Stats
<1>6. QED
  BY <1>2, <1>3, <1>4, <1>5 DEF ring_queue_push, Overwrite, Drop, ring

\* Each of the four ways through a push.
LEMMA PushStep ==
  ASSUME RingInv, NEW x \in Item, ring_queue_push(x)
  PROVE  RingInv' /\ Queue!Push(x)
<1> DEFINE S == ring_queue_try_merge(x)
<1>1. RingShape /\ Rest
  BY InvIsShapeAndRest
<1>2. Rest'
  <2>1. stats' \in Stats
    BY PushCounts DEF RingInv
  <2>2. \E ret \in {"OK", "MERGED", "DROPPED", "ERR"} : last' = [ret |-> ret, out |-> None]
    BY DEF ring_queue_push, Returns
  <2>3. policy' = policy /\ merge_fn' = merge_fn
    BY DEF ring_queue_push
  <2>4. QED
    BY <1>1, <2>1, <2>2, <2>3 DEF Rest
<1>3. /\ Contents \in Seq(Item) /\ Len(Contents) = count /\ Held = Queue!Held
      /\ S = Queue!Partners(x)
      /\ count \in 0 .. CAPACITY /\ CAPACITY \in Nat \ {0}
  BY <1>1, ContentsAre, SameItems DEF ring_queue_try_merge, Queue!Partners, RingShape
<1>4. policy' = policy /\ merge_fn' = merge_fn
  BY DEF ring_queue_push
<1>5. ASSUME NEW i \in 0 .. count - 1, First(i, S),
             buffer' = [buffer EXCEPT ![At(i)] = Merged[@, x]],
             UNCHANGED <<head, tail, count>>, Returns("MERGED", None)
      PROVE  RingInv' /\ Queue!Push(x)
  <2> DEFINE y == Merged[buffer[At(i)], x]
  <2>1. buffer[At(i)] \in Item /\ y # None
    BY <1>5 DEF First, ring_queue_try_merge
  <2>2. y \in Item
    <3>1. <<buffer[At(i)], x>> \in Item \X Item
      BY <2>1
    <3>2. y \in Item \cup {None}
      <4>1. \A p \in Item \X Item : Merged[p] \in Item \cup {None}
        BY RingAssumption
      <4>2. QED
        BY <3>1, <4>1
    <3>3. QED
      BY <2>1, <3>2, Zenon
  <2>3. At(i) \in Index /\ buffer \in [Index -> Item \cup {Junk}]
    <3>1. i \in 0 .. CAPACITY
      BY <1>3
    <3>2. QED
      BY <1>1, <3>1, Places DEF RingShape
  <2>4. buffer' = [buffer EXCEPT ![At(i)] = y]
    BY <1>5, <2>3
  <2>5. /\ i + 1 \in 1 .. Len(Contents) /\ Contents[i + 1] = buffer[At(i)]
        /\ Queue!First(i + 1, S)
    BY <1>1, <1>5, SameSearch
  <2> HIDE DEF S, y
  <2>6. RingShape' /\ Contents' = [Contents EXCEPT ![i + 1] = y]
    BY <1>1, <1>5, <2>2, <2>4, Changes
  <2>7. Contents' = [Contents EXCEPT ![i + 1] = Merged[@, x]]
    BY <1>3, <2>5, <2>6 DEF y
  <2>8. Queue!Returns("MERGED", None)
    BY <1>5 DEF Returns, Queue!Returns
  <2>9. Queue!Push(x)
    BY <1>3, <1>4, <2>5, <2>7, <2>8 DEF Queue!Push
  <2>10. RingInv'
    BY <1>2, <2>6, InvIsShapeAndRest, PTL
  <2>11. QED
    BY <2>9, <2>10
<1>6. ASSUME Held \cap S = {}, count = CAPACITY, policy = "OVERWRITE_OLDEST",
             Overwrite(x), Returns("OK", None)
      PROVE  RingInv' /\ Queue!Push(x)
  <2> HIDE DEF S
  <2>1. RingShape' /\ Contents' = Append(Tail(Contents), x)
    BY <1>1, <1>6, Overwrites DEF Overwrite
  <2>2. Queue!Push(x)
    BY <1>3, <1>4, <1>6, <2>1 DEF Queue!Push, Returns, Queue!Returns
  <2>3. RingInv'
    BY <1>2, <2>1, InvIsShapeAndRest, PTL
  <2>4. QED
    BY <2>2, <2>3
<1>7. ASSUME Held \cap S = {}, count = CAPACITY, policy # "OVERWRITE_OLDEST",
             Drop, Returns("DROPPED", None)
      PROVE  RingInv' /\ Queue!Push(x)
  <2> HIDE DEF S
  <2>1. Contents' = Contents /\ RingShape'
    BY <1>1, <1>7 DEF Drop, ring, Contents, At, RingShape, HeldAreItems
  <2>2. Queue!Push(x)
    BY <1>3, <1>4, <1>7, <2>1 DEF Queue!Push, Returns, Queue!Returns
  <2>3. RingInv'
    BY <1>2, <2>1, InvIsShapeAndRest, PTL
  <2>4. QED
    BY <2>2, <2>3
<1>8. ASSUME Held \cap S = {}, count # CAPACITY, buffer' = [buffer EXCEPT ![tail] = x],
             tail' = (tail + 1) % CAPACITY, count' = count + 1, head' = head,
             Returns("OK", None)
      PROVE  RingInv' /\ Queue!Push(x)
  <2> HIDE DEF S
  <2>1. RingShape' /\ Contents' = Append(Contents, x)
    BY <1>1, <1>8, Appends
  <2>2. Len(Contents) < CAPACITY
    BY <1>3, <1>8
  <2>3. Queue!Push(x)
    BY <1>3, <1>4, <1>8, <2>1, <2>2 DEF Queue!Push, Returns, Queue!Returns
  <2>4. RingInv'
    BY <1>2, <2>1, InvIsShapeAndRest, PTL
  <2>5. QED
    BY <2>3, <2>4
<1> HIDE DEF S
<1>9. \/ \E i \in 0 .. count - 1 :
            /\ First(i, S) /\ buffer' = [buffer EXCEPT ![At(i)] = Merged[@, x]]
            /\ UNCHANGED <<head, tail, count>> /\ Returns("MERGED", None)
      \/ /\ Held \cap S = {} /\ count = CAPACITY /\ policy = "OVERWRITE_OLDEST"
         /\ Overwrite(x) /\ Returns("OK", None)
      \/ /\ Held \cap S = {} /\ count = CAPACITY /\ policy # "OVERWRITE_OLDEST"
         /\ Drop /\ Returns("DROPPED", None)
      \/ /\ Held \cap S = {} /\ count # CAPACITY /\ buffer' = [buffer EXCEPT ![tail] = x]
         /\ tail' = (tail + 1) % CAPACITY /\ count' = count + 1 /\ head' = head
         /\ Returns("OK", None)
  BY DEF ring_queue_push, S
<1>10. QED
  BY <1>5, <1>6, <1>7, <1>8, <1>9

LEMMA PopStep ==
  ASSUME RingInv, ring_queue_pop
  PROVE  RingInv' /\ Queue!Pop
<1>1. RingShape /\ Rest
  BY InvIsShapeAndRest
<1>2. Contents \in Seq(Item) /\ Len(Contents) = count
  BY <1>1, ContentsAre
<1>3. CASE count = 0
  <2>1. Contents' = Contents /\ RingShape' /\ Rest' /\ Returns("ERR", None)
    BY <1>1, <1>3 DEF ring_queue_pop, ring, Contents, At, RingShape, HeldAreItems, Rest, Returns
  <2>2. Contents = <<>>
    BY <1>2, <1>3, EmptySeq
  <2>3. Queue!Pop
    BY <2>1, <2>2 DEF ring_queue_pop, Queue!Pop, Returns, Queue!Returns
  <2>4. RingInv'
    BY <2>1, InvIsShapeAndRest, PTL
  <2>5. QED
    BY <2>3, <2>4
<1>4. CASE count # 0
  <2>1. /\ Returns("OK", buffer[head])
        /\ head' = (head + 1) % CAPACITY /\ count' = count - 1
        /\ buffer' = buffer /\ tail' = tail
        /\ stats' = [stats EXCEPT !.pops = @ + 1]
        /\ policy' = policy /\ merge_fn' = merge_fn
    BY <1>4 DEF ring_queue_pop
  <2>2. /\ RingShape' /\ Contents' = Tail(Contents)
        /\ Contents # <<>> /\ Head(Contents) = buffer[head] /\ buffer[head] \in Item
    BY <1>1, <1>4, <2>1, Pops
  <2>3. Rest'
    <3>1. stats' \in Stats
      BY <1>1, <2>1, OneMoreOf DEF Rest
    <3>2. last' = [ret |-> "OK", out |-> buffer[head]]
      BY <2>1 DEF Returns
    <3>3. QED
      BY <1>1, <2>1, <2>2, <3>1, <3>2 DEF Rest
  <2>4. Queue!Pop
    BY <2>1, <2>2 DEF Queue!Pop, Returns, Queue!Returns
  <2>5. RingInv'
    BY <2>2, <2>3, InvIsShapeAndRest, PTL
  <2>6. QED
    BY <2>4, <2>5
<1>5. QED
  BY <1>3, <1>4

LEMMA ReplaceStep ==
  ASSUME RingInv, NEW M \in Matches, NEW x \in Item, ring_queue_replace_first_if(M, x)
  PROVE  RingInv' /\ Queue!ReplaceFirst(M, x)
<1>1. RingShape /\ Rest
  BY InvIsShapeAndRest
<1>2. Rest'
  BY <1>1 DEF Rest, ring_queue_replace_first_if, Returns
<1>3. Held = Queue!Held
  BY <1>1, SameItems
<1>4. CASE Held \cap M = {} /\ Returns("ERR", None) /\ UNCHANGED buffer
  <2>1. Contents' = Contents /\ RingShape'
    BY <1>1, <1>4 DEF ring_queue_replace_first_if, Contents, At, RingShape, HeldAreItems
  <2>2. Queue!ReplaceFirst(M, x)
    BY <1>3, <1>4, <2>1
       DEF ring_queue_replace_first_if, Queue!ReplaceFirst, Returns, Queue!Returns
  <2>3. RingInv'
    BY <1>2, <2>1, InvIsShapeAndRest, PTL
  <2>4. QED
    BY <2>2, <2>3
<1>5. ASSUME NEW i \in 0 .. count - 1, First(i, M),
             buffer' = [buffer EXCEPT ![At(i)] = x], Returns("OK", None)
      PROVE  RingInv' /\ Queue!ReplaceFirst(M, x)
  <2>1. head' = head /\ tail' = tail /\ count' = count
    BY DEF ring_queue_replace_first_if
  <2>2. RingShape' /\ Contents' = [Contents EXCEPT ![i + 1] = x]
    BY <1>1, <1>5, <2>1, Changes
  <2>3. i + 1 \in 1 .. Len(Contents) /\ Queue!First(i + 1, M)
    BY <1>1, <1>5, SameSearch
  <2>4. Queue!ReplaceFirst(M, x)
    BY <1>5, <2>2, <2>3
       DEF ring_queue_replace_first_if, Queue!ReplaceFirst, Returns, Queue!Returns
  <2>5. RingInv'
    BY <1>2, <2>2, InvIsShapeAndRest, PTL
  <2>6. QED
    BY <2>4, <2>5
<1>6. QED
  BY <1>4, <1>5 DEF ring_queue_replace_first_if

\* Setting the policy or the merge function touches no item.
LEMMA SettingStep ==
  ASSUME RingInv, \/ UNCHANGED ringVars
                  \/ \E p \in Policy : ring_queue_set_overflow_policy(p)
                  \/ \E b \in BOOLEAN : ring_queue_set_merge_fn(b)
  PROVE  RingInv' /\ [Queue!QueueNext]_(Queue!queueVars)
<1>1. RingShape /\ Rest
  BY InvIsShapeAndRest
<1>2. UNCHANGED <<buffer, head, tail, count, last>>
  BY DEF ring_queue_set_overflow_policy, ring_queue_set_merge_fn, ringVars, ring
<1>3. Contents' = Contents /\ RingShape'
  BY <1>1, <1>2 DEF Contents, At, RingShape, HeldAreItems
<1>4. Rest'
  BY <1>1 DEF Rest, ring_queue_set_overflow_policy, ring_queue_set_merge_fn, ringVars
<1>5. [Queue!QueueNext]_(Queue!queueVars)
  <2>1. CASE UNCHANGED ringVars
    BY <1>3, <2>1 DEF ringVars, Queue!queueVars
  <2>2. ASSUME NEW p \in Policy, ring_queue_set_overflow_policy(p) PROVE Queue!QueueNext
    <3>1. Queue!SetPolicy(p)
      BY <1>3, <2>2 DEF ring_queue_set_overflow_policy, Queue!SetPolicy
    <3>2. p \in Queue!Policy
      BY DEF Policy, Queue!Policy
    <3>3. QED
      BY <3>1, <3>2 DEF Queue!QueueNext
  <2>3. ASSUME NEW b \in BOOLEAN, ring_queue_set_merge_fn(b) PROVE Queue!QueueNext
    <3>1. Queue!SetMerging(b)
      BY <1>3, <2>3 DEF ring_queue_set_merge_fn, Queue!SetMerging
    <3>2. QED
      BY <3>1 DEF Queue!QueueNext
  <2>4. QED
    BY <2>1, <2>2, <2>3
<1>6. RingInv'
  BY <1>3, <1>4, InvIsShapeAndRest, PTL
<1>7. QED
  BY <1>5, <1>6

LEMMA RingStep == RingInv /\ [RingNext]_ringVars => RingInv' /\ [Queue!QueueNext]_(Queue!queueVars)
<1> SUFFICES ASSUME RingInv, [RingNext]_ringVars
             PROVE  RingInv' /\ [Queue!QueueNext]_(Queue!queueVars)
  OBVIOUS
<1>1. ASSUME NEW x \in Item, ring_queue_push(x) PROVE RingInv' /\ Queue!QueueNext
  BY <1>1, PushStep DEF Queue!QueueNext
<1>2. CASE ring_queue_pop
  BY <1>2, PopStep DEF Queue!QueueNext
<1>3. ASSUME NEW M \in Matches, NEW x \in Item, ring_queue_replace_first_if(M, x)
      PROVE  RingInv' /\ Queue!QueueNext
  BY <1>3, ReplaceStep DEF Queue!QueueNext
<1>4. QED
  BY <1>1, <1>2, <1>3, SettingStep DEF RingNext

\* ring_queue_init leaves an empty queue.
LEMMA RingStart == ring_queue_init => RingInv /\ Queue!QueueInit
<1> SUFFICES ASSUME ring_queue_init PROVE RingInv /\ Queue!QueueInit
  OBVIOUS
<1>1. head = 0 /\ tail = 0 /\ count = 0
  BY DEF ring_queue_init
<1>2. At(0) = 0
  BY <1>1 DEF At
<1>3. RingShape /\ Rest
  <2>1. RingShape
    BY <1>1, <1>2 DEF ring_queue_init, RingShape, HeldAreItems, Index
  <2>2. Rest
    BY DEF ring_queue_init, Rest, Policy, Stats
  <2>3. QED
    BY <2>1, <2>2
<1>4. Contents = <<>>
  BY <1>1, <1>3, ContentsAre, EmptySeq
<1>5. QED
  BY <1>3, <1>4, InvIsShapeAndRest DEF ring_queue_init, Queue!QueueInit

\* The ring buffer is a bounded queue with its policy, for every capacity.
THEOREM RingImplementsQueue == RingSpec => RingIsQueue
BY RingStart, RingStep, PTL DEF RingSpec, RingIsQueue, Queue!QueueSpec

\* All variables keep their types.
THEOREM RingTypeCorrect == RingSpec => []RingTypeOK
<1>1. RingInv => RingTypeOK
  BY DEF RingInv
<1>2. QED
  BY <1>1, RingStart, RingStep, PTL DEF RingSpec

\* What the queue hands out was put into it.
THEOREM RingHoldsItems == RingSpec => []HeldAreItems
<1>1. RingInv => HeldAreItems
  BY DEF RingInv
<1>2. QED
  BY <1>1, RingStart, RingStep, PTL DEF RingSpec

\* Each push is accounted for.
THEOREM StatsAlwaysBalance == RingSpec => []StatsBalance
<1>1. ring_queue_init => StatsBalance
  BY DEF ring_queue_init, StatsBalance
<1>2. RingTypeOK /\ StatsBalance /\ [RingNext]_ringVars => StatsBalance'
  <2> SUFFICES ASSUME RingTypeOK, StatsBalance, [RingNext]_ringVars PROVE StatsBalance'
    OBVIOUS
  <2> USE DEF RingTypeOK, StatsBalance
  <2>1. ASSUME NEW x \in Item, ring_queue_push(x) PROVE StatsBalance'
    BY <2>1, PushCounts
  <2>2. CASE ring_queue_pop
    <3>1. CASE UNCHANGED <<count, stats>>
      BY <3>1
    <3>2. CASE count' = count - 1 /\ stats' = [stats EXCEPT !.pops = @ + 1]
      <4>1. stats'.pops = stats.pops + 1 /\ stats'.pushes = stats.pushes
            /\ stats'.overwrites = stats.overwrites /\ stats'.drops = stats.drops
            /\ stats'.merges = stats.merges
        BY <3>2, OneMoreOf
      <4>2. QED
        BY <3>2, <4>1 DEF Stats
    <3>3. QED
      BY <2>2, <3>1, <3>2 DEF ring_queue_pop, ring
  <2>3. ASSUME UNCHANGED <<stats, count>> PROVE StatsBalance'
    BY <2>3
  <2>4. QED
    BY <2>1, <2>2, <2>3 DEF RingNext, ringVars, ring, ring_queue_replace_first_if,
       ring_queue_set_overflow_policy, ring_queue_set_merge_fn
<1>3. QED
  BY <1>1, <1>2, RingTypeCorrect, PTL DEF RingSpec

----------------------------------------------------------------------------
(* ThreadedStatus: numbers of requests *)

HIDE RingAssumption DEF RingAssumption
USE ThreadedStatusAssumption DEF ThreadedStatusAssumption

LEMMA LeastExists ==
  ASSUME NEW S \in SUBSET Nat, S # {}
  PROVE  Min(S) \in S
<1> DEFINE Less == {p \in Nat \X Nat : p[1] < p[2]}
<1>1. IsWellFoundedOn(Less, Nat)
  BY NatLessThanWellFounded DEF OpToRel
<1>2. PICK x \in S : \A y \in S : ~(<<y, x>> \in Less)
  <2> HIDE DEF Less
  <2>1. QED
    BY <1>1, WFMin
<1>3. \A y \in Nat : y < x => <<y, x>> \in Less
  OBVIOUS
<1> HIDE DEF Less
<1>4. \A y \in S : x =< y
  <2>1. SUFFICES ASSUME NEW y \in S PROVE x =< y
    OBVIOUS
  <2>2. ~(y < x)
    BY <1>2, <1>3
  <2>3. QED
    BY <2>2
<1>5. QED
  BY <1>4 DEF Min

LEMMA CountTo ==
  ASSUME NEW n \in Nat
  PROVE  IsFiniteSet(1 .. n) /\ Cardinality(1 .. n) = n
<1>1. /\ IsFiniteSet(1 .. n)
      /\ Cardinality(1 .. n) = IF 1 > n THEN 0 ELSE n - 1 + 1
  BY FS_Interval
<1>2. QED
  BY <1>1

\* A sequence numbers no more things than it has places.
LEMMA FewIds ==
  ASSUME NEW S, NEW q \in Seq(S)
  PROVE  /\ IsFiniteSet({q[i].id : i \in 1 .. Len(q)})
         /\ Cardinality({q[i].id : i \in 1 .. Len(q)}) \in Nat
         /\ Cardinality({q[i].id : i \in 1 .. Len(q)}) <= Len(q)
<1> DEFINE T == {q[i].id : i \in 1 .. Len(q)}
           f == [i \in 1 .. Len(q) |-> q[i].id]
<1>1. f \in Surjection(1 .. Len(q), T)
  BY DEF Surjection
<1>2. Len(q) \in Nat
  BY LenProperties
<1>3. IsFiniteSet(1 .. Len(q)) /\ Cardinality(1 .. Len(q)) = Len(q)
  BY <1>2, CountTo
<1> HIDE DEF f, T
<1>4. IsFiniteSet(T) /\ Cardinality(T) <= Len(q)
  BY <1>1, <1>3, FS_Surjection
<1>5. Cardinality(T) \in Nat
  BY <1>4, FS_CardinalityType
<1>6. QED
  BY <1>4, <1>5 DEF T

\* The ubus thread has a task from taking it to pushing its answer.
Holding == wpc \in {"have", "invoke", "push", "push cancelled"}
Answering == wpc \in {"push", "push cancelled"}
Service == [pending : BOOLEAN, id : 0 .. IDS, age : Nat, valid : BOOLEAN]
Connection == [at : {"none", "context", "rc"}, failures : 0 .. INT_BITS + 1, since : Nat]

StatusTypeOK ==
  /\ tasks \in Seq(Task) /\ Len(tasks) <= TASK_CAPACITY
  /\ taskPolicy = "COALESCE" /\ taskMerging = TRUE
  /\ results \in Seq(Result) /\ Len(results) <= RESULT_CAPACITY
  /\ resultPolicy = "REJECT_NEW" /\ resultMerging = FALSE
  /\ service \in [Svc -> Service] /\ visiting \in 0 .. service_count
  /\ wpc \in {"pop", "have", "invoke", "push", "poll", "cancel", "push cancelled", "done"}
  /\ running \in BOOLEAN /\ up \in BOOLEAN /\ ubus \in Connection
  /\ stage \in {"up", "ui stopped", "joining", "stopped"}

\* What the ubus thread has in hand, and that its answer has the number of the task.
HandInv ==
  /\ Holding => task.out \in Task
  /\ ~Holding => task = NotTaken
  /\ Answering => result \in Result /\ result.id = task.out.id
  /\ ~Answering => result = NoResult

\* task_queue.c merges a task into one of the same service, wherever that stands.
OneTaskEach == \A i, j \in 1 .. Len(tasks) : tasks[i].svc = tasks[j].svc => i = j

\* The services this tick may still ask about; each may add one task, and every task becomes
\* one result.  At the tick that empties the results there is at most one task of each
\* service and one in hand.
InHand == IF Holding THEN 1 ELSE 0
ToVisit == IF visiting = 0 THEN 0 ELSE service_count + 1 - visiting
RoomForResults == Len(results) + Len(tasks) + InHand + ToVisit <= 2 * service_count + 1

\* A push has been refused only where there are too few slots for this.
ResultsFit == 2 * service_count + 1 <= RESULT_CAPACITY => pushedResult.ret # "DROPPED"

FlowInv == StatusTypeOK /\ HandInv /\ OneTaskEach /\ RoomForResults /\ ResultsFit

LEMMA TasksAreFew ==
  ASSUME tasks \in Seq(Task), OneTaskEach
  PROVE  Len(tasks) \in Nat /\ Len(tasks) <= service_count
<1> DEFINE f == [i \in 1 .. Len(tasks) |-> tasks[i].svc]
<1>1. Len(tasks) \in Nat
  BY LenProperties
<1>2. \A i \in 1 .. Len(tasks) : tasks[i].svc \in Svc
  <2>1. \A i \in 1 .. Len(tasks) : tasks[i] \in Task
    BY ElementOfSeq
  <2>2. QED
    BY <2>1 DEF Task
<1>3. f \in Injection(1 .. Len(tasks), Svc)
  BY <1>2 DEF Injection, IsInjective, OneTaskEach
<1>4. IsFiniteSet(1 .. Len(tasks)) /\ Cardinality(1 .. Len(tasks)) = Len(tasks)
  BY <1>1, CountTo
<1>5. IsFiniteSet(Svc) /\ Cardinality(Svc) = service_count
  BY CountTo DEF Svc
<1> HIDE DEF f
<1>6. Cardinality(1 .. Len(tasks)) <= Cardinality(Svc)
  BY <1>3, <1>5, FS_Injection
<1>7. QED
  BY <1>1, <1>4, <1>5, <1>6

\* Cardinalities add up to at most the sum.
LEMMA UnionIsFew ==
  ASSUME NEW S, NEW T, IsFiniteSet(S), IsFiniteSet(T)
  PROVE  /\ IsFiniteSet(S \cup T) /\ Cardinality(S \cup T) \in Nat
         /\ Cardinality(S \cup T) <= Cardinality(S) + Cardinality(T)
<1>1. /\ IsFiniteSet(S \cup T)
      /\ Cardinality(S \cup T) = Cardinality(S) + Cardinality(T) - Cardinality(S \cap T)
  BY FS_Union
<1>2. IsFiniteSet(S \cap T)
  BY FS_Subset
<1>3. /\ Cardinality(S) \in Nat /\ Cardinality(T) \in Nat /\ Cardinality(S \cap T) \in Nat
      /\ Cardinality(S \cup T) \in Nat
  BY <1>1, <1>2, FS_CardinalityType
<1>4. QED
  BY <1>1, <1>3

\* There is always a number that nothing carries, so that next_request_id is one: the bound
\* IDS stands for a counter of 32 bits.
LEMMA FreshId ==
  ASSUME StatusTypeOK, HandInv, OneTaskEach
  PROVE  next_request_id \in Id /\ next_request_id \notin InUse
<1> DEFINE A == {tasks[i].id : i \in 1 .. Len(tasks)}
           B == {results[i].id : i \in 1 .. Len(results)}
           C == {task.out.id}
           D == {service[s].id : s \in Svc}
<1>1. /\ IsFiniteSet(A) /\ Cardinality(A) \in Nat /\ Cardinality(A) <= service_count
  <2>1. IsFiniteSet(A) /\ Cardinality(A) \in Nat /\ Cardinality(A) <= Len(tasks)
    BY FewIds DEF StatusTypeOK
  <2>2. Len(tasks) \in Nat /\ Len(tasks) <= service_count
    BY TasksAreFew DEF StatusTypeOK
  <2> HIDE DEF A
  <2>3. QED
    BY <2>1, <2>2
<1>2. /\ IsFiniteSet(B) /\ Cardinality(B) \in Nat /\ Cardinality(B) <= RESULT_CAPACITY
  <2>1. IsFiniteSet(B) /\ Cardinality(B) \in Nat /\ Cardinality(B) <= Len(results)
    BY FewIds DEF StatusTypeOK
  <2>2. Len(results) \in Nat /\ Len(results) <= RESULT_CAPACITY
    BY LenProperties DEF StatusTypeOK
  <2> HIDE DEF B
  <2>3. QED
    BY <2>1, <2>2
<1>3. IsFiniteSet(C) /\ Cardinality(C) = 1
  BY FS_Singleton
<1>4. IsFiniteSet(D) /\ Cardinality(D) \in Nat /\ Cardinality(D) <= service_count
  <2> DEFINE f == [s \in Svc |-> service[s].id]
  <2>1. f \in Surjection(Svc, D)
    BY DEF Surjection
  <2>2. IsFiniteSet(Svc) /\ Cardinality(Svc) = service_count
    BY CountTo DEF Svc
  <2> HIDE DEF f, D
  <2>3. IsFiniteSet(D) /\ Cardinality(D) <= service_count
    BY <2>1, <2>2, FS_Surjection
  <2>4. QED
    BY <2>3, FS_CardinalityType
<1>5. InUse \subseteq ((A \cup B) \cup (C \cup D)) \cup {0}
  <2>1. result.id \in {0, task.out.id}
    BY DEF HandInv, NoResult
  <2>2. QED
    BY <2>1 DEF InUse
<1> DEFINE E == (A \cup B) \cup (C \cup D)
<1>6. IsFiniteSet(E) /\ Cardinality(E) \in Nat /\ Cardinality(E) <= 2 * service_count + 1 + RESULT_CAPACITY
  <2> HIDE DEF A, B, C, D
  <2>1. IsFiniteSet(A \cup B) /\ Cardinality(A \cup B) \in Nat
        /\ Cardinality(A \cup B) <= Cardinality(A) + Cardinality(B)
    BY <1>1, <1>2, UnionIsFew
  <2>2. IsFiniteSet(C \cup D) /\ Cardinality(C \cup D) \in Nat
        /\ Cardinality(C \cup D) <= Cardinality(C) + Cardinality(D)
    BY <1>3, <1>4, UnionIsFew
  <2>3. IsFiniteSet(E) /\ Cardinality(E) \in Nat
        /\ Cardinality(E) <= Cardinality(A \cup B) + Cardinality(C \cup D)
    BY <2>1, <2>2, UnionIsFew
  <2> HIDE DEF E
  <2>4. QED
    BY <1>1, <1>2, <1>3, <1>4, <2>1, <2>2, <2>3
<1>7. Id \ InUse # {}
  <2>1. SUFFICES ASSUME Id \subseteq InUse PROVE FALSE
    OBVIOUS
  <2>2. 0 \notin Id
    BY DEF Id
  <2> HIDE DEF E
  <2>3. Id \subseteq E
    BY <1>5, <2>1, <2>2 DEF E
  <2>4. IsFiniteSet(Id) /\ Cardinality(Id) = IDS
    BY CountTo DEF Id
  <2>5. Cardinality(Id) <= Cardinality(E)
    BY <1>6, <2>3, FS_Subset
  <2>6. QED
    BY <1>6, <2>4, <2>5
<1>8. next_request_id \in Id \ InUse
  <2> DEFINE F == Id \ InUse
  <2>1. F \in SUBSET Nat /\ F # {}
    BY <1>7 DEF Id
  <2> HIDE DEF F
  <2>2. Min(F) \in F
    BY <2>1, LeastExists
  <2>3. QED
    BY <2>2 DEF F, next_request_id
<1>9. QED
  BY <1>8


----------------------------------------------------------------------------
(* ThreadedStatus: the operations of the two queues *)

LEMMA MergedTaskIs ==
  ASSUME NEW x \in Task, NEW y \in Task
  PROVE  /\ MergedTask[<<x, y>>] # NoTask <=> x.svc = y.svc
         /\ x.svc = y.svc => MergedTask[<<x, y>>] = y
<1>1. MergedTask[<<x, y>>] = IF x.svc = y.svc THEN y ELSE NoTask
  BY DEF MergedTask
<1>2. y # NoTask
  BY DEF Task, NoTask, Svc
<1>3. QED
  BY <1>1, <1>2

\* The queue of tasks coalesces: a task takes the place of one of its service, or comes
\* last, or finds the queue full.
TaskPushed(t) ==
  \/ /\ pushedTask'.ret = "MERGED"
     /\ \E i \in 1 .. Len(tasks) : tasks[i].svc = t.svc /\ tasks' = [tasks EXCEPT ![i] = t]
  \/ /\ pushedTask'.ret = "OK"
     /\ \A i \in 1 .. Len(tasks) : tasks[i].svc # t.svc
     /\ Len(tasks) < TASK_CAPACITY /\ tasks' = Append(tasks, t)
  \/ pushedTask'.ret = "DROPPED" /\ tasks' = tasks

LEMMA TaskIsPushed ==
  ASSUME StatusTypeOK, NEW t \in Task, PushTasks!Push(t)
  PROVE  TaskPushed(t) /\ taskPolicy' = taskPolicy /\ taskMerging' = taskMerging
<1>1. tasks \in Seq(Task) /\ taskPolicy = "COALESCE" /\ taskMerging = TRUE
  BY DEF StatusTypeOK
<1>2. \A i \in 1 .. Len(tasks) : tasks[i] \in Task
  BY <1>1, ElementOfSeq
<1>3. \A x : x \in PushTasks!Partners(t) <=> x \in Task /\ MergedTask[<<x, t>>] # NoTask
  BY <1>1, Zenon DEF PushTasks!Partners
<1>4. \A i \in 1 .. Len(tasks) : tasks[i] \in PushTasks!Partners(t) <=> tasks[i].svc = t.svc
  <2>1. SUFFICES ASSUME NEW i \in 1 .. Len(tasks)
                 PROVE  tasks[i] \in PushTasks!Partners(t) <=> tasks[i].svc = t.svc
    OBVIOUS
  <2>2. tasks[i] \in Task
    BY <1>2
  <2>3. MergedTask[<<tasks[i], t>>] # NoTask <=> tasks[i].svc = t.svc
    BY <2>2, MergedTaskIs
  <2>4. QED
    BY <1>3, <2>2, <2>3, Zenon
<1>5. TaskPushed(t)
  <2>1. CASE /\ PushTasks!Returns("MERGED", NoTask)
             /\ \E i \in 1 .. Len(tasks) :
                  /\ PushTasks!First(i, PushTasks!Partners(t))
                  /\ tasks' = [tasks EXCEPT ![i] = MergedTask[@, t]]
    <3>1. PICK i \in 1 .. Len(tasks) :
            /\ tasks[i] \in PushTasks!Partners(t)
            /\ tasks' = [tasks EXCEPT ![i] = MergedTask[<<tasks[i], t>>]]
      BY <2>1, Zenon DEF PushTasks!First
    <3>2. tasks[i].svc = t.svc /\ MergedTask[<<tasks[i], t>>] = t
      BY <1>2, <1>4, <3>1, MergedTaskIs, Zenon
    <3>3. pushedTask'.ret = "MERGED"
      BY <2>1 DEF PushTasks!Returns
    <3>4. tasks' = [tasks EXCEPT ![i] = t]
      BY <3>1, <3>2, Zenon
    <3>5. QED
      BY <3>2, <3>3, <3>4, Zenon DEF TaskPushed
  <2>2. CASE /\ PushTasks!Held \cap PushTasks!Partners(t) = {} /\ Len(tasks) < TASK_CAPACITY
             /\ tasks' = Append(tasks, t) /\ PushTasks!Returns("OK", NoTask)
    <3>1. \A i \in 1 .. Len(tasks) : tasks[i] \notin PushTasks!Partners(t)
      BY <2>2, Zenon DEF PushTasks!Held
    <3>2. pushedTask'.ret = "OK"
      BY <2>2 DEF PushTasks!Returns
    <3>3. QED
      BY <1>4, <2>2, <3>1, <3>2, Zenon DEF TaskPushed
  <2>3. CASE tasks' = tasks /\ PushTasks!Returns("DROPPED", NoTask)
    <3>1. pushedTask'.ret = "DROPPED"
      BY <2>3 DEF PushTasks!Returns
    <3>2. QED
      BY <2>3, <3>1, Zenon DEF TaskPushed
  <2>4. taskPolicy # "OVERWRITE_OLDEST"
    BY <1>1
  <2>5. QED
    BY <2>1, <2>2, <2>3, <2>4, Zenon DEF PushTasks!Push
<1>6. QED
  BY <1>5, Zenon DEF PushTasks!Push

LEMMA TaskPushedTypes ==
  ASSUME StatusTypeOK, OneTaskEach, NEW t \in Task, TaskPushed(t)
  PROVE  /\ tasks' \in Seq(Task) /\ Len(tasks') <= TASK_CAPACITY
         /\ Len(tasks') <= Len(tasks) + 1
         /\ OneTaskEach'
<1>1. tasks \in Seq(Task) /\ Len(tasks) \in Nat /\ Len(tasks) <= TASK_CAPACITY
  BY LenProperties DEF StatusTypeOK
<1>2. \A i \in 1 .. Len(tasks) : tasks[i] \in Task
  BY <1>1, ElementOfSeq
<1>3. CASE \E i \in 1 .. Len(tasks) : tasks[i].svc = t.svc /\ tasks' = [tasks EXCEPT ![i] = t]
  <2>1. PICK k \in 1 .. Len(tasks) : tasks[k].svc = t.svc /\ tasks' = [tasks EXCEPT ![k] = t]
    BY <1>3
  <2>2. /\ tasks' \in Seq(Task) /\ Len(tasks') = Len(tasks)
        /\ \A j \in 1 .. Len(tasks) : tasks'[j] = IF j = k THEN t ELSE tasks[j]
    BY <1>1, <2>1, ExceptSeq
  <2>3. \A j \in 1 .. Len(tasks) : tasks'[j].svc = tasks[j].svc
    BY <2>1, <2>2
  <2>4. OneTaskEach'
    BY <2>2, <2>3, Zenon DEF OneTaskEach
  <2>5. QED
    BY <1>1, <2>2, <2>4
<1>4. CASE /\ \A i \in 1 .. Len(tasks) : tasks[i].svc # t.svc
           /\ Len(tasks) < TASK_CAPACITY /\ tasks' = Append(tasks, t)
  <2>1. /\ tasks' \in Seq(Task) /\ Len(tasks') = Len(tasks) + 1
        /\ \A j \in 1 .. Len(tasks) : tasks'[j] = tasks[j]
        /\ tasks'[Len(tasks) + 1] = t
    BY <1>1, <1>4, AppendProperties
  <2>2. \A j \in 1 .. Len(tasks') : j \in 1 .. Len(tasks) \/ j = Len(tasks) + 1
    BY <1>1, <2>1
  <2>3. OneTaskEach'
    <3>1. SUFFICES ASSUME NEW i \in 1 .. Len(tasks'), NEW j \in 1 .. Len(tasks'),
                          tasks'[i].svc = tasks'[j].svc
                   PROVE  i = j
      BY Zenon DEF OneTaskEach
    <3>2. CASE i \in 1 .. Len(tasks) /\ j \in 1 .. Len(tasks)
      <4>1. tasks'[i] = tasks[i] /\ tasks'[j] = tasks[j]
        BY <2>1, <3>2
      <4>2. tasks[i].svc = tasks[j].svc
        BY <3>1, <4>1
      <4>3. QED
        BY <3>2, <4>2 DEF OneTaskEach
    <3>3. CASE i \in 1 .. Len(tasks) /\ j = Len(tasks) + 1
      BY <1>4, <2>1, <3>1, <3>3
    <3>4. CASE i = Len(tasks) + 1 /\ j \in 1 .. Len(tasks)
      BY <1>4, <2>1, <3>1, <3>4
    <3>5. QED
      BY <2>2, <3>2, <3>3, <3>4
  <2>4. QED
    BY <1>1, <1>4, <2>1, <2>3
<1>5. CASE tasks' = tasks
  BY <1>1, <1>5 DEF OneTaskEach
<1>6. QED
  BY <1>3, <1>4, <1>5, Zenon DEF TaskPushed

\* Pop takes the oldest task.
TaskTaken ==
  \/ tasks = <<>> /\ tasks' = <<>> /\ task' = NotTaken
  \/ /\ tasks # <<>> /\ tasks' = Tail(tasks)
     /\ task'.ret = "OK" /\ task'.out = Head(tasks)

LEMMA TaskIsTaken ==
  ASSUME TakeTasks!Pop
  PROVE  TaskTaken /\ taskPolicy' = taskPolicy /\ taskMerging' = taskMerging
<1>1. CASE tasks = <<>> /\ TakeTasks!Returns("ERR", NoTask) /\ UNCHANGED tasks
  BY <1>1 DEF TaskTaken, TakeTasks!Returns, NotTaken, TakeTasks!Pop
<1>2. CASE tasks # <<>> /\ TakeTasks!Returns("OK", Head(tasks)) /\ tasks' = Tail(tasks)
  BY <1>2 DEF TaskTaken, TakeTasks!Returns, TakeTasks!Pop
<1>3. QED
  BY <1>1, <1>2, Zenon DEF TakeTasks!Pop

LEMMA TaskTakenTypes ==
  ASSUME StatusTypeOK, OneTaskEach, tasks # <<>>, tasks' = Tail(tasks)
  PROVE  /\ tasks' \in Seq(Task) /\ Len(tasks') <= TASK_CAPACITY
         /\ Len(tasks) \in Nat /\ Len(tasks') = Len(tasks) - 1
         /\ Head(tasks) \in Task /\ Head(tasks) = tasks[1]
         /\ \A i \in 1 .. Len(tasks') : tasks'[i] = tasks[i + 1]
         /\ OneTaskEach'
<1>1. tasks \in Seq(Task) /\ Len(tasks) \in Nat /\ Len(tasks) <= TASK_CAPACITY
  BY LenProperties DEF StatusTypeOK
<1>2. /\ Head(tasks) \in Task /\ tasks' \in Seq(Task) /\ Len(tasks') = Len(tasks) - 1
      /\ \A i \in 1 .. Len(tasks') : tasks'[i] = tasks[i + 1]
  BY <1>1, HeadTailProperties
<1>3. Head(tasks) = tasks[1]
  BY <1>1
<1>4. \A i \in 1 .. Len(tasks') : i + 1 \in 1 .. Len(tasks)
  BY <1>1, <1>2
<1>5. \A i, j \in 1 .. Len(tasks') : i + 1 = j + 1 => i = j
  BY <1>1, <1>2
<1>6. OneTaskEach'
  <2>1. SUFFICES ASSUME NEW i \in 1 .. Len(tasks'), NEW j \in 1 .. Len(tasks'),
                        tasks'[i].svc = tasks'[j].svc
                 PROVE  i = j
    BY DEF OneTaskEach
  <2>2. tasks[i + 1].svc = tasks[j + 1].svc
    BY <1>2, <2>1
  <2>3. i + 1 = j + 1
    BY <1>4, <2>2 DEF OneTaskEach
  <2>4. QED
    BY <1>5, <2>3
<1>7. QED
  BY <1>1, <1>2, <1>3, <1>6

\* The queue of results refuses what does not fit, and merges nothing.
LEMMA ResultIsPushed ==
  ASSUME StatusTypeOK, NEW r \in Result, PushResults!Push(r)
  PROVE  /\ \/ /\ pushedResult'.ret = "OK" /\ Len(results) < RESULT_CAPACITY
               /\ results' = Append(results, r)
            \/ /\ pushedResult'.ret = "DROPPED" /\ Len(results) = RESULT_CAPACITY
               /\ results' = results
         /\ results' \in Seq(Result) /\ Len(results') <= RESULT_CAPACITY
         /\ Len(results') <= Len(results) + 1
         /\ resultPolicy' = resultPolicy /\ resultMerging' = resultMerging
<1>1. results \in Seq(Result) /\ Len(results) \in Nat /\ Len(results) <= RESULT_CAPACITY
  BY LenProperties DEF StatusTypeOK
<1>2. PushResults!Partners(r) = {}
  BY DEF StatusTypeOK, PushResults!Partners
<1>3. /\ resultPolicy # "OVERWRITE_OLDEST"
      /\ resultPolicy' = resultPolicy /\ resultMerging' = resultMerging
  BY DEF StatusTypeOK, PushResults!Push
<1>4. CASE /\ Len(results) < RESULT_CAPACITY /\ results' = Append(results, r)
           /\ PushResults!Returns("OK", NoResult)
  <2>1. results' \in Seq(Result) /\ Len(results') = Len(results) + 1
    BY <1>1, <1>4, AppendProperties
  <2>2. pushedResult'.ret = "OK"
    BY <1>4 DEF PushResults!Returns
  <2>3. QED
    BY <1>1, <1>3, <1>4, <2>1, <2>2
<1>5. CASE /\ Len(results) = RESULT_CAPACITY /\ results' = results
           /\ PushResults!Returns("DROPPED", NoResult)
  <2>1. pushedResult'.ret = "DROPPED"
    BY <1>5 DEF PushResults!Returns
  <2>2. QED
    BY <1>1, <1>3, <1>5, <2>1
<1>6. \A i : ~PushResults!First(i, PushResults!Partners(r))
  BY <1>2, Zenon DEF PushResults!First
<1>7. QED
  BY <1>3, <1>4, <1>5, <1>6, Zenon DEF PushResults!Push

----------------------------------------------------------------------------
(* ThreadedStatus: the connection *)

LEMMA ConnectionAttempts ==
  ASSUME NEW u \in Connection
  PROVE  ensure_context(u) \subseteq Connection
<1>1. SUFFICES ASSUME NEW v \in ensure_context(u) PROVE v \in Connection
  OBVIOUS
<1>2. u.failures \in 0 .. INT_BITS + 1
  BY DEF Connection
<1> DEFINE n == IF u.failures <= INT_BITS THEN u.failures + 1 ELSE u.failures
<1>3. n \in 0 .. INT_BITS + 1
  BY <1>2
<1>4. v = u \/ v \in Tries(u)
  <2>1. CASE u.at # "none"
    BY <1>1, <2>1, Zenon DEF ensure_context
  <2>2. CASE u.at = "none"
    <3>1. v \in UNION {IF u.since < d THEN {u} ELSE Tries(u) : d \in get_backoff_delay(u.failures)}
      BY <1>1, <2>2, Zenon DEF ensure_context
    <3>2. PICK d \in get_backoff_delay(u.failures) : v \in IF u.since < d THEN {u} ELSE Tries(u)
      BY <3>1, Zenon
    <3>3. QED
      BY <3>2, Zenon
  <2>3. QED
    BY <2>1, <2>2
<1>5. \/ v = u
      \/ v = [at |-> "context", failures |-> 0, since |-> 0]
      \/ v = [at |-> "none", since |-> 0, failures |-> n]
  BY <1>4, Zenon DEF Tries
<1> HIDE DEF n
<1>6. QED
  BY <1>3, <1>5 DEF Connection

LEMMA ConnectionMoves ==
  ASSUME NEW u \in Connection, NEW at \in {"none", "context", "rc"}
  PROVE  [u EXCEPT !.at = at] \in Connection
BY DEF Connection

LEMMA LookUps ==
  ASSUME NEW u \in Connection
  PROVE  ensure_rc_id(u) \subseteq Connection
<1>1. SUFFICES ASSUME NEW w \in ensure_rc_id(u) PROVE w \in Connection
  OBVIOUS
<1>2. PICK v \in ensure_context(u) :
        w \in IF v.at = "context" THEN {[v EXCEPT !.at = "rc"], reset_connection(v)} ELSE {v}
  BY <1>1, Zenon DEF ensure_rc_id
<1>3. v \in Connection
  BY <1>2, ConnectionAttempts
<1>4. w = v \/ w = [v EXCEPT !.at = "rc"] \/ w = [v EXCEPT !.at = "none"]
  BY <1>2, Zenon DEF reset_connection
<1>5. QED
  BY <1>3, <1>4, ConnectionMoves

LEMMA AttemptTypes ==
  ASSUME NEW u \in Connection, NEW a \in Attempts(u)
  PROVE  a.conn \in Connection
<1> DEFINE B == {w \in ensure_rc_id(u) : w.at # "rc"}
           C == {w \in ensure_rc_id(u) : w.at = "rc"}
<1>1. a \in {[conn |-> v, outcome |-> "unsent"] : v \in B}
            \cup {[conn |-> v, outcome |-> o] : v \in C, o \in Outcomes}
  BY DEF Attempts
<1>2. B \subseteq Connection /\ C \subseteq Connection
  BY LookUps
<1> HIDE DEF B, C
<1>3. QED
  BY <1>1, <1>2

LEMMA InvocationTypes ==
  ASSUME NEW u \in Connection, NEW a \in Invocations(u)
  PROVE  a.conn \in Connection
<1>1. CASE a \in Attempts(u)
  BY <1>1, AttemptTypes
<1>2. CASE \E b \in Attempts(u) : a \in Attempts(reset_connection(b.conn))
  <2>1. PICK b \in Attempts(u) : a \in Attempts(reset_connection(b.conn))
    BY <1>2
  <2>2. reset_connection(b.conn) \in Connection
    BY AttemptTypes, ConnectionMoves DEF reset_connection
  <2>3. QED
    BY <2>1, <2>2, AttemptTypes
<1>3. QED
  BY <1>1, <1>2, Zenon DEF Invocations

----------------------------------------------------------------------------
(* ThreadedStatus: one lemma for each thread's steps *)

LEMMA StatusInit ==
  ASSUME Init
  PROVE  FlowInv
<1>1. /\ tasks = <<>> /\ taskPolicy = "COALESCE" /\ taskMerging = TRUE
      /\ results = <<>> /\ resultPolicy = "REJECT_NEW" /\ resultMerging = FALSE
      /\ pushedResult = NoAnswer
      /\ ubus \in ensure_context([at |-> "none", failures |-> 0, since |-> 0])
      /\ service = [s \in Svc |-> NotAsked] /\ visiting = 0
      /\ wpc = "pop" /\ task = NotTaken /\ result = NoResult
      /\ running = TRUE /\ stage = "up" /\ up \in BOOLEAN
  BY Zenon DEF Init, task_queue_init, result_queue_init, real_init
<1>2. ubus \in Connection
  <2> DEFINE u == [at |-> "none", failures |-> 0, since |-> 0]
  <2>1. u \in Connection
    BY DEF Connection
  <2>2. ubus \in ensure_context(u)
    BY <1>1
  <2> HIDE DEF u
  <2>3. QED
    BY <2>1, <2>2, ConnectionAttempts
<1>3. service \in [Svc -> Service]
  BY <1>1 DEF Service, NotAsked
<1>4. /\ tasks \in Seq(Task) /\ Len(tasks) = 0
      /\ results \in Seq(Result) /\ Len(results) = 0
  BY <1>1, EmptySeq
<1>5. StatusTypeOK
  <2>1. running \in BOOLEAN /\ stage \in {"up", "ui stopped", "joining", "stopped"}
        /\ visiting \in 0 .. service_count
        /\ wpc \in {"pop", "have", "invoke", "push", "poll", "cancel", "push cancelled", "done"}
    BY <1>1
  <2>2. Len(tasks) <= TASK_CAPACITY /\ Len(results) <= RESULT_CAPACITY
    BY <1>4
  <2>3. QED
    BY <1>1, <1>2, <1>3, <1>4, <2>1, <2>2, Zenon DEF StatusTypeOK
<1>6. ~Holding /\ ~Answering
  BY <1>1 DEF Holding, Answering
<1>7. HandInv
  BY <1>1, <1>6, Zenon DEF HandInv
<1>8. OneTaskEach
  BY <1>4 DEF OneTaskEach
<1>9. RoomForResults
  BY <1>1, <1>4, <1>6 DEF RoomForResults, InHand, ToVisit
<1>10. ResultsFit
  BY <1>1 DEF ResultsFit, NoAnswer
<1>11. QED
  BY <1>5, <1>7, <1>8, <1>9, <1>10 DEF FlowInv

\* What the services accept is a service again.
LEMMA AcceptedTypes ==
  ASSUME StatusTypeOK, NEW s \in Svc
  PROVE  Accepted(s) \in Service
<1>1. service[s] \in Service
  BY DEF StatusTypeOK
<1>2. ASSUME Answers(s) # {}
      PROVE  Taken[Min(Answers(s))].success \in BOOLEAN
  <2>1. results \in Seq(Result) /\ Len(results) \in Nat
    BY LenProperties DEF StatusTypeOK
  <2>2. Answers(s) \in SUBSET Nat /\ Answers(s) \subseteq 1 .. Len(results)
    BY <2>1 DEF Answers, Taken
  <2>3. Min(Answers(s)) \in 1 .. Len(results)
    BY <1>2, <2>2, LeastExists
  <2>4. results[Min(Answers(s))] \in Result
    BY <2>1, <2>3, ElementOfSeq
  <2>5. QED
    BY <2>4 DEF Result, Taken
<1>3. CASE Answers(s) # {} /\ service[s].pending
  <2> DEFINE b == Taken[Min(Answers(s))].success
  <2>1. Accepted(s) = [NotAsked EXCEPT !.valid = b]
    BY <1>3 DEF Accepted
  <2>2. b \in BOOLEAN
    BY <1>2, <1>3
  <2> HIDE DEF b
  <2>3. Accepted(s) = [pending |-> FALSE, id |-> 0, age |-> 0, valid |-> b]
    BY <2>1 DEF NotAsked
  <2>4. 0 \in 0 .. IDS
    OBVIOUS
  <2>5. QED
    BY <2>2, <2>3, <2>4 DEF Service
<1>4. CASE ~(Answers(s) # {} /\ service[s].pending)
  BY <1>1, <1>4 DEF Accepted
<1>5. QED
  BY <1>3, <1>4

\* With the results taken, at most one task of each service, one in hand and the visits of
\* this tick are left.
LEMMA TickFlow ==
  ASSUME FlowInv, NEW idle \in BOOLEAN, Tick(idle)
  PROVE  FlowInv'
<1>1. StatusTypeOK /\ HandInv /\ OneTaskEach
  BY DEF FlowInv
<1>2. /\ visiting' = (IF idle THEN 1 ELSE 0) /\ stage' = stage /\ running' = running /\ up' = up
      /\ tasks' = tasks /\ taskPolicy' = taskPolicy /\ taskMerging' = taskMerging
      /\ resultPolicy' = resultPolicy /\ resultMerging' = resultMerging
      /\ wpc' = wpc /\ task' = task /\ result' = result /\ ubus' = ubus
      /\ pushedResult' = NoAnswer
      /\ service' = [s \in Svc |-> Accepted(s)]
      /\ results' = SubSeq(results, Len(Taken) + 1, Len(results))
  BY DEF Tick, taskVars, workerVars, mainVars
<1>3. results' = <<>> /\ results' \in Seq(Result) /\ Len(results') = 0
  <2>1. Len(results) \in Nat
    BY <1>1, LenProperties DEF StatusTypeOK
  <2>2. results' = <<>>
    BY <1>2, <2>1, SubSeqEmpty DEF Taken
  <2>3. QED
    BY <2>2, EmptySeq
<1>4. service' \in [Svc -> Service]
  BY <1>1, <1>2, AcceptedTypes
<1>5. visiting' \in 0 .. service_count
  BY <1>2
<1>6. StatusTypeOK'
  <2>1. Len(results') <= RESULT_CAPACITY
    BY <1>3
  <2>2. QED
    BY <1>1, <1>2, <1>3, <1>4, <1>5, <2>1, Zenon DEF StatusTypeOK
<1>7. HandInv'
  BY <1>1, <1>2 DEF HandInv, Holding, Answering
<1>8. OneTaskEach'
  BY <1>1, <1>2 DEF OneTaskEach
<1>9. RoomForResults'
  <2>1. Len(tasks) \in Nat /\ Len(tasks) <= service_count
    BY <1>1, TasksAreFew DEF StatusTypeOK
  <2>2. InHand' \in {0, 1}
    BY DEF InHand
  <2>3. ToVisit' <= service_count /\ ToVisit' \in Int
    BY <1>2 DEF ToVisit
  <2>4. Len(tasks') = Len(tasks)
    BY <1>2
  <2>5. QED
    BY <1>3, <2>1, <2>2, <2>3, <2>4 DEF RoomForResults
<1>10. ResultsFit'
  BY <1>2 DEF ResultsFit, NoAnswer
<1>11. QED
  BY <1>6, <1>7, <1>8, <1>9, <1>10 DEF FlowInv

LEMMA SkipFlow ==
  ASSUME FlowInv, Skip
  PROVE  FlowInv'
<1>1. StatusTypeOK /\ HandInv /\ OneTaskEach /\ RoomForResults /\ ResultsFit
  BY DEF FlowInv
<1>2. /\ visiting # 0 /\ visiting' = Following(visiting) /\ stage' = stage /\ running' = running
      /\ up' = up /\ service' = service
      /\ tasks' = tasks /\ taskPolicy' = taskPolicy /\ taskMerging' = taskMerging
      /\ results' = results /\ resultPolicy' = resultPolicy /\ resultMerging' = resultMerging
      /\ wpc' = wpc /\ task' = task /\ result' = result /\ ubus' = ubus
      /\ pushedResult' = pushedResult
  BY DEF Skip, taskVars, resultVars, workerVars, mainVars
<1>3. visiting \in 1 .. service_count
  <2>1. visiting \in 0 .. service_count /\ visiting # 0
    BY <1>1, <1>2 DEF StatusTypeOK
  <2>2. QED
    BY <2>1
<1>4. visiting' \in 0 .. service_count
  BY <1>2, <1>3 DEF Following
<1>5. StatusTypeOK'
  BY <1>1, <1>2, <1>4, Zenon DEF StatusTypeOK
<1>6. HandInv' /\ OneTaskEach' /\ ResultsFit'
  BY <1>1, <1>2 DEF HandInv, Holding, Answering, OneTaskEach, ResultsFit
<1>7. RoomForResults'
  <2>1. ToVisit' = ToVisit - 1 /\ ToVisit \in Int
    BY <1>2, <1>3, <1>4 DEF ToVisit, Following
  <2>2. InHand' = InHand /\ InHand \in Int
    BY <1>2 DEF InHand, Holding
  <2>3. Len(tasks) \in Nat /\ Len(results) \in Nat
    BY <1>1, LenProperties DEF StatusTypeOK
  <2>4. QED
    BY <1>1, <1>2, <2>1, <2>2, <2>3 DEF RoomForResults
<1>8. QED
  BY <1>5, <1>6, <1>7 DEF FlowInv

\* What Ask asks for, and what becomes of it.
NewTask == [svc |-> visiting, id |-> next_request_id]

LEMMA AskIs ==
  ASSUME FlowInv, Ask
  PROVE  /\ visiting \in Svc /\ next_request_id \in Id /\ next_request_id \notin InUse
         /\ NewTask \in Task /\ TaskPushed(NewTask)
         /\ taskPolicy' = taskPolicy /\ taskMerging' = taskMerging
         /\ visiting' = Following(visiting)
         /\ service' = [service EXCEPT ![visiting] = Asked(visiting, pushedTask'.ret)]
         /\ Asked(visiting, pushedTask'.ret) \in Service
         /\ stage' = stage /\ running' = running /\ up' = up
         /\ results' = results /\ resultPolicy' = resultPolicy /\ resultMerging' = resultMerging
         /\ wpc' = wpc /\ task' = task /\ result' = result /\ ubus' = ubus
         /\ pushedResult' = pushedResult
<1>1. StatusTypeOK /\ HandInv /\ OneTaskEach
  BY DEF FlowInv
<1>2. visiting \in Svc
  <2>1. visiting \in 0 .. service_count /\ visiting # 0
    BY <1>1 DEF StatusTypeOK, Ask
  <2>2. QED
    BY <2>1 DEF Svc
<1>3. next_request_id \in Id /\ next_request_id \notin InUse
  BY <1>1, FreshId
<1>4. NewTask \in Task
  BY <1>2, <1>3 DEF NewTask, Task
<1>5. PushTasks!Push(NewTask)
  BY Zenon DEF Ask, NewTask
<1>6. TaskPushed(NewTask) /\ taskPolicy' = taskPolicy /\ taskMerging' = taskMerging
  BY <1>1, <1>4, <1>5, TaskIsPushed
<1>7. Asked(visiting, pushedTask'.ret) \in Service
  <2> DEFINE n == IF pushedTask'.ret = "OK" THEN next_request_id ELSE 0
             p == pushedTask'.ret = "OK"
             v == service[visiting].valid /\ ~TimedOut(visiting)
  <2>1. Asked(visiting, pushedTask'.ret) = [pending |-> p, id |-> n, age |-> 0, valid |-> v]
    BY DEF Asked
  <2>2. n \in 0 .. IDS
    BY <1>3 DEF Id
  <2>3. p \in BOOLEAN /\ v \in BOOLEAN
    OBVIOUS
  <2> HIDE DEF n, p, v
  <2>4. QED
    BY <2>1, <2>2, <2>3 DEF Service
<1>8. /\ visiting' = Following(visiting)
      /\ service' = [service EXCEPT ![visiting] = Asked(visiting, pushedTask'.ret)]
      /\ stage' = stage /\ running' = running /\ up' = up
      /\ results' = results /\ resultPolicy' = resultPolicy /\ resultMerging' = resultMerging
      /\ wpc' = wpc /\ task' = task /\ result' = result /\ ubus' = ubus
      /\ pushedResult' = pushedResult
  BY DEF Ask, resultVars, workerVars, mainVars
<1>9. QED
  BY <1>2, <1>3, <1>4, <1>6, <1>7, <1>8, Zenon

LEMMA AskFlow ==
  ASSUME FlowInv, Ask
  PROVE  FlowInv'
<1>1. StatusTypeOK /\ HandInv /\ OneTaskEach /\ RoomForResults /\ ResultsFit
  BY DEF FlowInv
<1>2. /\ tasks' \in Seq(Task) /\ Len(tasks') <= TASK_CAPACITY /\ Len(tasks') <= Len(tasks) + 1
      /\ OneTaskEach'
  BY <1>1, AskIs, TaskPushedTypes, Zenon
<1>3. service' \in [Svc -> Service]
  <2>1. service \in [Svc -> Service]
    BY <1>1 DEF StatusTypeOK
  <2> DEFINE a == Asked(visiting, pushedTask'.ret)
  <2>2. a \in Service /\ service' = [service EXCEPT ![visiting] = a]
    BY AskIs, Zenon
  <2> HIDE DEF a
  <2>3. QED
    BY <2>1, <2>2
<1>4. visiting \in 1 .. service_count /\ visiting' = Following(visiting)
  BY AskIs DEF Svc
<1>5. visiting' \in 0 .. service_count
  BY <1>4 DEF Following
<1>6. StatusTypeOK'
  BY <1>1, <1>2, <1>3, <1>5, AskIs, Zenon DEF StatusTypeOK
<1>7. wpc' = wpc /\ task' = task /\ result' = result /\ pushedResult' = pushedResult
      /\ results' = results
  BY AskIs, Zenon
<1>8. HandInv' /\ ResultsFit'
  BY <1>1, <1>7 DEF HandInv, Holding, Answering, ResultsFit
<1>9. RoomForResults'
  <2>1. ToVisit' = ToVisit - 1 /\ ToVisit \in Int
    BY <1>4, <1>5 DEF ToVisit, Following
  <2>2. InHand' = InHand /\ InHand \in Int
    BY <1>7 DEF InHand, Holding
  <2>3. Len(tasks) \in Nat /\ Len(results) \in Nat /\ Len(tasks') \in Nat
    BY <1>1, <1>2, LenProperties DEF StatusTypeOK
  <2>4. Len(results') = Len(results)
    BY <1>7
  <2>5. QED
    BY <1>1, <1>2, <2>1, <2>2, <2>3, <2>4 DEF RoomForResults
<1>10. QED
  BY <1>2, <1>6, <1>8, <1>9 DEF FlowInv

\* What no step of the ubus thread touches.
LEMMA WorkerLeaves ==
  ASSUME WorkerKeeps
  PROVE  /\ taskPolicy' = taskPolicy /\ taskMerging' = taskMerging
         /\ resultPolicy' = resultPolicy /\ resultMerging' = resultMerging
         /\ service' = service /\ visiting' = visiting
         /\ running' = running /\ stage' = stage /\ up' = up
         /\ ToVisit' = ToVisit
BY DEF WorkerKeeps, uiVars, mainVars, ToVisit

LEMMA TakeFlow ==
  ASSUME FlowInv, TakeTask
  PROVE  FlowInv'
<1>1. StatusTypeOK /\ HandInv /\ OneTaskEach /\ RoomForResults /\ ResultsFit
  BY DEF FlowInv
<1>2. /\ wpc = "pop" /\ wpc' = (IF task'.ret = "OK" THEN "have" ELSE "poll")
      /\ TaskTaken /\ WorkerKeeps
      /\ results' = results /\ result' = result /\ ubus' = ubus
      /\ pushedResult' = pushedResult
  BY TaskIsTaken, Zenon DEF TakeTask
<1>3. Len(tasks) \in Nat /\ Len(results) \in Nat
  BY <1>1, LenProperties DEF StatusTypeOK
<1>4. ~Holding /\ ~Answering /\ ~Answering' /\ InHand = 0
  BY <1>2 DEF Holding, Answering, InHand
<1>5. CASE tasks = <<>>
  <2>1. tasks' = tasks /\ task' = NotTaken /\ wpc' = "poll"
    BY <1>2, <1>5 DEF TaskTaken, NotTaken
  <2>2. StatusTypeOK'
    BY <1>1, <1>2, <2>1, WorkerLeaves DEF StatusTypeOK
  <2>3. ~Holding' /\ InHand' = 0
    BY <2>1 DEF Holding, InHand
  <2>4. HandInv' /\ OneTaskEach' /\ ResultsFit'
    BY <1>1, <1>2, <1>4, <2>1, <2>3 DEF HandInv, OneTaskEach, ResultsFit
  <2>5. RoomForResults'
    BY <1>1, <1>2, <1>4, <2>1, <2>3, WorkerLeaves DEF RoomForResults
  <2>6. QED
    BY <2>2, <2>4, <2>5 DEF FlowInv
<1>6. CASE tasks # <<>>
  <2>1. tasks' = Tail(tasks) /\ task'.out = Head(tasks) /\ wpc' = "have"
    BY <1>2, <1>6 DEF TaskTaken
  <2>2. /\ tasks' \in Seq(Task) /\ Len(tasks') <= TASK_CAPACITY
        /\ Len(tasks') = Len(tasks) - 1 /\ Head(tasks) \in Task /\ OneTaskEach'
    BY <1>1, <1>6, <2>1, TaskTakenTypes
  <2>3. StatusTypeOK'
    <3>1. wpc' \in {"pop", "have", "invoke", "push", "poll", "cancel", "push cancelled", "done"}
      BY <2>1
    <3>2. QED
      BY <1>1, <1>2, <2>2, <3>1, WorkerLeaves, Zenon DEF StatusTypeOK
  <2>4. Holding' /\ InHand' = 1
    BY <2>1 DEF Holding, InHand
  <2>5. HandInv' /\ ResultsFit'
    BY <1>1, <1>2, <1>4, <2>1, <2>2, <2>4 DEF HandInv, ResultsFit
  <2>6. RoomForResults'
    <3>1. visiting \in 0 .. service_count
      BY <1>1 DEF StatusTypeOK
    <3>2. ToVisit' = ToVisit /\ ToVisit \in Int
      BY <1>2, <3>1, WorkerLeaves DEF ToVisit
    <3>3. Len(results') = Len(results)
      BY <1>2
    <3>4. Len(results) + Len(tasks) + 0 + ToVisit <= 2 * service_count + 1
      BY <1>1, <1>4 DEF RoomForResults
    <3>5. Len(results') + Len(tasks') + 1 + ToVisit' <= 2 * service_count + 1
      BY <1>3, <2>2, <3>2, <3>3, <3>4
    <3>6. QED
      BY <2>4, <3>5 DEF RoomForResults
  <2>7. QED
    BY <2>2, <2>3, <2>5, <2>6 DEF FlowInv
<1>7. QED
  BY <1>5, <1>6

LEMMA FailedTypes ==
  ASSUME NEW t \in Task
  PROVE  Failed(t) \in Result /\ Failed(t).id = t.id
BY DEF Failed, Result, Task

LEMMA CancelFlow ==
  ASSUME FlowInv, CancelTask
  PROVE  FlowInv'
<1>1. StatusTypeOK /\ HandInv /\ OneTaskEach /\ RoomForResults /\ ResultsFit
  BY DEF FlowInv
<1>2. /\ wpc = "cancel" /\ TaskTaken /\ WorkerKeeps
      /\ IF task'.ret = "OK" THEN wpc' = "push cancelled" /\ result' = Failed(task'.out)
         ELSE wpc' = "done" /\ result' = result
      /\ results' = results /\ ubus' = ubus /\ pushedResult' = pushedResult
  BY TaskIsTaken, Zenon DEF CancelTask
<1>3. Len(tasks) \in Nat /\ Len(results) \in Nat
  BY <1>1, LenProperties DEF StatusTypeOK
<1>4. ~Holding /\ ~Answering /\ InHand = 0
  BY <1>2 DEF Holding, Answering, InHand
<1>5. CASE tasks = <<>>
  <2>1. tasks' = tasks /\ task' = NotTaken /\ wpc' = "done" /\ result' = result
    <3>1. tasks' = tasks /\ task' = NotTaken
      BY <1>2, <1>5 DEF TaskTaken
    <3>2. task'.ret = "ERR"
      BY <3>1 DEF NotTaken
    <3>3. QED
      BY <1>2, <3>1, <3>2
  <2>2. StatusTypeOK'
    BY <1>1, <1>2, <2>1, WorkerLeaves DEF StatusTypeOK
  <2>3. ~Holding' /\ ~Answering' /\ InHand' = 0
    BY <2>1 DEF Holding, Answering, InHand
  <2>4. HandInv' /\ OneTaskEach' /\ ResultsFit'
    BY <1>1, <1>2, <1>4, <2>1, <2>3 DEF HandInv, OneTaskEach, ResultsFit
  <2>5. RoomForResults'
    BY <1>1, <1>2, <1>4, <2>1, <2>3, WorkerLeaves DEF RoomForResults
  <2>6. QED
    BY <2>2, <2>4, <2>5 DEF FlowInv
<1>6. CASE tasks # <<>>
  <2>1. /\ tasks' = Tail(tasks) /\ task'.out = Head(tasks) /\ wpc' = "push cancelled"
        /\ result' = Failed(task'.out)
    BY <1>2, <1>6 DEF TaskTaken
  <2>2. /\ tasks' \in Seq(Task) /\ Len(tasks') <= TASK_CAPACITY
        /\ Len(tasks') = Len(tasks) - 1 /\ Head(tasks) \in Task /\ OneTaskEach'
    BY <1>1, <1>6, <2>1, TaskTakenTypes
  <2>3. StatusTypeOK'
    <3>1. wpc' \in {"pop", "have", "invoke", "push", "poll", "cancel", "push cancelled", "done"}
      BY <2>1
    <3>2. QED
      BY <1>1, <1>2, <2>2, <3>1, WorkerLeaves, Zenon DEF StatusTypeOK
  <2>4. Holding' /\ Answering' /\ InHand' = 1
    BY <2>1 DEF Holding, Answering, InHand
  <2>5. HandInv' /\ ResultsFit'
    <3>1. task'.out \in Task /\ result' \in Result /\ (result').id = task'.out.id
      BY <2>1, <2>2, FailedTypes
    <3>2. QED
      BY <1>1, <1>2, <2>4, <3>1 DEF HandInv, ResultsFit
  <2>6. RoomForResults'
    <3>1. visiting \in 0 .. service_count
      BY <1>1 DEF StatusTypeOK
    <3>2. ToVisit' = ToVisit /\ ToVisit \in Int
      <4>1. ToVisit' = ToVisit
        BY <1>2, WorkerLeaves, Zenon
      <4>2. QED
        BY <3>1, <4>1 DEF ToVisit
    <3>3. Len(results') = Len(results)
      BY <1>2
    <3>4. Len(results) + Len(tasks) + 0 + ToVisit <= 2 * service_count + 1
      BY <1>1, <1>4 DEF RoomForResults
    <3>5. Len(results') + Len(tasks') + 1 + ToVisit' <= 2 * service_count + 1
      BY <1>3, <2>2, <3>2, <3>3, <3>4
    <3>6. QED
      BY <2>4, <3>5 DEF RoomForResults
  <2>7. QED
    BY <2>2, <2>3, <2>5, <2>6 DEF FlowInv
<1>7. QED
  BY <1>5, <1>6

\* poll returns, a task expires, a call begins and comes back.
HandSteps == PollReturns \/ Expire \/ BeginCall \/ real_invoke

LEMMA HandStepIs ==
  ASSUME FlowInv, HandSteps
  PROVE  /\ tasks' = tasks /\ results' = results /\ task' = task /\ pushedResult' = pushedResult
         /\ WorkerKeeps /\ ubus' \in Connection
         /\ wpc' \in {"pop", "cancel", "push", "invoke"}
         /\ Holding' <=> Holding
         /\ Answering' => result' \in Result /\ (result').id = task'.out.id
         /\ ~Answering' => result' = NoResult
<1>1. StatusTypeOK /\ HandInv
  BY DEF FlowInv
<1>2. ubus \in Connection
  BY <1>1 DEF StatusTypeOK
<1>3. CASE PollReturns
  <2>1. wpc = "poll" /\ wpc' \in {"pop", "cancel"} /\ ubus' = ubus /\ result' = result
    BY <1>3 DEF PollReturns, LeaveLoop
  <2>2. ~Answering /\ ~Answering' /\ (Holding' <=> Holding)
    BY <2>1 DEF Answering, Holding
  <2>3. QED
    BY <1>1, <1>2, <1>3, <2>1, <2>2 DEF PollReturns, HandInv
<1>4. CASE Expire
  <2>1. wpc = "have" /\ wpc' = "push" /\ ubus' = ubus /\ result' = Failed(task.out) /\ task' = task
    BY <1>4 DEF Expire
  <2>2. Holding /\ Holding' /\ Answering'
    BY <2>1 DEF Holding, Answering
  <2>3. result' \in Result /\ (result').id = task'.out.id
    BY <1>1, <2>1, <2>2, FailedTypes DEF HandInv
  <2>4. QED
    BY <1>2, <1>4, <2>1, <2>2, <2>3 DEF Expire
<1>5. CASE BeginCall
  <2>1. wpc = "have" /\ wpc' = "invoke" /\ ubus' = ubus /\ result' = result
    BY <1>5 DEF BeginCall
  <2>2. ~Answering /\ ~Answering' /\ (Holding' <=> Holding)
    BY <2>1 DEF Answering, Holding
  <2>3. QED
    BY <1>1, <1>2, <1>5, <2>1, <2>2 DEF BeginCall, HandInv
<1>6. CASE real_invoke
  <2>1. wpc = "invoke" /\ wpc' = "push" /\ task' = task
    BY <1>6 DEF real_invoke
  <2>2. Holding /\ Holding' /\ Answering'
    BY <2>1 DEF Holding, Answering
  <2>3. PICK a \in Invocations(ubus) :
          /\ ubus' = a.conn
          /\ result' = [id |-> task.out.id, success |-> a.outcome = "answer"]
    BY <1>6 DEF real_invoke
  <2>4. ubus' \in Connection
    BY <1>2, <2>3, InvocationTypes
  <2>5. task.out.id \in Id
    BY <1>1, <2>2 DEF HandInv, Task
  <2>6. result' \in Result /\ (result').id = task'.out.id
    <3> DEFINE b == a.outcome = "answer"
    <3>1. b \in BOOLEAN /\ result' = [id |-> task.out.id, success |-> b]
      BY <2>3
    <3> HIDE DEF b
    <3>2. QED
      BY <2>1, <2>5, <3>1 DEF Result
  <2>7. QED
    BY <1>6, <2>1, <2>2, <2>4, <2>6 DEF real_invoke
<1>7. QED
  BY <1>3, <1>4, <1>5, <1>6, Zenon DEF HandSteps

LEMMA HandFlow ==
  ASSUME FlowInv, HandSteps
  PROVE  FlowInv'
<1>1. StatusTypeOK /\ HandInv /\ OneTaskEach /\ RoomForResults /\ ResultsFit
  BY DEF FlowInv
<1>2. wpc' \in {"pop", "have", "invoke", "push", "poll", "cancel", "push cancelled", "done"}
  BY HandStepIs
<1>3. StatusTypeOK'
  BY <1>1, <1>2, HandStepIs, WorkerLeaves, Zenon DEF StatusTypeOK
<1>4. HandInv' /\ OneTaskEach' /\ ResultsFit'
  BY <1>1, HandStepIs DEF HandInv, OneTaskEach, ResultsFit
<1>5. RoomForResults'
  <2>1. InHand' = InHand
    BY HandStepIs DEF InHand
  <2>2. QED
    BY <1>1, <2>1, HandStepIs, WorkerLeaves DEF RoomForResults
<1>6. QED
  BY <1>3, <1>4, <1>5 DEF FlowInv

LEMMA PushIs ==
  ASSUME FlowInv, PushResult
  PROVE  /\ result \in Result /\ result.id = task.out.id
         /\ \/ /\ pushedResult'.ret = "OK" /\ Len(results) < RESULT_CAPACITY
               /\ results' = Append(results, result)
            \/ /\ pushedResult'.ret = "DROPPED" /\ Len(results) = RESULT_CAPACITY
               /\ results' = results
         /\ results' \in Seq(Result) /\ Len(results') <= RESULT_CAPACITY
         /\ Len(results') <= Len(results) + 1
         /\ tasks' = tasks /\ task' = NotTaken /\ result' = NoResult /\ ubus' = ubus
         /\ WorkerKeeps /\ Holding /\ ~Holding' /\ ~Answering'
         /\ wpc' \in {"pop", "cancel"}
<1>1. StatusTypeOK /\ HandInv
  BY DEF FlowInv
<1>2. Answering /\ Holding /\ ~Holding' /\ ~Answering' /\ wpc' \in {"pop", "cancel"}
  BY DEF PushResult, Answering, Holding
<1>3. result \in Result /\ result.id = task.out.id
  BY <1>1, <1>2 DEF HandInv
<1>4. PushResults!Push(result)
  BY Zenon DEF PushResult
<1>5. /\ \/ /\ pushedResult'.ret = "OK" /\ Len(results) < RESULT_CAPACITY
            /\ results' = Append(results, result)
         \/ /\ pushedResult'.ret = "DROPPED" /\ Len(results) = RESULT_CAPACITY
            /\ results' = results
      /\ results' \in Seq(Result) /\ Len(results') <= RESULT_CAPACITY
      /\ Len(results') <= Len(results) + 1
  BY <1>1, <1>3, <1>4, ResultIsPushed
<1>6. tasks' = tasks /\ task' = NotTaken /\ result' = NoResult /\ ubus' = ubus /\ WorkerKeeps
  BY DEF PushResult
<1>7. QED
  BY <1>2, <1>3, <1>5, <1>6, Zenon

LEMMA PushFlow ==
  ASSUME FlowInv, PushResult
  PROVE  FlowInv'
<1>1. StatusTypeOK /\ HandInv /\ OneTaskEach /\ RoomForResults /\ ResultsFit
  BY DEF FlowInv
<1>2. wpc' \in {"pop", "have", "invoke", "push", "poll", "cancel", "push cancelled", "done"}
  BY PushIs
<1>3. StatusTypeOK'
  BY <1>1, <1>2, PushIs, WorkerLeaves, Zenon DEF StatusTypeOK
<1>4. HandInv' /\ OneTaskEach'
  BY <1>1, PushIs DEF HandInv, OneTaskEach
<1>5. /\ Len(results) \in Nat /\ Len(results') \in Nat /\ Len(tasks) \in Nat
      /\ ToVisit' = ToVisit /\ ToVisit \in Nat
  <2>1. results' \in Seq(Result) /\ results \in Seq(Result) /\ tasks \in Seq(Task)
        /\ visiting \in 0 .. service_count
    BY <1>1, PushIs DEF StatusTypeOK
  <2>2. ToVisit' = ToVisit
    BY PushIs, WorkerLeaves
  <2>3. QED
    BY <2>1, <2>2, LenProperties DEF ToVisit
<1>6. InHand = 1 /\ InHand' = 0
  BY PushIs DEF InHand
<1>7. RoomForResults'
  BY <1>1, <1>5, <1>6, PushIs DEF RoomForResults
<1>8. ResultsFit'
  <2>1. SUFFICES ASSUME 2 * service_count + 1 <= RESULT_CAPACITY, Len(results) = RESULT_CAPACITY
                 PROVE  FALSE
    BY PushIs DEF ResultsFit
  <2>2. QED
    BY <1>1, <1>5, <1>6, <2>1 DEF RoomForResults
<1>9. QED
  BY <1>3, <1>4, <1>7, <1>8 DEF FlowInv

\* Main stops the threads, and time passes.
LEMMA MainFlow ==
  ASSUME FlowInv, MainSteps \/ Elapse \/ UNCHANGED vars
  PROVE  FlowInv'
<1>1. StatusTypeOK /\ HandInv /\ OneTaskEach /\ RoomForResults /\ ResultsFit
  BY DEF FlowInv
<1>2. /\ tasks' = tasks /\ taskPolicy' = taskPolicy /\ taskMerging' = taskMerging
      /\ results' = results /\ resultPolicy' = resultPolicy /\ resultMerging' = resultMerging
      /\ pushedResult' = pushedResult
      /\ visiting' = visiting /\ wpc' = wpc /\ task' = task /\ result' = result
  BY DEF MainSteps, StopUi, ubus_thread_stop, Join, Elapse, vars, taskVars, resultVars, uiVars,
         workerVars
<1>3. /\ running' \in BOOLEAN /\ up' \in BOOLEAN
      /\ stage' \in {"up", "ui stopped", "joining", "stopped"}
  BY <1>1 DEF MainSteps, StopUi, ubus_thread_stop, Join, Elapse, vars, mainVars, StatusTypeOK
<1>4. service' \in [Svc -> Service] /\ ubus' \in Connection
  <2>1. service \in [Svc -> Service] /\ ubus \in Connection
    BY <1>1 DEF StatusTypeOK
  <2>2. CASE service' = service /\ ubus' = ubus
    BY <2>1, <2>2
  <2>3. CASE Elapse
    <3>1. \A s \in Svc : service[s] \in Service
      BY <2>1
    <3>2. ASSUME NEW v \in Service, NEW n \in Nat PROVE [v EXCEPT !.age = n] \in Service
      BY DEF Service
    <3>3. ASSUME NEW n \in Nat, NEW limit \in Nat PROVE Older(n, limit) \in Nat
      BY DEF Older
    <3>4. \A s \in Svc : [service[s] EXCEPT !.age = Older(@, SERVICE_QUERY_TIMEOUT + 1)] \in Service
      <4>1. SUFFICES ASSUME NEW s \in Svc
                     PROVE  [service[s] EXCEPT !.age = Older(service[s].age, SERVICE_QUERY_TIMEOUT + 1)]
                              \in Service
        OBVIOUS
      <4>2. service[s] \in Service /\ service[s].age \in Nat /\ SERVICE_QUERY_TIMEOUT + 1 \in Nat
        BY <3>1 DEF Service
      <4> DEFINE n == Older(service[s].age, SERVICE_QUERY_TIMEOUT + 1)
      <4>3. n \in Nat
        BY <3>3, <4>2
      <4> HIDE DEF n
      <4>4. [service[s] EXCEPT !.age = n] \in Service
        BY <3>2, <4>2, <4>3
      <4>5. QED
        BY <4>4 DEF n
    <3>5. service' = [s \in Svc |-> IF service[s].pending
                                    THEN [service[s] EXCEPT !.age = Older(@, SERVICE_QUERY_TIMEOUT + 1)]
                                    ELSE service[s]]
      BY <2>3, Zenon DEF Elapse
    <3>6. service' \in [Svc -> Service]
      BY <3>1, <3>4, <3>5, Zenon
    <3>7. ubus' \in Connection
      <4> DEFINE n == Older(ubus.since, BACKOFF_MAX)
      <4>1. ubus' = ubus \/ ubus' = [ubus EXCEPT !.since = n]
        BY <2>3 DEF Elapse
      <4>2. ubus.since \in Nat
        BY <2>1 DEF Connection
      <4>3. n \in Nat
        BY <3>3, <4>2
      <4> HIDE DEF n
      <4>4. QED
        BY <2>1, <4>1, <4>3 DEF Connection
    <3>8. QED
      BY <3>6, <3>7
  <2>4. QED
    BY <2>2, <2>3 DEF MainSteps, StopUi, ubus_thread_stop, Join, vars, uiVars, workerVars
<1>5. StatusTypeOK'
  BY <1>1, <1>2, <1>3, <1>4, Zenon DEF StatusTypeOK
<1>6. HandInv' /\ OneTaskEach' /\ ResultsFit' /\ RoomForResults'
  BY <1>1, <1>2 DEF HandInv, Holding, Answering, OneTaskEach, ResultsFit, RoomForResults, InHand,
                    ToVisit
<1>7. QED
  BY <1>5, <1>6 DEF FlowInv

\* Every step is one of these.
LEMMA FlowStep ==
  ASSUME FlowInv, [Next]_vars
  PROVE  FlowInv'
<1>1. CASE \E idle \in BOOLEAN : Tick(idle)
  BY <1>1, TickFlow
<1>2. CASE Skip
  BY <1>2, SkipFlow
<1>3. CASE Ask
  BY <1>3, AskFlow
<1>4. CASE TakeTask
  BY <1>4, TakeFlow
<1>5. CASE CancelTask
  BY <1>5, CancelFlow
<1>6. CASE HandSteps
  BY <1>6, HandFlow
<1>7. CASE PushResult
  BY <1>7, PushFlow
<1>8. CASE MainSteps \/ Elapse \/ UNCHANGED vars
  BY <1>8, MainFlow
<1>9. QED
  BY <1>1, <1>2, <1>3, <1>4, <1>5, <1>6, <1>7, <1>8, Zenon
     DEF Next, UiSteps, WorkerSteps, HandSteps

\* The inductive invariant of the queues: what their operations are given has its type, the
\* ubus thread has a task in hand exactly while it works on it, the queue of tasks has one
\* of each service at most, and there is room for every answer that is still to come.
THEOREM StatusInvariant == Spec => []FlowInv
<1>1. Init => FlowInv
  BY StatusInit
<1>2. FlowInv /\ [Next]_vars => FlowInv'
  BY FlowStep
<1>3. QED
  BY <1>1, <1>2, PTL DEF Spec

\* The queues, the services and the ubus thread's state keep their types: a task merges into
\* a task, and what is taken and answered is one.
THEOREM StatusTypes == Spec => []StatusTypeOK
<1>1. FlowInv => StatusTypeOK
  BY DEF FlowInv
<1>2. QED
  BY <1>1, StatusInvariant, PTL

\* No answer is refused by result_queue_push while the queue of results has two slots for
\* each service and one more, whatever the order of ticks, calls and cancelled tasks
\* (ubus_thread_main, sys_status_process_results).
THEOREM ResultsAreKept == Spec => []NoResultDropped
<1>1. FlowInv => NoResultDropped
  BY DEF FlowInv, ResultsFit, NoResultDropped
<1>2. QED
  BY <1>1, StatusInvariant, PTL

----------------------------------------------------------------------------
(* ThreadedStatus: where the numbers of the requests are *)

Queued(id) == \E i \in 1 .. Len(tasks) : tasks[i].id = id
Worked(id) == Holding /\ task.out.id = id
Answered(id) == \E i \in 1 .. Len(results) : results[i].id = id

\* No number is carried twice.
IdsApart ==
  /\ \A i, j \in 1 .. Len(tasks) : tasks[i].id = tasks[j].id => i = j
  /\ \A i, j \in 1 .. Len(results) : results[i].id = results[j].id => i = j
  /\ \A id : ~(Queued(id) /\ Worked(id)) /\ ~(Queued(id) /\ Answered(id))
             /\ ~(Worked(id) /\ Answered(id))

\* A service that waits has its number on the way; a task that still waits with it is its
\* own, so that no merge for another service can overwrite it.
AwaitedInv ==
  \A s \in Svc : service[s].pending =>
    /\ service[s].id \in Id
    /\ Queued(service[s].id) \/ Worked(service[s].id) \/ Answered(service[s].id)
    /\ \A i \in 1 .. Len(tasks) : tasks[i].id = service[s].id => tasks[i].svc = s

FlightInv == FlowInv /\ IdsApart /\ AwaitedInv

LEMMA FlightInit ==
  ASSUME Init
  PROVE  FlightInv
<1>1. tasks = <<>> /\ results = <<>> /\ wpc = "pop" /\ service = [s \in Svc |-> NotAsked]
  BY Zenon DEF Init, task_queue_init, result_queue_init
<1>2. Len(tasks) = 0 /\ Len(results) = 0
  BY <1>1, EmptySeq
<1>3. \A id : ~Queued(id) /\ ~Worked(id) /\ ~Answered(id)
  BY <1>1, <1>2 DEF Queued, Worked, Answered, Holding
<1>4. IdsApart
  BY <1>2, <1>3 DEF IdsApart
<1>5. \A s \in Svc : ~service[s].pending
  BY <1>1 DEF NotAsked
<1>6. AwaitedInv
  BY <1>5 DEF AwaitedInv
<1>7. QED
  BY <1>4, <1>6, StatusInit DEF FlightInv

\* A step after which the numbers are where they were.
LEMMA NumbersStay ==
  ASSUME IdsApart, AwaitedInv,
         tasks' = tasks, results' = results, task' = task, Holding' <=> Holding,
         \A s \in Svc : /\ service'[s].pending <=> service[s].pending
                        /\ service'[s].id = service[s].id
  PROVE  IdsApart' /\ AwaitedInv'
<1>1. \A id : /\ Queued(id)' <=> Queued(id)
              /\ Worked(id)' <=> Worked(id)
              /\ Answered(id)' <=> Answered(id)
  BY DEF Queued, Worked, Answered
<1>2. IdsApart'
  BY <1>1 DEF IdsApart
<1>3. AwaitedInv'
  BY DEF AwaitedInv, Queued, Worked, Answered
<1>4. QED
  BY <1>2, <1>3

\* The invariant after a step, number by number.
LEMMA AwaitedNext ==
  ASSUME \A x : \A s \in Svc : service'[s].pending /\ x = service'[s].id =>
           /\ x \in Id
           /\ Queued(x)' \/ Worked(x)' \/ Answered(x)'
           /\ \A i \in 1 .. Len(tasks') : tasks'[i].id = x => tasks'[i].svc = s
  PROVE  AwaitedInv'
<1>1. SUFFICES ASSUME NEW s \in Svc, service'[s].pending
               PROVE  /\ service'[s].id \in Id
                      /\ \/ \E i \in 1 .. Len(tasks') : tasks'[i].id = service'[s].id
                         \/ Holding' /\ task'.out.id = service'[s].id
                         \/ \E i \in 1 .. Len(results') : results'[i].id = service'[s].id
                      /\ \A i \in 1 .. Len(tasks') :
                           tasks'[i].id = service'[s].id => tasks'[i].svc = s
  BY DEF AwaitedInv, Queued, Worked, Answered
<1>2. PICK x : x = service'[s].id
  OBVIOUS
<1>3. /\ x \in Id
      /\ Queued(x)' \/ Worked(x)' \/ Answered(x)'
      /\ \A i \in 1 .. Len(tasks') : tasks'[i].id = x => tasks'[i].svc = s
  BY <1>1, <1>2, Zenon
<1>4. QED
  BY <1>2, <1>3 DEF Queued, Worked, Answered

\* A tick takes the answers; who still waits after it had none among them.
LEMMA TickFlight ==
  ASSUME FlightInv, NEW idle \in BOOLEAN, Tick(idle)
  PROVE  IdsApart' /\ AwaitedInv'
<1>1. FlowInv /\ StatusTypeOK /\ IdsApart /\ AwaitedInv
  BY DEF FlightInv, FlowInv
<1>2. /\ tasks' = tasks /\ task' = task /\ wpc' = wpc
      /\ service' = [s \in Svc |-> Accepted(s)]
      /\ results' = SubSeq(results, Len(Taken) + 1, Len(results))
  BY DEF Tick, taskVars, workerVars
<1>3. results' = <<>> /\ Len(results') = 0
  <2>1. Len(results) \in Nat
    BY <1>1, LenProperties DEF StatusTypeOK
  <2>2. results' = <<>>
    BY <1>2, <2>1, SubSeqEmpty DEF Taken
  <2>3. QED
    BY <2>2, EmptySeq
<1>4. \A id : /\ Queued(id)' <=> Queued(id)
              /\ Worked(id)' <=> Worked(id)
              /\ ~Answered(id)'
  BY <1>2, <1>3 DEF Queued, Worked, Answered, Holding
<1>5. IdsApart'
  BY <1>1, <1>2, <1>3, <1>4 DEF IdsApart
<1>6. ASSUME NEW s \in Svc, service'[s].pending
      PROVE  service'[s] = service[s] /\ service[s].pending /\ ~Answered(service[s].id)
  <2>1. service'[s] = Accepted(s)
    BY <1>2
  <2>2. service[s].pending /\ Answers(s) = {}
    <3>1. SUFFICES ASSUME service[s].pending, Answers(s) # {} PROVE FALSE
      BY <1>6, <2>1 DEF Accepted
    <3> DEFINE b == Taken[Min(Answers(s))].success
    <3>2. Accepted(s) = [NotAsked EXCEPT !.valid = b]
      BY <3>1 DEF Accepted
    <3> HIDE DEF b
    <3>3. QED
      BY <1>6, <2>1, <3>2 DEF NotAsked
  <2>3. QED
    BY <2>1, <2>2 DEF Accepted, Answers, Answered, Taken
<1>7. AwaitedInv'
  <2>1. SUFFICES ASSUME NEW s \in Svc, NEW x, service'[s].pending, x = service'[s].id
                 PROVE  /\ x \in Id
                        /\ Queued(x)' \/ Worked(x)' \/ Answered(x)'
                        /\ \A i \in 1 .. Len(tasks') : tasks'[i].id = x => tasks'[i].svc = s
    BY AwaitedNext
  <2>2. service[s].pending /\ x = service[s].id /\ ~Answered(x)
    BY <1>6, <2>1
  <2>3. QED
    BY <1>1, <1>2, <1>4, <2>2 DEF AwaitedInv
<1>8. QED
  BY <1>5, <1>7

\* The number of a new task is nowhere yet.  It replaces one that only its own service may
\* have waited for, and that service waits for the new one or for none.
LEMMA AskFlight ==
  ASSUME FlightInv, Ask
  PROVE  IdsApart' /\ AwaitedInv'
<1> DEFINE n == next_request_id
<1>1. FlowInv /\ StatusTypeOK /\ HandInv /\ OneTaskEach /\ IdsApart /\ AwaitedInv
  BY DEF FlightInv, FlowInv
<1>2. /\ visiting \in Svc /\ n \in Id /\ NewTask \in Task /\ NewTask.svc = visiting /\ NewTask.id = n
      /\ results' = results /\ task' = task /\ wpc' = wpc
  BY <1>1, AskIs DEF NewTask
<1>3. /\ \A i \in 1 .. Len(tasks) : tasks[i].id # n
      /\ \A i \in 1 .. Len(results) : results[i].id # n
      /\ task.out.id # n
      /\ \A s \in Svc : service[s].id # n
  BY <1>1, AskIs DEF InUse
<1>4. \A id : /\ Worked(id)' <=> Worked(id)
              /\ Answered(id)' <=> Answered(id)
  BY <1>2 DEF Worked, Answered, Holding
<1>5. ~Queued(n) /\ ~Worked(n) /\ ~Answered(n)
  BY <1>3 DEF Queued, Worked, Answered
<1>6. tasks \in Seq(Task) /\ Len(tasks) \in Nat
  BY <1>1, LenProperties DEF StatusTypeOK
<1>7. service \in [Svc -> Service]
  BY <1>1 DEF StatusTypeOK
<1>8. /\ \A s \in Svc : s # visiting => service'[s] = service[s]
      /\ service'[visiting].pending <=> pushedTask'.ret = "OK"
      /\ service'[visiting].pending => service'[visiting].id = n
  <2> DEFINE a == Asked(visiting, pushedTask'.ret)
  <2>1. service' = [service EXCEPT ![visiting] = a]
    BY <1>1, AskIs, Zenon
  <2>2. /\ a.pending <=> pushedTask'.ret = "OK"
        /\ a.pending => a.id = n
    BY DEF Asked
  <2> HIDE DEF a, n
  <2>3. QED
    BY <1>2, <1>7, <2>1, <2>2
<1>9. TaskPushed(NewTask)
  BY <1>1, AskIs
<1> HIDE DEF n
<1>10. CASE /\ pushedTask'.ret = "MERGED"
            /\ \E i \in 1 .. Len(tasks) : /\ tasks[i].svc = NewTask.svc
                                          /\ tasks' = [tasks EXCEPT ![i] = NewTask]
  <2>1. PICK k \in 1 .. Len(tasks) : /\ tasks[k].svc = visiting
                                     /\ tasks' = [tasks EXCEPT ![k] = NewTask]
    BY <1>2, <1>10
  <2>2. /\ Len(tasks') = Len(tasks)
        /\ \A j \in 1 .. Len(tasks) : tasks'[j] = IF j = k THEN NewTask ELSE tasks[j]
    BY <1>2, <1>6, <2>1, ExceptSeq
  <2>3. \A id : Queued(id)' => Queued(id) \/ id = n
    BY <1>2, <2>2 DEF Queued
  <2>4. IdsApart'
    <3>1. \A i, j \in 1 .. Len(tasks') : tasks'[i].id = tasks'[j].id => i = j
      BY <1>1, <1>2, <1>3, <2>2 DEF IdsApart
    <3>2. \A id : ~(Queued(id)' /\ Worked(id)') /\ ~(Queued(id)' /\ Answered(id)')
                  /\ ~(Worked(id)' /\ Answered(id)')
      BY <1>1, <1>4, <1>5, <2>3 DEF IdsApart
    <3>3. QED
      BY <1>1, <1>2, <3>1, <3>2 DEF IdsApart
  <2>5. ASSUME NEW s \in Svc, service'[s].pending
        PROVE  /\ s # visiting /\ service[s].pending /\ service'[s].id = service[s].id
               /\ tasks[k].id # service[s].id
    <3>1. s # visiting
      BY <1>8, <1>10, <2>5
    <3>2. QED
      BY <1>1, <1>8, <2>1, <2>5, <3>1 DEF AwaitedInv
  <2>6. AwaitedInv'
    <3>1. SUFFICES ASSUME NEW s \in Svc, NEW x, service'[s].pending, x = service'[s].id
                   PROVE  /\ x \in Id
                          /\ Queued(x)' \/ Worked(x)' \/ Answered(x)'
                          /\ \A i \in 1 .. Len(tasks') : tasks'[i].id = x => tasks'[i].svc = s
      BY AwaitedNext
    <3>2. service[s].pending /\ x = service[s].id /\ tasks[k].id # x /\ x # n
      BY <1>3, <2>5, <3>1
    <3>3. /\ x \in Id /\ (Queued(x) \/ Worked(x) \/ Answered(x))
          /\ \A i \in 1 .. Len(tasks) : tasks[i].id = x => tasks[i].svc = s
      BY <1>1, <3>2 DEF AwaitedInv
    <3>4. Queued(x) => Queued(x)'
      BY <2>2, <3>2 DEF Queued
    <3>5. \A i \in 1 .. Len(tasks') : tasks'[i].id = x => tasks'[i].svc = s
      BY <1>2, <2>2, <3>2, <3>3
    <3>6. QED
      BY <1>4, <3>3, <3>4, <3>5
  <2>7. QED
    BY <2>4, <2>6
<1>11. CASE pushedTask'.ret = "OK" /\ tasks' = Append(tasks, NewTask)
  <2>1. /\ Len(tasks') = Len(tasks) + 1
        /\ \A j \in 1 .. Len(tasks) : tasks'[j] = tasks[j]
        /\ tasks'[Len(tasks) + 1] = NewTask
    BY <1>2, <1>6, <1>11, AppendProperties
  <2>2. \A j \in 1 .. Len(tasks') : j \in 1 .. Len(tasks) \/ j = Len(tasks) + 1
    BY <1>6, <2>1
  <2>3. 1 .. Len(tasks) \subseteq 1 .. Len(tasks') /\ Len(tasks) + 1 \in 1 .. Len(tasks')
    BY <1>6, <2>1
  <2>4. \A id : Queued(id)' <=> Queued(id) \/ id = n
    BY <1>2, <2>1, <2>2, <2>3 DEF Queued
  <2>5. IdsApart'
    <3>1. \A i, j \in 1 .. Len(tasks') : tasks'[i].id = tasks'[j].id => i = j
      BY <1>1, <1>2, <1>3, <2>1, <2>2 DEF IdsApart
    <3>2. \A id : ~(Queued(id)' /\ Worked(id)') /\ ~(Queued(id)' /\ Answered(id)')
                  /\ ~(Worked(id)' /\ Answered(id)')
      BY <1>1, <1>4, <1>5, <2>4 DEF IdsApart
    <3>3. QED
      BY <1>1, <1>2, <3>1, <3>2 DEF IdsApart
  <2>6. AwaitedInv'
    <3>1. SUFFICES ASSUME NEW s \in Svc, NEW x, service'[s].pending, x = service'[s].id
                   PROVE  /\ x \in Id
                          /\ Queued(x)' \/ Worked(x)' \/ Answered(x)'
                          /\ \A i \in 1 .. Len(tasks') : tasks'[i].id = x => tasks'[i].svc = s
      BY AwaitedNext
    <3>2. CASE s = visiting
      <4>1. x = n
        BY <1>8, <3>1, <3>2
      <4>2. \A i \in 1 .. Len(tasks') : tasks'[i].id = x => tasks'[i] = NewTask
        BY <1>3, <2>1, <2>2, <4>1
      <4>3. QED
        BY <1>2, <2>4, <3>2, <4>1, <4>2
    <3>3. CASE s # visiting
      <4>1. service[s].pending /\ x = service[s].id /\ x # n
        BY <1>3, <1>8, <3>1, <3>3
      <4>2. /\ x \in Id /\ (Queued(x) \/ Worked(x) \/ Answered(x))
            /\ \A i \in 1 .. Len(tasks) : tasks[i].id = x => tasks[i].svc = s
        BY <1>1, <4>1 DEF AwaitedInv
      <4>3. \A i \in 1 .. Len(tasks') : tasks'[i].id = x => tasks'[i].svc = s
        BY <1>2, <2>1, <2>2, <4>1, <4>2
      <4>4. QED
        BY <1>4, <2>4, <4>2, <4>3
    <3>4. QED
      BY <3>2, <3>3
  <2>7. QED
    BY <2>5, <2>6
<1>12. CASE pushedTask'.ret = "DROPPED" /\ tasks' = tasks
  <2>1. \A id : Queued(id)' <=> Queued(id)
    BY <1>12 DEF Queued
  <2>2. IdsApart'
    BY <1>1, <1>2, <1>4, <1>12, <2>1 DEF IdsApart
  <2>3. \A s \in Svc : service'[s].pending =>
          service'[s] = service[s] /\ service[s].pending
    BY <1>8, <1>12
  <2>4. AwaitedInv'
    <3>1. SUFFICES ASSUME NEW s \in Svc, NEW x, service'[s].pending, x = service'[s].id
                   PROVE  /\ x \in Id
                          /\ Queued(x)' \/ Worked(x)' \/ Answered(x)'
                          /\ \A i \in 1 .. Len(tasks') : tasks'[i].id = x => tasks'[i].svc = s
      BY AwaitedNext
    <3>2. service[s].pending /\ x = service[s].id
      BY <2>3, <3>1
    <3>3. QED
      BY <1>1, <1>4, <1>12, <2>1, <3>2 DEF AwaitedInv
  <2>5. QED
    BY <2>2, <2>4
<1>13. QED
  BY <1>9, <1>10, <1>11, <1>12, Zenon DEF TaskPushed

\* The oldest task comes to the ubus thread's hand.
LEMMA TakeFlight ==
  ASSUME FlightInv, TakeTask \/ CancelTask
  PROVE  IdsApart' /\ AwaitedInv'
<1>1. StatusTypeOK /\ HandInv /\ OneTaskEach /\ IdsApart /\ AwaitedInv
  BY DEF FlightInv, FlowInv
<1>2. /\ TaskTaken /\ results' = results /\ service' = service
      /\ wpc \in {"pop", "cancel"}
      /\ task'.ret = "OK" => wpc' \in {"have", "push cancelled"}
      /\ task'.ret # "OK" => wpc' \in {"poll", "done"}
  BY TaskIsTaken, WorkerLeaves DEF TakeTask, CancelTask
<1>3. ~Holding
  BY <1>2 DEF Holding
<1>4. CASE tasks = <<>>
  <2>1. tasks' = tasks /\ task' = NotTaken /\ task = NotTaken
    BY <1>1, <1>2, <1>3, <1>4 DEF TaskTaken, HandInv
  <2>2. ~Holding'
    BY <1>2, <2>1 DEF Holding, NotTaken
  <2>3. QED
    BY <1>1, <1>2, <1>3, <2>1, <2>2, NumbersStay
<1>5. CASE tasks # <<>>
  <2>1. tasks' = Tail(tasks) /\ task'.out = Head(tasks) /\ Holding'
    BY <1>2, <1>5 DEF TaskTaken, Holding
  <2>2. /\ Len(tasks) \in Nat /\ Len(tasks') = Len(tasks) - 1 /\ Head(tasks) = tasks[1]
        /\ \A i \in 1 .. Len(tasks') : tasks'[i] = tasks[i + 1]
    BY <1>1, <1>5, <2>1, TaskTakenTypes
  <2>3. \A i \in 1 .. Len(tasks') : i + 1 \in 1 .. Len(tasks) /\ i + 1 # 1
    BY <2>2
  <2>4. Len(tasks) # 0
    <3>1. tasks \in Seq(Task)
      BY <1>1 DEF StatusTypeOK
    <3>2. QED
      BY <1>5, <3>1, EmptySeq
  <2>5. /\ 1 \in 1 .. Len(tasks)
        /\ \A i \in 1 .. Len(tasks) : i = 1 \/ (i - 1 \in 1 .. Len(tasks') /\ (i - 1) + 1 = i)
    BY <2>2, <2>4
  <2>6. \A id : /\ Queued(id) <=> Queued(id)' \/ Worked(id)'
                /\ Answered(id)' <=> Answered(id)
                /\ ~Worked(id)
    <3>1. SUFFICES ASSUME NEW id
                   PROVE  Queued(id) <=> Queued(id)' \/ Worked(id)'
      BY <1>2, <1>3 DEF Answered, Worked
    <3>2. ASSUME Queued(id) PROVE Queued(id)' \/ Worked(id)'
      <4>1. PICK i \in 1 .. Len(tasks) : tasks[i].id = id
        BY <3>2 DEF Queued
      <4>2. CASE i = 1
        BY <2>1, <2>2, <4>1, <4>2 DEF Worked
      <4>3. CASE i - 1 \in 1 .. Len(tasks') /\ (i - 1) + 1 = i
        <5>1. tasks'[i - 1].id = id
          BY <2>2, <4>1, <4>3
        <5>2. QED
          BY <4>3, <5>1 DEF Queued
      <4>4. QED
        BY <2>5, <4>2, <4>3
    <3>3. Queued(id)' => Queued(id)
      BY <2>2, <2>3 DEF Queued
    <3>4. Worked(id)' => Queued(id)
      BY <2>1, <2>2, <2>5 DEF Worked, Queued
    <3>5. QED
      BY <3>2, <3>3, <3>4
  <2>7. \A id : ~(Queued(id)' /\ Worked(id)')
    <3>1. SUFFICES ASSUME NEW i \in 1 .. Len(tasks'), tasks'[i].id = task'.out.id
                   PROVE  FALSE
      BY DEF Queued, Worked
    <3>2. tasks[i + 1].id = tasks[1].id
      BY <2>1, <2>2, <3>1
    <3>3. QED
      BY <1>1, <2>3, <2>5, <3>2 DEF IdsApart
  <2>8. IdsApart'
    <3>1. ASSUME NEW i \in 1 .. Len(tasks'), NEW j \in 1 .. Len(tasks'), tasks'[i].id = tasks'[j].id
          PROVE  i = j
      <4>1. tasks[i + 1].id = tasks[j + 1].id
        BY <2>2, <3>1
      <4>2. i + 1 = j + 1
        BY <1>1, <2>3, <4>1 DEF IdsApart
      <4>3. QED
        BY <2>2, <4>2
    <3>2. \A id : ~(Queued(id)' /\ Answered(id)') /\ ~(Worked(id)' /\ Answered(id)')
      BY <1>1, <2>6 DEF IdsApart
    <3>3. QED
      BY <1>1, <1>2, <2>7, <3>1, <3>2 DEF IdsApart
  <2>9. AwaitedInv'
    <3>1. SUFFICES ASSUME NEW s \in Svc, NEW x, service'[s].pending, x = service'[s].id
                   PROVE  /\ x \in Id
                          /\ Queued(x)' \/ Worked(x)' \/ Answered(x)'
                          /\ \A i \in 1 .. Len(tasks') : tasks'[i].id = x => tasks'[i].svc = s
      BY AwaitedNext
    <3>2. /\ x \in Id /\ (Queued(x) \/ Worked(x) \/ Answered(x))
          /\ \A i \in 1 .. Len(tasks) : tasks[i].id = x => tasks[i].svc = s
      BY <1>1, <1>2, <3>1 DEF AwaitedInv
    <3>3. \A i \in 1 .. Len(tasks') : tasks'[i].id = x => tasks'[i].svc = s
      BY <2>2, <2>3, <3>2
    <3>4. QED
      BY <2>6, <3>2, <3>3
  <2>10. QED
    BY <2>8, <2>9
<1>6. QED
  BY <1>4, <1>5

\* The answer keeps the number of the task, and where there are slots enough it is kept.
LEMMA PushFlight ==
  ASSUME FlightInv, PushResult, 2 * service_count + 1 <= RESULT_CAPACITY
  PROVE  IdsApart' /\ AwaitedInv'
<1>1. FlowInv /\ StatusTypeOK /\ IdsApart /\ AwaitedInv
  BY DEF FlightInv, FlowInv
<1>2. results \in Seq(Result) /\ Len(results) \in Nat
  BY <1>1, LenProperties DEF StatusTypeOK
<1>3. pushedResult'.ret # "DROPPED"
  <2>1. FlowInv'
    BY <1>1, PushFlow
  <2>2. QED
    BY <2>1 DEF FlowInv, ResultsFit
<1>4. /\ result \in Result /\ result.id = task.out.id /\ results' = Append(results, result)
      /\ tasks' = tasks /\ Holding /\ ~Holding' /\ WorkerKeeps
  BY <1>1, <1>3, PushIs
<1>5. service' = service
  BY <1>4, WorkerLeaves
<1>6. /\ Len(results') = Len(results) + 1
      /\ \A j \in 1 .. Len(results) : results'[j] = results[j]
      /\ results'[Len(results) + 1] = result
  BY <1>2, <1>4, AppendProperties
<1>7. /\ \A j \in 1 .. Len(results') : j \in 1 .. Len(results) \/ j = Len(results) + 1
      /\ 1 .. Len(results) \subseteq 1 .. Len(results') /\ Len(results) + 1 \in 1 .. Len(results')
  BY <1>2, <1>6
<1>8. \A id : /\ Queued(id)' <=> Queued(id)
              /\ ~Worked(id)'
              /\ Answered(id)' <=> Answered(id) \/ Worked(id)
  BY <1>4, <1>6, <1>7 DEF Queued, Worked, Answered
<1>9. \A j \in 1 .. Len(results) : results[j].id # result.id
  <2>1. Worked(result.id) /\ ~Answered(result.id)
    BY <1>1, <1>4 DEF IdsApart, Worked
  <2>2. QED
    BY <2>1 DEF Answered
<1>10. IdsApart'
  <2>1. \A i, j \in 1 .. Len(results') : results'[i].id = results'[j].id => i = j
    BY <1>1, <1>6, <1>7, <1>9 DEF IdsApart
  <2>2. \A id : ~(Queued(id)' /\ Worked(id)') /\ ~(Queued(id)' /\ Answered(id)')
                /\ ~(Worked(id)' /\ Answered(id)')
    BY <1>1, <1>8 DEF IdsApart
  <2>3. QED
    BY <1>1, <1>4, <2>1, <2>2 DEF IdsApart
<1>11. AwaitedInv'
  <2>1. SUFFICES ASSUME NEW s \in Svc, NEW x, service'[s].pending, x = service'[s].id
                 PROVE  /\ x \in Id
                        /\ Queued(x)' \/ Worked(x)' \/ Answered(x)'
                        /\ \A i \in 1 .. Len(tasks') : tasks'[i].id = x => tasks'[i].svc = s
    BY AwaitedNext
  <2>2. QED
    BY <1>1, <1>4, <1>5, <1>8, <2>1 DEF AwaitedInv
<1>12. QED
  BY <1>10, <1>11

\* The other steps leave every number where it is.
LEMMA OthersFlight ==
  ASSUME FlightInv, Skip \/ HandSteps \/ MainSteps \/ Elapse \/ UNCHANGED vars
  PROVE  IdsApart' /\ AwaitedInv'
<1>1. FlowInv /\ StatusTypeOK /\ IdsApart /\ AwaitedInv
  BY DEF FlightInv, FlowInv
<1>2. CASE Skip
  <2>1. tasks' = tasks /\ results' = results /\ task' = task /\ wpc' = wpc /\ service' = service
    BY <1>2 DEF Skip, taskVars, resultVars, workerVars
  <2>2. QED
    BY <1>1, <2>1, NumbersStay DEF Holding
<1>3. CASE HandSteps
  <2>1. /\ tasks' = tasks /\ results' = results /\ task' = task /\ service' = service
        /\ Holding' <=> Holding
    BY <1>1, <1>3, HandStepIs, WorkerLeaves
  <2>2. QED
    BY <1>1, <2>1, NumbersStay
<1>4. CASE MainSteps \/ UNCHANGED vars
  <2>1. tasks' = tasks /\ results' = results /\ task' = task /\ wpc' = wpc /\ service' = service
    BY <1>4 DEF MainSteps, StopUi, ubus_thread_stop, Join, vars, taskVars, resultVars, uiVars,
                workerVars
  <2>2. QED
    BY <1>1, <2>1, NumbersStay DEF Holding
<1>5. CASE Elapse
  <2>1. tasks' = tasks /\ results' = results /\ task' = task /\ wpc' = wpc
    BY <1>5 DEF Elapse, taskVars, resultVars
  <2>2. service' = [s \in Svc |-> IF service[s].pending
                                  THEN [service[s] EXCEPT !.age = Older(@, SERVICE_QUERY_TIMEOUT + 1)]
                                  ELSE service[s]]
    BY <1>5, Zenon DEF Elapse
  <2>3. ASSUME NEW s \in Svc
        PROVE  /\ service'[s].pending <=> service[s].pending
               /\ service'[s].id = service[s].id
    <3>1. service[s] \in Service
      BY <1>1 DEF StatusTypeOK
    <3> DEFINE n == Older(service[s].age, SERVICE_QUERY_TIMEOUT + 1)
    <3>2. service'[s] = service[s] \/ service'[s] = [service[s] EXCEPT !.age = n]
      BY <2>2
    <3> HIDE DEF n
    <3>3. QED
      BY <3>1, <3>2 DEF Service
  <2>4. QED
    BY <1>1, <2>1, <2>3, NumbersStay DEF Holding
<1>6. QED
  BY <1>2, <1>3, <1>4, <1>5

\* With enough slots for the answers every step keeps the numbers apart and on their way.
THEOREM FlightInvariant ==
  ASSUME 2 * service_count + 1 <= RESULT_CAPACITY
  PROVE  Spec => []FlightInv
<1>1. Init => FlightInv
  BY FlightInit
<1>2. FlowInv /\ [Next]_vars => FlowInv'
  BY FlowStep
<1>3. FlightInv /\ [Next]_vars => FlightInv'
  <2>1. SUFFICES ASSUME FlightInv, [Next]_vars PROVE IdsApart' /\ AwaitedInv'
    BY <1>2 DEF FlightInv
  <2>2. CASE \E idle \in BOOLEAN : Tick(idle)
    BY <2>1, <2>2, TickFlight
  <2>3. CASE Ask
    BY <2>1, <2>3, AskFlight
  <2>4. CASE TakeTask \/ CancelTask
    BY <2>1, <2>4, TakeFlight
  <2>5. CASE PushResult
    BY <2>1, <2>5, PushFlight
  <2>6. CASE Skip \/ HandSteps \/ MainSteps \/ Elapse \/ UNCHANGED vars
    BY <2>1, <2>6, OthersFlight
  <2>7. QED
    BY <2>1, <2>2, <2>3, <2>4, <2>5, <2>6, Zenon DEF Next, UiSteps, WorkerSteps, HandSteps
<1>4. QED
  BY <1>1, <1>3, PTL DEF Spec

PlacesOf(q, id) == {i \in 1 .. Len(q) : q[i].id = id}

\* What one place has, and only one, is there once.
LEMMA Once ==
  ASSUME NEW q, NEW id, \A i, j \in 1 .. Len(q) : q[i].id = q[j].id => i = j
  PROVE  /\ (\E i \in 1 .. Len(q) : q[i].id = id) => Cardinality(PlacesOf(q, id)) = 1
         /\ ~(\E i \in 1 .. Len(q) : q[i].id = id) => Cardinality(PlacesOf(q, id)) = 0
<1>1. ASSUME NEW i \in 1 .. Len(q), q[i].id = id
      PROVE  Cardinality(PlacesOf(q, id)) = 1
  <2>1. PlacesOf(q, id) = {i}
    BY <1>1 DEF PlacesOf
  <2>2. QED
    BY <2>1, FS_Singleton
<1>2. ASSUME ~(\E i \in 1 .. Len(q) : q[i].id = id)
      PROVE  Cardinality(PlacesOf(q, id)) = 0
  <2>1. PlacesOf(q, id) = {}
    BY <1>2 DEF PlacesOf
  <2>2. QED
    BY <2>1, FS_EmptySet
<1>3. QED
  BY <1>1, <1>2

\* A service that waits has its query or its answer on the way exactly once, through merging,
\* expiry, cancelling and late answers, as long as the queue of results has two slots for
\* each service and one more (with main.c's 16: up to seven services;
\* sys_status_request_services, sys_status_process_results).
THEOREM PendingInFlight ==
  ASSUME 2 * service_count + 1 <= RESULT_CAPACITY
  PROVE  Spec => []PendingIsInFlight
<1>1. FlightInv => PendingIsInFlight
  <2>1. SUFFICES ASSUME FlightInv, NEW s \in Svc, service[s].pending
                 PROVE  Copies(service[s].id) = 1
    BY DEF PendingIsInFlight
  <2> DEFINE x == service[s].id
             T == Cardinality(PlacesOf(tasks, x))
             R == Cardinality(PlacesOf(results, x))
             H == IF task.out.id = x THEN 1 ELSE 0
  <2>2. HandInv /\ IdsApart /\ tasks \in Seq(Task) /\ results \in Seq(Result)
    BY <2>1 DEF FlightInv, FlowInv, StatusTypeOK
  <2>3. x \in Id /\ (Queued(x) \/ Worked(x) \/ Answered(x))
    BY <2>1 DEF FlightInv, AwaitedInv
  <2>4. /\ ~(Queued(x) /\ Worked(x)) /\ ~(Queued(x) /\ Answered(x))
        /\ ~(Worked(x) /\ Answered(x))
    BY <2>2 DEF IdsApart
  <2>5. Copies(x) = T + H + R
    BY DEF Copies, PlacesOf
  <2> HIDE DEF x
  <2>6. (Queued(x) => T = 1) /\ (~Queued(x) => T = 0)
    <3>1. \A i, j \in 1 .. Len(tasks) : tasks[i].id = tasks[j].id => i = j
      BY <2>2 DEF IdsApart
    <3>2. QED
      BY <3>1, Once DEF Queued
  <2>7. (Answered(x) => R = 1) /\ (~Answered(x) => R = 0)
    <3>1. \A i, j \in 1 .. Len(results) : results[i].id = results[j].id => i = j
      BY <2>2 DEF IdsApart
    <3>2. QED
      BY <3>1, Once DEF Answered
  <2>8. (Worked(x) => H = 1) /\ (~Worked(x) => H = 0)
    BY <2>2, <2>3 DEF HandInv, Worked, NotTaken, NoTask, Id
  <2> HIDE DEF T, R, H
  <2>9. T + H + R = 1
    BY <2>3, <2>4, <2>6, <2>7, <2>8
  <2>10. QED
    BY <2>5, <2>9 DEF x
<1>2. QED
  BY <1>1, FlightInvariant, PTL
=============================================================================
