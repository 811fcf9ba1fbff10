----------------------------- MODULE RingQueue -----------------------------
(***************************************************************************)
(* The ring buffer under every queue of the threaded daemon                *)
(* (src/src_adr0005/ring_queue.c).  Each operation runs under the queue's   *)
(* lock, so it is one action.  The counters of ring_queue_stats_t only grow *)
(* and are bounded by MAX_PUSHES in the guards of the operations that move  *)
(* them; what lies in a slot that was never written is Junk.                *)
(***************************************************************************)
EXTENDS Integers, Sequences

CONSTANTS Item, None, Junk, CAPACITY, Merged, Matches, MAX_PUSHES

ASSUME RingAssumption ==
  /\ CAPACITY \in Nat \ {0}
  /\ None \notin Item /\ Junk \notin Item
  /\ Merged \in [Item \X Item -> Item \cup {None}]
  /\ Matches \subseteq SUBSET Item
  /\ MAX_PUSHES \in Nat

Stats == [pushes : Nat, pops : Nat, overwrites : Nat, drops : Nat, merges : Nat]
Policy == {"OVERWRITE_OLDEST", "REJECT_NEW", "COALESCE"}
Index == 0 .. CAPACITY - 1

VARIABLES
  buffer, head, tail, count, policy,
  merge_fn,    \* TRUE: one has been set
  stats,       \* the counters of ring_queue_stats_t
  last         \* what the last call returned, and the item it handed out

ring == <<buffer, head, tail, count>>
ringVars == <<ring, policy, merge_fn, stats, last>>

Returns(ret, item) == last' = [ret |-> ret, out |-> item]

\* Where the item lies that is i places behind the oldest.
At(i) == (head + i) % CAPACITY

Held == {buffer[At(i)] : i \in 0 .. count - 1}

\* Defect: the search goes by slots and not from the oldest item on.
First_BySlot(i, P) ==
  /\ buffer[At(i)] \in P
  /\ \A j \in 0 .. count - 1 : buffer[At(j)] \in P => At(i) <= At(j)

\* Of the items in P, the one i places behind the oldest is found first.
First(i, P) ==
  /\ buffer[At(i)] \in P
  /\ \A j \in 0 .. i - 1 : buffer[At(j)] \notin P

\* ring_queue_try_merge: the items merge_fn would merge x into, if it is asked.
ring_queue_try_merge(x) ==
  IF policy = "COALESCE" /\ merge_fn THEN {y \in Item : Merged[y, x] # None} ELSE {}

Counted(s) == stats' = [s EXCEPT !.pushes = @ + 1]

Overwrite(x) ==
  /\ buffer' = [buffer EXCEPT ![tail] = x]
  /\ tail' = (tail + 1) % CAPACITY
  /\ head' = tail'
  /\ UNCHANGED count
  /\ Counted([stats EXCEPT !.overwrites = @ + 1])

\* Defect: a push that is dropped is not counted as dropped.
Drop_Uncounted == UNCHANGED ring /\ Counted(stats)

Drop == UNCHANGED ring /\ Counted([stats EXCEPT !.drops = @ + 1])

ring_queue_push(x) ==
  /\ stats.pushes < MAX_PUSHES
  /\ \/ \E i \in 0 .. count - 1 :
          /\ First(i, ring_queue_try_merge(x))
          /\ buffer' = [buffer EXCEPT ![At(i)] = Merged[@, x]]
          /\ Counted([stats EXCEPT !.merges = @ + 1])
          /\ UNCHANGED <<head, tail, count>>
          /\ Returns("MERGED", None)
     \/ /\ Held \cap ring_queue_try_merge(x) = {}
        /\ count = CAPACITY /\ policy = "OVERWRITE_OLDEST"
        /\ Overwrite(x)
        /\ Returns("OK", None)
     \/ /\ Held \cap ring_queue_try_merge(x) = {}
        /\ count = CAPACITY /\ policy # "OVERWRITE_OLDEST"
        /\ Drop
        /\ Returns("DROPPED", None)
     \/ /\ Held \cap ring_queue_try_merge(x) = {}
        /\ count # CAPACITY
        /\ buffer' = [buffer EXCEPT ![tail] = x]
        /\ tail' = (tail + 1) % CAPACITY
        /\ count' = count + 1
        /\ Counted(stats)
        /\ UNCHANGED head
        /\ Returns("OK", None)
  /\ UNCHANGED <<policy, merge_fn>>

ring_queue_pop ==
  /\ \/ /\ count = 0
        /\ Returns("ERR", None)
        /\ UNCHANGED <<ring, stats>>
     \/ /\ count # 0
        /\ Returns("OK", buffer[head])
        /\ head' = (head + 1) % CAPACITY
        /\ count' = count - 1
        /\ stats' = [stats EXCEPT !.pops = @ + 1]
        /\ UNCHANGED <<buffer, tail>>
  /\ UNCHANGED <<policy, merge_fn>>

ring_queue_replace_first_if(M, x) ==
  /\ \/ Held \cap M = {} /\ Returns("ERR", None) /\ UNCHANGED buffer
     \/ \E i \in 0 .. count - 1 :
          /\ First(i, M)
          /\ buffer' = [buffer EXCEPT ![At(i)] = x]
          /\ Returns("OK", None)
  /\ UNCHANGED <<head, tail, count, policy, merge_fn, stats>>

ring_queue_set_overflow_policy(p) == policy' = p /\ UNCHANGED <<ring, merge_fn, stats, last>>

ring_queue_set_merge_fn(b) == merge_fn' = b /\ UNCHANGED <<ring, policy, stats, last>>

ring_queue_init ==
  /\ buffer = [i \in Index |-> Junk]
  /\ head = 0 /\ tail = 0 /\ count = 0
  /\ policy = "OVERWRITE_OLDEST" /\ merge_fn = FALSE
  /\ stats = [pushes |-> 0, pops |-> 0, overwrites |-> 0, drops |-> 0, merges |-> 0]
  /\ last = [ret |-> "OK", out |-> None]

RingNext ==
  \/ \E x \in Item : ring_queue_push(x)
  \/ ring_queue_pop
  \/ \E M \in Matches, x \in Item : ring_queue_replace_first_if(M, x)
  \/ \E p \in Policy : ring_queue_set_overflow_policy(p)
  \/ \E b \in BOOLEAN : ring_queue_set_merge_fn(b)

RingSpec == ring_queue_init /\ [][RingNext]_ringVars

----------------------------------------------------------------------------
(* Properties *)

\* The items in the buffer, oldest first.
Contents == [i \in 1 .. count |-> buffer[At(i - 1)]]

Queue == INSTANCE BoundedQueue WITH items <- Contents, merging <- merge_fn

\* Types of all variables.
RingTypeOK ==
  /\ buffer \in [Index -> Item \cup {Junk}]
  /\ head \in Index /\ tail \in Index /\ count \in 0 .. CAPACITY
  /\ policy \in Policy /\ merge_fn \in BOOLEAN
  /\ stats \in Stats
  /\ last \in [ret : {"OK", "MERGED", "DROPPED", "ERR"}, out : Item \cup {None}]

\* Whatever wraps around and whatever policy holds when, the buffer is a queue
\* to its users: items come out once, in the order they went in, a full queue
\* loses its oldest or the new one as it was told to, a merge or a replacement
\* takes the oldest item that fits.
RingIsQueue == Queue!QueueSpec

\* No slot that was never written is ever handed out: the count items from head
\* on are items, however the three indices have wrapped.
HeldAreItems ==
  /\ \A i \in 0 .. count - 1 : buffer[At(i)] \in Item
  /\ tail = At(count)

\* ring_queue_stats_t accounts for every item: each push ends in a pop, an
\* overwrite, a drop or a merge, or is still in the queue.
StatsBalance ==
  stats.pushes = stats.pops + stats.overwrites + stats.drops + stats.merges + count
=============================================================================
