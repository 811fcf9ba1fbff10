---------------------------- MODULE BoundedQueue ----------------------------
(***************************************************************************)
(* What the queues of the threaded daemon (ADR 0005) are for their users:   *)
(* a sequence of at most CAPACITY items, pushed at one end, popped at the   *)
(* other, with one of three policies when it is full.  ring_queue.h offers  *)
(* these operations; RingQueue keeps the sequence in a ring buffer and      *)
(* states what is assumed of the constants (RingAssumption).                *)
(***************************************************************************)
EXTENDS Integers, Sequences

CONSTANTS
  Item,
  None,        \* no item
  CAPACITY,
  Merged,      \* [existing, incoming] -> what merge_fn makes of the two, or None
  Matches      \* the sets of items a caller looks for with replace_first_if

Policy == {"OVERWRITE_OLDEST", "REJECT_NEW", "COALESCE"}

VARIABLES
  items,       \* the items, oldest first
  policy,
  merging,     \* a merge_fn has been set
  last         \* what the last call returned, and the item it handed out

queueVars == <<items, policy, merging, last>>

Returns(ret, item) == last' = [ret |-> ret, out |-> item]

Held == {items[i] : i \in 1 .. Len(items)}

\* Of the items in P, the one at index i came first.
First(i, P) == items[i] \in P /\ \A j \in 1 .. i - 1 : items[j] \notin P

\* Only a coalescing queue merges, and then with the oldest item that fits.
Partners(x) ==
  IF policy = "COALESCE" /\ merging THEN {y \in Item : Merged[y, x] # None} ELSE {}

Push(x) ==
  /\ \/ \E i \in 1 .. Len(items) :
          /\ First(i, Partners(x))
          /\ items' = [items EXCEPT ![i] = Merged[@, x]]
          /\ Returns("MERGED", None)
     \/ /\ Held \cap Partners(x) = {} /\ Len(items) < CAPACITY
        /\ items' = Append(items, x)
        /\ Returns("OK", None)
     \/ /\ Held \cap Partners(x) = {} /\ Len(items) = CAPACITY
        /\ policy = "OVERWRITE_OLDEST"
        /\ items' = Append(Tail(items), x)
        /\ Returns("OK", None)
     \/ /\ Held \cap Partners(x) = {} /\ Len(items) = CAPACITY
        /\ policy # "OVERWRITE_OLDEST"
        /\ UNCHANGED items
        /\ Returns("DROPPED", None)
  /\ UNCHANGED <<policy, merging>>

Pop ==
  /\ \/ items = <<>> /\ Returns("ERR", None) /\ UNCHANGED items
     \/ items # <<>> /\ Returns("OK", Head(items)) /\ items' = Tail(items)
  /\ UNCHANGED <<policy, merging>>

ReplaceFirst(M, x) ==
  /\ \/ Held \cap M = {} /\ Returns("ERR", None) /\ UNCHANGED items
     \/ \E i \in 1 .. Len(items) :
          First(i, M) /\ items' = [items EXCEPT ![i] = x] /\ Returns("OK", None)
  /\ UNCHANGED <<policy, merging>>

SetPolicy(p) == policy' = p /\ UNCHANGED <<items, merging, last>>
SetMerging(b) == merging' = b /\ UNCHANGED <<items, policy, last>>

QueueInit ==
  /\ items = <<>>
  /\ policy = "OVERWRITE_OLDEST" /\ merging = FALSE
  /\ last = [ret |-> "OK", out |-> None]

QueueNext ==
  \/ \E x \in Item : Push(x)
  \/ Pop
  \/ \E M \in Matches, x \in Item : ReplaceFirst(M, x)
  \/ \E p \in Policy : SetPolicy(p)
  \/ \E b \in BOOLEAN : SetMerging(b)

QueueSpec == QueueInit /\ [][QueueNext]_queueVars
=============================================================================
