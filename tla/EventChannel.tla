---------------------------- MODULE EventChannel ----------------------------
(***************************************************************************)
(* What event_queue.h of the threaded daemon (ADR 0005) gives the thread    *)
(* that pushes and the thread that waits, apart from how event_queue.c does *)
(* it: a channel without ring, sequence number, lock or condition variable. *)
(* Sending is one step, but for a key that meets a full channel; a call of  *)
(* event_queue_wait hands out the oldest event, or nothing: that it may do  *)
(* only if it has looked and seen an empty channel, and the channel is      *)
(* closed or the caller did not ask to wait for ever.                       *)
(***************************************************************************)
EXTENDS Integers, Sequences

CONSTANTS
  Keys, Ticks, \* the events: key presses and the shutdown; ticks
  CAPACITY,
  Merged,      \* [existing tick, new tick] -> the tick that stands for both
  None         \* no event

VARIABLES
  items,       \* the events, oldest first
  closed,
  late,        \* a key that met a full channel, or None
  asking,      \* the consumer waits for an event: "no", "asked", "saw none"
  patient      \* ... for as long as it takes

channelVars == <<items, closed, late, asking, patient>>

Full == Len(items) = CAPACITY
TickPlaces == {i \in 1 .. Len(items) : items[i] \in Ticks}
Oldest(i) == i \in TickPlaces /\ \A j \in TickPlaces : i <= j

-----------------------------------------------------------------------------
(* The sender, who may go on when the channel is closed *)

\* A tick adds to the oldest tick there is, or takes a place of its own.  In a
\* channel that is full of keys it is lost, which is no step here.
SendTick(t) ==
  /\ late = None
  /\ \/ \E i \in TickPlaces : Oldest(i) /\ items' = [items EXCEPT ![i] = Merged[<<items[i], t>>]]
     \/ TickPlaces = {} /\ ~Full /\ items' = Append(items, t)
  /\ UNCHANGED <<closed, late, asking, patient>>

SendKey(k) ==
  /\ late = None
  /\ IF Full THEN late' = k /\ UNCHANGED items
     ELSE items' = Append(items, k) /\ UNCHANGED late
  /\ UNCHANGED <<closed, asking, patient>>

\* A key takes the place of a tick.  It is lost only if there is none to take.
PlaceLate ==
  /\ late # None /\ late' = None
  /\ \/ \E i \in TickPlaces : Oldest(i) /\ items' = [items EXCEPT ![i] = late]
     \/ TickPlaces = {} /\ UNCHANGED items
  /\ UNCHANGED <<closed, asking, patient>>

Close ==
  /\ ~closed /\ closed' = TRUE
  /\ UNCHANGED <<items, late, asking, patient>>

-----------------------------------------------------------------------------
(* The receiver *)

Ask ==
  /\ asking = "no" /\ asking' = "asked"
  /\ patient' \in BOOLEAN
  /\ UNCHANGED <<items, closed, late>>

\* Waiting or not, the receiver is handed the oldest event.
Receive ==
  /\ items # <<>> /\ items' = Tail(items)
  /\ asking' = "no"
  /\ UNCHANGED <<closed, late, patient>>

SeeNone ==
  /\ asking = "asked" /\ items = <<>>
  /\ asking' = "saw none"
  /\ UNCHANGED <<items, closed, late, patient>>

LookAgain ==
  /\ asking = "saw none" /\ asking' = "asked"
  /\ UNCHANGED <<items, closed, late, patient>>

GiveUp ==
  /\ asking = "saw none" /\ (closed \/ ~patient)
  /\ asking' = "no"
  /\ UNCHANGED <<items, closed, late, patient>>

-----------------------------------------------------------------------------
ChannelInit ==
  /\ items = <<>> /\ closed = FALSE /\ late = None
  /\ asking = "no" /\ patient \in BOOLEAN

Sends == (\E t \in Ticks : SendTick(t)) \/ (\E k \in Keys : SendKey(k)) \/ PlaceLate \/ Close
Receives == Ask \/ Receive \/ SeeNone \/ LookAgain \/ GiveUp

ChannelNext == Sends \/ Receives

ChannelSafety == ChannelInit /\ [][ChannelNext]_channelVars

\* The wait ends: with an event in the channel, or a closed channel, nobody keeps
\* waiting.
Returned == asking # "no" /\ (items # <<>> \/ closed) ~> asking = "no"

ChannelSpec == ChannelSafety /\ Returned
=============================================================================
