---------------------------- MODULE MCRingQueue ----------------------------
(***************************************************************************)
(* RingQueue with the items of the event queue: a key, and ticks, which      *)
(* merge into a tick that stands for several.                               *)
(***************************************************************************)
EXTENDS RingQueue

CONSTANTS key, tick, ticks

MCItem == {key, tick, ticks}
MCMerged == [p \in MCItem \X MCItem |-> IF key \in {p[1], p[2]} THEN None ELSE ticks]
MCMatches == {{tick, ticks}}
=============================================================================
