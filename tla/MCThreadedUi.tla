---------------------------- MODULE MCThreadedUi ----------------------------
(* ThreadedUi with the presses that lead into every branch; K3 differs from   *)
(* K1 in the direction of the slide only.                                    *)
EXTENDS ThreadedUi

Short(k) == [key |-> k, long |-> FALSE]
Long(k) == [key |-> k, long |-> TRUE]
MCKeys == {Short("K1"), Short("K2"), Long("K2")}
=============================================================================
