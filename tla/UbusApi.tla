------------------------------ MODULE UbusApi ------------------------------
(***************************************************************************)
(* What hal/ubus_hal.h promises its callers, apart from how the real layer *)
(* keeps it: "Callback WILL be invoked exactly once" for each request, and *)
(* after cleanup, which the callers' contexts need not outlive, no callback*)
(* at all.  A request that is answered within the call that makes it is    *)
(* over before a caller can look, and is no step here.                     *)
(***************************************************************************)
EXTENDS Integers

CONSTANT Ticket    \* the requests the layer can have outstanding at one time

VARIABLES
  serving,         \* init has been called and cleanup has not
  due              \* per ticket, the callbacks the layer still owes its caller

apiVars == <<serving, due>>

\* The layer takes a request and will answer it later.
Take(t) ==
  /\ serving /\ due[t] = 0
  /\ due' = [due EXCEPT ![t] = 1]
  /\ UNCHANGED serving

\* One handler answers some of the requests, each of them once: a reset of the
\* connection answers all that were sent on it.
Answer(A) ==
  /\ serving /\ \A t \in A : due[t] = 1
  /\ due' = [t \in Ticket |-> IF t \in A THEN 0 ELSE due[t]]
  /\ UNCHANGED serving

\* After cleanup nobody is called any more, whatever was still due.
Stop ==
  /\ serving
  /\ serving' = FALSE
  /\ UNCHANGED due

ApiInit == serving = TRUE /\ due = [t \in Ticket |-> 0]

ApiNext ==
  \/ \E t \in Ticket : Take(t)
  \/ \E A \in SUBSET Ticket : Answer(A)
  \/ Stop

ApiSafety == ApiInit /\ [][ApiNext]_apiVars

\* "Guaranteed": the answer comes, unless the layer is stopped before.
Answered == \A t \in Ticket : due[t] = 1 ~> (due[t] = 0 \/ ~serving)

ApiSpec == ApiSafety /\ Answered
=============================================================================
