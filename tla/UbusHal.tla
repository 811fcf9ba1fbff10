------------------------------ MODULE UbusHal ------------------------------
(***************************************************************************)
(* The ubus hardware-abstraction layer of the single-threaded display      *)
(* daemon (src/src/hal/ubus_hal_real.c): a pool of pending request slots,  *)
(* one timer per slot, one connection to ubusd with a cached object id of  *)
(* rpcd's "rc", and a reconnection backoff.  Everything runs on the uloop  *)
(* thread, so one handler is one action.                                   *)
(*                                                                         *)
(* Time is counted in seconds, the unit of the backoff and of the 3000 ms  *)
(* request timeout.  Instants are kept as ages and as time left, so that   *)
(* the state space is finite: g_last_attempt_time is since_attempt, a      *)
(* timer is the time it has left.  `completed` is only ever TRUE inside a  *)
(* handler, between the moment a slot's fate is decided and the end of     *)
(* that handler, so no state shows it; what it protects is in AbortSet.    *)
(***************************************************************************)
EXTENDS Integers

CONSTANTS
  Service,                 \* the services a request can be about
  MAX_PENDING_REQUESTS,    \* slots in g_pending
  DEFAULT_TIMEOUT,         \* seconds a request may take
  BACKOFF_MAX_SEC,         \* cap of the delay between two connection attempts
  TIMEOUT_RESET_THRESHOLD, \* failures in a row after which the connection is reset
  INT_BITS,                \* width of C's int
  Free                     \* the content of a slot whose in_use is false

ASSUME HalAssumption ==
  /\ MAX_PENDING_REQUESTS \in Nat \ {0}
  /\ DEFAULT_TIMEOUT \in Nat \ {0}
  /\ BACKOFF_MAX_SEC \in Nat \ {0}
  /\ INT_BITS \in Nat \ {0}
  /\ TIMEOUT_RESET_THRESHOLD \in 1 .. INT_BITS

Slot == 1 .. MAX_PENDING_REQUESTS

\* What a slot remembers of the call that took it: the operation, whom it is
\* about (service and priv) and, for a control, whether it starts the service.
Request == [type : {"query", "control"}, who : Service, start_op : BOOLEAN]

QueryOf(s) == [type |-> "query", who |-> s, start_op |-> FALSE]
ControlOf(s, start) == [type |-> "control", who |-> s, start_op |-> start]

ASSUME FreeAssumption == Free \notin Request

VARIABLES
  g_initialized,          \* between real_init and real_cleanup
  g_ctx,                  \* TRUE: connected to ubusd
  g_rc_id,                \* TRUE: the id of the "rc" object is cached
  g_consecutive_failures,
  since_attempt,          \* seconds since g_last_attempt_time
  g_pending,              \* slot -> the request that holds it, or Free
  g_timer,                \* slot -> seconds its timer has left
  owed                    \* slot -> requests accepted in it minus callbacks made
                          \* for them: the contexts (priv) still to be freed

connection == <<g_ctx, g_rc_id, g_consecutive_failures, since_attempt>>
requests   == <<g_pending, g_timer, owed>>
halVars    == <<g_initialized, connection, requests>>

InUse == {k \in Slot : g_pending[k] # Free}

----------------------------------------------------------------------------
(* Backoff *)

\* BACKOFF_BASE_SEC << n for an int of INT_BITS bits, capped as in the code.
\* The shift that reaches the sign bit yields the most negative int, which the
\* cap leaves alone; a shift by the width or more is undefined and the
\* processors this runs on mask the count, so it yields any of the others.
DelayOfShift(n) ==
  IF n = INT_BITS - 1 THEN -(2 ^ n)
  ELSE IF 2 ^ n > BACKOFF_MAX_SEC THEN BACKOFF_MAX_SEC ELSE 2 ^ n

get_backoff_delay(f) ==
  IF f = 0 THEN {0}
  ELSE IF f <= INT_BITS THEN {DelayOfShift(f - 1)}
  ELSE {DelayOfShift(n) : n \in 0 .. INT_BITS - 1}

\* Past INT_BITS failures the delay no longer depends on their number.
OneMore(f) == IF f > INT_BITS THEN f ELSE f + 1

MayConnect == \E d \in get_backoff_delay(g_consecutive_failures) : since_attempt >= d
MustWait   == \E d \in get_backoff_delay(g_consecutive_failures) : since_attempt < d

----------------------------------------------------------------------------
(* Giving slots back: every callback made for slot k is counted in calls[k]. *)

Release(A, calls) ==
  /\ g_pending' = [k \in Slot |-> IF k \in A THEN Free ELSE g_pending[k]]
  /\ g_timer'   = [k \in Slot |-> IF k \in A THEN 0 ELSE g_timer[k]]
  /\ owed'      = [k \in Slot |-> owed[k] - calls[k]]

Once(k, A) == IF k \in A THEN 1 ELSE 0

\* abort_all_pending answers every slot that is in use and not completed.
abort_all_pending(A) == Release(A, [k \in Slot |-> Once(k, A)])

----------------------------------------------------------------------------
(* The connection, as a call of the interface finds or makes it *)

\* Defect: the instant of the attempt is noted before the backoff is checked.
BackoffRefuses_Prolongs ==
  /\ ~g_ctx /\ MustWait
  /\ since_attempt' = 0
  /\ UNCHANGED <<g_ctx, g_rc_id, g_consecutive_failures, requests>>

\* ensure_context returned -1 without an attempt.
BackoffRefuses ==
  /\ ~g_ctx /\ MustWait
  /\ UNCHANGED <<connection, requests>>

\* ubus_connect failed.
ConnectFails ==
  /\ ~g_ctx /\ MayConnect
  /\ g_ctx' = FALSE /\ g_rc_id' = FALSE
  /\ since_attempt' = 0
  /\ g_consecutive_failures' = OneMore(g_consecutive_failures)
  /\ UNCHANGED requests

\* ensure_context returned 0, with the connection there was or a new one.
ensure_context ==
  /\ g_ctx \/ MayConnect
  /\ since_attempt' = IF g_ctx THEN since_attempt ELSE 0
  /\ g_consecutive_failures' = IF g_ctx THEN g_consecutive_failures ELSE 0

\* Defect: the context is freed under the requests that are pending on it.
LookupFails_NoAbort ==
  /\ ~g_rc_id
  /\ ensure_context
  /\ g_ctx' = FALSE /\ g_rc_id' = FALSE
  /\ UNCHANGED requests

\* ubus_lookup_id failed: reset_connection, which first aborts what is pending.
LookupFails ==
  /\ ~g_rc_id
  /\ ensure_context
  /\ g_ctx' = FALSE /\ g_rc_id' = FALSE
  /\ abort_all_pending(InUse)

\* ensure_rc_id returned 0.
ensure_rc_id ==
  /\ ensure_context
  /\ g_ctx' = TRUE /\ g_rc_id' = TRUE

----------------------------------------------------------------------------
(* The operations of the interface *)

\* The call answers its own callback before it returns: no connection
\* (CONN_FAILED), or no free slot, or ubus_invoke_async refused (ERROR; the
\* slot taken for it has been released again).
AnswerAtOnce ==
  /\ g_initialized
  /\ \/ BackoffRefuses
     \/ ConnectFails
     \/ LookupFails
     \/ ensure_rc_id /\ UNCHANGED requests
  /\ UNCHANGED g_initialized

\* alloc_request takes the first free slot.
alloc_request(k) == k \in Slot \ InUse /\ \A j \in Slot \ InUse : k <= j

\* The call sends request r and leaves it pending in slot k.
SendRequest(r, k) ==
  /\ g_initialized
  /\ ensure_rc_id
  /\ alloc_request(k)
  /\ g_pending' = [g_pending EXCEPT ![k] = r]
  /\ g_timer' = [g_timer EXCEPT ![k] = DEFAULT_TIMEOUT]
  /\ owed' = [owed EXCEPT ![k] = @ + 1]
  /\ UNCHANGED g_initialized

real_query_service_async(s) ==
  AnswerAtOnce \/ \E k \in Slot : SendRequest(QueryOf(s), k)

real_control_service_async(s, start) ==
  AnswerAtOnce \/ \E k \in Slot : SendRequest(ControlOf(s, start), k)

\* Final call of main: what is pending is aborted and nobody is called back.
real_cleanup ==
  /\ g_initialized
  /\ g_initialized' = FALSE
  /\ g_ctx' = FALSE /\ g_rc_id' = FALSE
  /\ Release(InUse, [k \in Slot |-> 0])
  /\ UNCHANGED <<g_consecutive_failures, since_attempt>>

----------------------------------------------------------------------------
(* The handlers uloop runs *)

\* Defect: slot k is not marked completed before the abort.
AbortSet_NotMarked(k) == InUse

\* The slots a timeout in slot k aborts along with it: k itself was marked
\* completed first, and abort_all_pending passes over completed slots.
AbortSet(k) == InUse \ {k}

ResetsConnection(failures) == failures >= TIMEOUT_RESET_THRESHOLD

\* The timer of slot k has run out.
request_timeout_cb(k) ==
  LET failures == OneMore(g_consecutive_failures)
      aborted  == IF ResetsConnection(failures) THEN AbortSet(k) ELSE {}
  IN /\ g_pending[k] # Free /\ g_timer[k] = 0
     /\ g_consecutive_failures' = failures
     /\ g_rc_id' = FALSE
     /\ g_ctx' = (g_ctx /\ ~ResetsConnection(failures))
     /\ Release(aborted \cup {k}, [j \in Slot |-> Once(j, aborted) + Once(j, {k})])
     /\ UNCHANGED <<g_initialized, since_attempt>>

Status == {"OK", "TIMEOUT", "NOT_FOUND", "CONNECTION_FAILED", "INVALID_ARGUMENT", "OTHER"}

FailuresAfter(ret) ==
  CASE ret = "OK" -> 0
    [] ret = "CONNECTION_FAILED" -> OneMore(g_consecutive_failures)
    [] OTHER -> g_consecutive_failures

\* Defect: an answer that comes when its slot was given back calls back as well.
query_complete_cb_Late(k, ret) ==
  /\ g_ctx
  /\ g_consecutive_failures' = FailuresAfter(ret)
  /\ g_rc_id' = (g_rc_id /\ ret \notin {"NOT_FOUND", "CONNECTION_FAILED", "INVALID_ARGUMENT"})
  /\ Release({k}, [j \in Slot |-> Once(j, {k})])
  /\ UNCHANGED <<g_initialized, g_ctx, since_attempt>>

\* libubus reports the end of the request of slot k with status ret.
query_complete_cb(k, ret) ==
  /\ g_ctx /\ g_pending[k] # Free
  /\ g_consecutive_failures' = FailuresAfter(ret)
  /\ g_rc_id' = (g_rc_id /\ ret \notin {"NOT_FOUND", "CONNECTION_FAILED", "INVALID_ARGUMENT"})
  /\ Release({k}, [j \in Slot |-> Once(j, {k})])
  /\ UNCHANGED <<g_initialized, g_ctx, since_attempt>>

\* A second passes.  uloop may be late: a timer that is due stays at 0.
HalTick ==
  /\ since_attempt' = IF since_attempt < BACKOFF_MAX_SEC THEN since_attempt + 1 ELSE since_attempt
  /\ g_timer' = [k \in Slot |-> IF g_timer[k] > 0 THEN g_timer[k] - 1 ELSE 0]
  /\ UNCHANGED <<g_initialized, g_ctx, g_rc_id, g_consecutive_failures, g_pending, owed>>

----------------------------------------------------------------------------
\* The state real_init leaves: g_last_attempt_time was 0, so the first attempt
\* is never held back, and it may fail.
HalInit ==
  /\ g_initialized = TRUE
  /\ g_ctx \in BOOLEAN /\ g_rc_id = FALSE
  /\ g_consecutive_failures = IF g_ctx THEN 0 ELSE 1
  /\ since_attempt = 0
  /\ g_pending = [k \in Slot |-> Free]
  /\ g_timer = [k \in Slot |-> 0]
  /\ owed = [k \in Slot |-> 0]

HalNext ==
  \/ \E s \in Service : real_query_service_async(s)
  \/ \E s \in Service, start \in BOOLEAN : real_control_service_async(s, start)
  \/ \E k \in Slot : request_timeout_cb(k)
  \/ \E k \in Slot, ret \in Status : query_complete_cb(k, ret)
  \/ HalTick
  \/ real_cleanup

HalSafety == HalInit /\ [][HalNext]_halVars

\* Seconds go by, and uloop runs the callback of a timer that stays due.
HalFairness == WF_halVars(HalTick) /\ \A k \in Slot : WF_halVars(request_timeout_cb(k))

HalSpec == HalSafety /\ HalFairness

----------------------------------------------------------------------------
(* The promise of the header, read off the state of the layer *)

Api == INSTANCE UbusApi WITH Ticket <- Slot, serving <- g_initialized, due <- owed

(* Properties *)

\* ubus_hal.h's promise to its callers (UbusApi), kept: every step of the layer
\* takes one request, answers some of those it has taken, each once, or is not
\* noticed, and every request it has taken is answered or outlived by cleanup.
ImplementsApi == Api!ApiSpec

\* The part of the promise that needs no fairness.
ImplementsApiSafely == Api!ApiSafety

\* Types of all variables, and the fields of a slot in step with its use.
HalTypeOK ==
  /\ g_initialized \in BOOLEAN /\ g_ctx \in BOOLEAN /\ g_rc_id \in BOOLEAN
  /\ g_consecutive_failures \in 0 .. INT_BITS + 1
  /\ since_attempt \in 0 .. BACKOFF_MAX_SEC
  /\ g_pending \in [Slot -> Request \cup {Free}]
  /\ g_timer \in [Slot -> 0 .. DEFAULT_TIMEOUT]
  /\ owed \in [Slot -> Int]

\* ubus_hal.h: "Callback WILL be invoked exactly once ... guaranteed to be
\* called at most once per request".  While the layer runs, a slot owes one
\* callback exactly when it is in use: a second callback (a double free of its
\* context) or a slot given back without one (a leak) breaks the balance.
ExactlyOneCallback ==
  g_initialized => \A k \in Slot : owed[k] = Once(k, InUse)

\* reset_connection frees the context only once nothing is pending on it, and
\* an object id outlives no connection: a request in flight always has the
\* connection it was sent on.
NoDanglingRequest ==
  /\ InUse # {} => g_ctx
  /\ g_rc_id => g_ctx

\* Once real_cleanup ran, no callback reaches the status structure that main
\* is about to destroy: every timer and every request was cancelled with it.
NoCallbackAfterCleanup == [][~g_initialized => owed' = owed]_halVars

\* However often calls come while the backoff holds them off, it runs out: an
\* attempt that is refused does not prolong the wait.
BackoffExpires == []<>(g_ctx \/ MayConnect)
=============================================================================
