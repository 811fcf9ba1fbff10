---------------------------- MODULE UbusProofs ----------------------------
(***************************************************************************)
(* Proofs about UbusHal and about ServiceStatus, which extends it.  The     *)
(* layer: the accounting of requests and callbacks is right for every size *)
(* of the slot pool, every timeout, threshold and backoff.  The status code:*)
(* it drives the layer by its interface, and query_pending mirrors the      *)
(* pool, for every number of services and every list of names.              *)
(***************************************************************************)
EXTENDS ServiceStatus, TLAPS

USE HalAssumption, FreeAssumption, StatusAssumption
    DEF HalAssumption, FreeAssumption, StatusAssumption

----------------------------------------------------------------------------
(* The ubus layer *)

\* Once cleaned up, the layer has nothing pending that could call back.
StoppedIsEmpty == ~g_initialized => InUse = {}

\* None of its parts is preserved alone: a connection is only dropped together
\* with the requests on it, the arithmetic of owed needs the types, and the
\* accounts stay closed after the cleanup only because nothing is pending.
HalInv == HalTypeOK /\ ExactlyOneCallback /\ NoDanglingRequest /\ StoppedIsEmpty


\* The state real_init leaves satisfies the invariant.
LEMMA HalInitInv == HalInit => HalInv
<1> SUFFICES ASSUME HalInit PROVE HalInv
  OBVIOUS
<1>1. HalTypeOK
  <2>1. /\ g_pending \in [Slot -> Request \cup {Free}]
        /\ g_timer \in [Slot -> 0 .. DEFAULT_TIMEOUT]
        /\ owed \in [Slot -> Int]
    BY DEF HalInit
  <2>2. g_consecutive_failures \in 0 .. INT_BITS + 1 /\ since_attempt \in 0 .. BACKOFF_MAX_SEC
    BY DEF HalInit
  <2>3. QED
    BY <2>1, <2>2 DEF HalInit, HalTypeOK
<1>2. InUse = {}
  BY DEF HalInit, InUse
<1>3. QED
  BY <1>1, <1>2 DEF HalInit, HalInv, ExactlyOneCallback, NoDanglingRequest, StoppedIsEmpty, Once

\* What a call of the interface does that answers its callback before it
\* returns: it may abort everything and drop the connection, or connect.
LEMMA AnswerAtOnceInv == ASSUME HalInv, AnswerAtOnce PROVE HalInv'
<1> USE DEF HalInv, HalTypeOK, ExactlyOneCallback, NoDanglingRequest, StoppedIsEmpty, InUse, Once,
            connection, requests
<1>1. CASE BackoffRefuses
  BY <1>1 DEF BackoffRefuses, AnswerAtOnce
<1>2. CASE ConnectFails
  <2>1. OneMore(g_consecutive_failures) \in 0 .. INT_BITS + 1
    BY DEF OneMore
  <2>2. /\ g_ctx' = FALSE /\ g_rc_id' = FALSE /\ g_initialized' = g_initialized
        /\ since_attempt' = 0 /\ UNCHANGED <<g_pending, g_timer, owed>>
        /\ g_consecutive_failures' = OneMore(g_consecutive_failures)
        /\ ~g_ctx
    BY <1>2 DEF ConnectFails, AnswerAtOnce
  <2>3. HalTypeOK'
    <3>1. g_initialized' \in BOOLEAN /\ g_ctx' \in BOOLEAN /\ g_rc_id' \in BOOLEAN
      BY <2>2
    <3>2. since_attempt' \in 0 .. BACKOFF_MAX_SEC
      BY <2>2
    <3>3. QED
      BY <2>1, <2>2, <3>1, <3>2
  <2>4. InUse = {} /\ InUse' = {}
    BY <2>2
  <2>5. ExactlyOneCallback'
    BY <2>2, <2>4
  <2>6. NoDanglingRequest' /\ StoppedIsEmpty'
    BY <2>2, <2>4
  <2>7. QED
    BY <2>3, <2>5, <2>6
<1>3. CASE LookupFails
  <2>1. /\ g_initialized' = g_initialized
        /\ g_ctx' = FALSE /\ g_rc_id' = FALSE
        /\ since_attempt' \in 0 .. BACKOFF_MAX_SEC
        /\ g_consecutive_failures' \in 0 .. INT_BITS + 1
    BY <1>3 DEF LookupFails, ensure_context, AnswerAtOnce
  <2>2. Release(InUse, [k \in Slot |-> Once(k, InUse)])
    BY <1>3 DEF LookupFails, abort_all_pending
  <2>3. HalTypeOK'
    <3>1. /\ g_pending' \in [Slot -> Request \cup {Free}]
          /\ g_timer' \in [Slot -> 0 .. DEFAULT_TIMEOUT]
          /\ owed' \in [Slot -> Int]
      BY <2>2 DEF Release
    <3>2. g_initialized' \in BOOLEAN /\ g_ctx' \in BOOLEAN /\ g_rc_id' \in BOOLEAN
      BY <2>1
    <3>3. QED
      BY <2>1, <3>1, <3>2
  <2>4. InUse' = {}
    BY <2>2 DEF Release
  <2>5. ExactlyOneCallback'
    BY <2>1, <2>2, <2>4 DEF Release
  <2>6. QED
    BY <2>1, <2>3, <2>4, <2>5
<1>4. CASE ensure_rc_id /\ UNCHANGED requests
  BY <1>4 DEF ensure_rc_id, ensure_context, AnswerAtOnce
<1>5. QED
  BY <1>1, <1>2, <1>3, <1>4 DEF AnswerAtOnce

\* A request that stays pending takes a free slot and the connection it needs.
LEMMA SendRequestInv ==
  ASSUME HalInv, NEW r \in Request, NEW k \in Slot, SendRequest(r, k)
  PROVE  HalInv'
BY DEF SendRequest, ensure_rc_id, ensure_context, alloc_request, HalInv, HalTypeOK,
       ExactlyOneCallback, NoDanglingRequest, StoppedIsEmpty, InUse, Once

\* A timeout answers its own request once and, when it resets the connection,
\* every other pending request once.
LEMMA TimeoutInv ==
  ASSUME HalInv, NEW k \in Slot, request_timeout_cb(k)
  PROVE  HalInv'
<1> DEFINE failures == OneMore(g_consecutive_failures)
           aborted  == IF ResetsConnection(failures) THEN AbortSet(k) ELSE {}
<1>1. failures \in 0 .. INT_BITS + 1
  BY DEF OneMore, HalInv, HalTypeOK
<1>2. /\ g_pending[k] # Free
      /\ g_initialized' = g_initialized /\ since_attempt' = since_attempt
      /\ g_consecutive_failures' = failures
      /\ g_rc_id' = FALSE
      /\ g_ctx' = (g_ctx /\ ~ResetsConnection(failures))
      /\ Release(aborted \cup {k}, [j \in Slot |-> Once(j, aborted) + Once(j, {k})])
  BY DEF request_timeout_cb
<1> HIDE DEF failures
<1>3. HalTypeOK'
  <2>1. /\ g_pending' \in [Slot -> Request \cup {Free}]
        /\ g_timer' \in [Slot -> 0 .. DEFAULT_TIMEOUT]
        /\ owed' \in [Slot -> Int]
    BY <1>2 DEF HalInv, HalTypeOK, Release, Once
  <2>2. /\ g_initialized' \in BOOLEAN /\ g_rc_id' \in BOOLEAN
        /\ g_consecutive_failures' \in 0 .. INT_BITS + 1
        /\ since_attempt' \in 0 .. BACKOFF_MAX_SEC
    BY <1>1, <1>2 DEF HalInv, HalTypeOK
  <2>3. g_ctx' \in BOOLEAN
    BY <1>2
  <2>4. QED
    BY <2>1, <2>2, <2>3 DEF HalTypeOK
<1>4. aborted \subseteq InUse \ {k}
  BY DEF AbortSet
<1>5. InUse' = InUse \ (aborted \cup {k})
  BY <1>2 DEF Release, InUse
<1>6. ExactlyOneCallback'
  BY <1>2, <1>4, <1>5 DEF HalInv, HalTypeOK, ExactlyOneCallback, Release, Once, InUse
<1>7. NoDanglingRequest'
  BY <1>2, <1>5 DEF HalInv, HalTypeOK, NoDanglingRequest, AbortSet
<1>8. StoppedIsEmpty'
  BY <1>2, <1>5 DEF HalInv, StoppedIsEmpty
<1>9. QED
  BY <1>3, <1>6, <1>7, <1>8 DEF HalInv

\* A completion answers the request of its slot and touches no other.
LEMMA CompleteInv ==
  ASSUME HalInv, NEW k \in Slot, NEW ret \in Status, query_complete_cb(k, ret)
  PROVE  HalInv'
<1>1. OneMore(g_consecutive_failures) \in 0 .. INT_BITS + 1
  BY DEF OneMore, HalInv, HalTypeOK
<1>2. /\ g_ctx /\ g_pending[k] # Free
      /\ g_initialized' = g_initialized /\ g_ctx' = g_ctx /\ since_attempt' = since_attempt
      /\ Release({k}, [j \in Slot |-> Once(j, {k})])
  BY DEF query_complete_cb
<1>3. g_consecutive_failures' \in 0 .. INT_BITS + 1
  BY <1>1 DEF FailuresAfter, query_complete_cb, HalInv, HalTypeOK
<1>4. g_rc_id' \in BOOLEAN
  BY DEF query_complete_cb
<1>5. HalTypeOK'
  <2>1. /\ g_pending' \in [Slot -> Request \cup {Free}]
        /\ g_timer' \in [Slot -> 0 .. DEFAULT_TIMEOUT]
        /\ owed' \in [Slot -> Int]
    BY <1>2 DEF HalInv, HalTypeOK, Release, Once
  <2>2. QED
    BY <1>2, <1>3, <1>4, <2>1 DEF HalInv, HalTypeOK
<1>6. ExactlyOneCallback'
  BY <1>2 DEF HalInv, HalTypeOK, ExactlyOneCallback, Release, Once, InUse
<1>7. NoDanglingRequest'
  BY <1>2 DEF NoDanglingRequest
<1>8. StoppedIsEmpty'
  BY <1>2 DEF HalInv, StoppedIsEmpty, InUse, Release
<1>9. QED
  BY <1>5, <1>6, <1>7, <1>8 DEF HalInv

\* Time and shutdown leave the accounts as they are.
LEMMA TickInv == ASSUME HalInv, HalTick PROVE HalInv'
BY DEF HalTick, HalInv, HalTypeOK, ExactlyOneCallback, NoDanglingRequest, StoppedIsEmpty,
       InUse, Once

LEMMA CleanupInv == ASSUME HalInv, real_cleanup PROVE HalInv'
<1>1. /\ g_initialized' \in BOOLEAN /\ g_ctx' \in BOOLEAN /\ g_rc_id' \in BOOLEAN
      /\ ~g_initialized' /\ ~g_rc_id'
  BY DEF real_cleanup
<1>2. /\ g_pending' \in [Slot -> Request \cup {Free}]
      /\ g_timer' \in [Slot -> 0 .. DEFAULT_TIMEOUT]
      /\ owed' \in [Slot -> Int]
      /\ InUse' = {}
  BY DEF real_cleanup, Release, InUse, HalInv, HalTypeOK
<1>3. HalTypeOK'
  BY <1>1, <1>2 DEF real_cleanup, HalInv, HalTypeOK
<1>4. QED
  BY <1>1, <1>2, <1>3 DEF HalInv, ExactlyOneCallback, NoDanglingRequest, StoppedIsEmpty

LEMMA HalStepInv == HalInv /\ [HalNext]_halVars => HalInv'
<1> SUFFICES ASSUME HalInv, [HalNext]_halVars PROVE HalInv'
  OBVIOUS
<1>1. CASE UNCHANGED halVars
  BY <1>1 DEF halVars, connection, requests, HalInv, HalTypeOK, ExactlyOneCallback,
              NoDanglingRequest, StoppedIsEmpty, InUse, Once
<1>2. ASSUME NEW s \in Service, real_query_service_async(s) PROVE HalInv'
  <2>1. QueryOf(s) \in Request
    BY DEF QueryOf, Request
  <2>2. QED
    BY <1>2, <2>1, AnswerAtOnceInv, SendRequestInv DEF real_query_service_async
<1>3. ASSUME NEW s \in Service, NEW start \in BOOLEAN, real_control_service_async(s, start)
      PROVE  HalInv'
  <2>1. ControlOf(s, start) \in Request
    BY DEF ControlOf, Request
  <2>2. QED
    BY <1>3, <2>1, AnswerAtOnceInv, SendRequestInv DEF real_control_service_async
<1>4. QED
  BY <1>1, <1>2, <1>3, TimeoutInv, CompleteInv, TickInv, CleanupInv DEF HalNext

\* The layer keeps its types, whatever calls, replies and delays come.
THEOREM HalTypeCorrect == HalSafety => []HalTypeOK
<1>1. HalInv => HalTypeOK
  BY DEF HalInv
<1>2. QED
  BY HalInitInv, HalStepInv, <1>1, PTL DEF HalSafety

\* ubus_hal.h's promise: every accepted request gets exactly one callback.
THEOREM CallbackOnce == HalSafety => []ExactlyOneCallback
<1>1. HalInv => ExactlyOneCallback
  BY DEF HalInv
<1>2. QED
  BY HalInitInv, HalStepInv, <1>1, PTL DEF HalSafety

\* A request in flight and a cached object id belong to a live connection.
THEOREM RequestsHaveConnection == HalSafety => []NoDanglingRequest
<1>1. HalInv => NoDanglingRequest
  BY DEF HalInv
<1>2. QED
  BY HalInitInv, HalStepInv, <1>1, PTL DEF HalSafety

\* After real_cleanup nobody is called back any more.
THEOREM SilentAfterCleanup == HalSafety => NoCallbackAfterCleanup
<1>1. HalInv /\ [HalNext]_halVars => [~g_initialized => owed' = owed]_halVars
  <2> SUFFICES ASSUME HalInv, HalNext, ~g_initialized PROVE owed' = owed
    OBVIOUS
  <2>1. \A k \in Slot : g_pending[k] = Free
    BY DEF HalInv, StoppedIsEmpty, InUse
  <2>2. ~AnswerAtOnce /\ \A r \in Request, k \in Slot : ~SendRequest(r, k)
    BY DEF AnswerAtOnce, SendRequest
  <2>3. /\ \A s \in Service : ~real_query_service_async(s)
        /\ \A s \in Service, start \in BOOLEAN : ~real_control_service_async(s, start)
    BY <2>2 DEF real_query_service_async, real_control_service_async, QueryOf, ControlOf, Request
  <2>4. /\ ~real_cleanup
        /\ \A k \in Slot : ~request_timeout_cb(k)
        /\ \A k \in Slot, ret \in Status : ~query_complete_cb(k, ret)
    BY <2>1 DEF real_cleanup, request_timeout_cb, query_complete_cb
  <2>5. HalTick
    BY <2>3, <2>4 DEF HalNext
  <2>6. QED
    BY <2>5 DEF HalTick
<1>2. QED
  BY HalInitInv, HalStepInv, <1>1, PTL DEF HalSafety, NoCallbackAfterCleanup

----------------------------------------------------------------------------
(* The layer implements the promise of its header *)

\* Giving slots of A back with one callback each is Answer(A) to the callers,
\* as every slot of A still owes one.
LEMMA AnswersAre ==
  ASSUME HalInv, g_initialized, g_initialized' = g_initialized,
         NEW A \in SUBSET Slot, A \subseteq InUse,
         owed' = [k \in Slot |-> owed[k] - Once(k, A)]
  PROVE  Api!Answer(A)
BY DEF HalInv, HalTypeOK, ExactlyOneCallback, Once, Api!Answer

\* Every step of the layer is one the promise allows, or is not seen at all.
LEMMA HalStepRefines == HalInv /\ [HalNext]_halVars => [Api!ApiNext]_(Api!apiVars)
<1> SUFFICES ASSUME HalInv, [HalNext]_halVars PROVE [Api!ApiNext]_(Api!apiVars)
  OBVIOUS
<1>1. CASE UNCHANGED halVars
  BY <1>1 DEF halVars, requests, Api!apiVars
<1>2. ASSUME AnswerAtOnce PROVE [Api!ApiNext]_(Api!apiVars)
  <2>1. CASE UNCHANGED <<g_initialized, owed>>
    BY <2>1 DEF Api!apiVars
  <2>2. CASE LookupFails
    <3>1. owed' = [k \in Slot |-> owed[k] - Once(k, InUse)]
      BY <2>2 DEF LookupFails, abort_all_pending, Release
    <3>2. InUse \in SUBSET Slot
      BY DEF InUse
    <3>3. Api!Answer(InUse)
      BY <1>2, <3>1, <3>2, AnswersAre DEF AnswerAtOnce
    <3>4. QED
      BY <3>2, <3>3 DEF Api!ApiNext
  <2>3. QED
    BY <1>2, <2>1, <2>2 DEF AnswerAtOnce, BackoffRefuses, ConnectFails, requests
<1>3. ASSUME NEW r \in Request, NEW k \in Slot, SendRequest(r, k) PROVE Api!ApiNext
  <2>1. k \notin InUse /\ g_initialized
    BY <1>3 DEF SendRequest, alloc_request
  <2>2. owed[k] = 0
    BY <2>1 DEF HalInv, ExactlyOneCallback, Once
  <2>3. Api!Take(k)
    BY <1>3, <2>1, <2>2 DEF SendRequest, Api!Take
  <2>4. QED
    BY <2>3 DEF Api!ApiNext
<1>4. ASSUME NEW k \in Slot, request_timeout_cb(k) PROVE Api!ApiNext
  <2> DEFINE aborted == IF ResetsConnection(OneMore(g_consecutive_failures))
                        THEN AbortSet(k) ELSE {}
             A == aborted \cup {k}
  <2>1. /\ k \in InUse /\ A \subseteq InUse /\ A \in SUBSET Slot
        /\ \A j \in Slot : Once(j, aborted) + Once(j, {k}) = Once(j, A)
    BY <1>4 DEF request_timeout_cb, InUse, AbortSet, Once
  <2>2. owed' = [j \in Slot |-> owed[j] - (Once(j, aborted) + Once(j, {k}))]
    BY <1>4 DEF request_timeout_cb, Release
  <2> HIDE DEF aborted
  <2>3. owed' = [j \in Slot |-> owed[j] - Once(j, A)]
    BY <2>1, <2>2
  <2>4. g_initialized /\ g_initialized' = g_initialized
    BY <1>4, <2>1 DEF request_timeout_cb, HalInv, StoppedIsEmpty
  <2> HIDE DEF A
  <2>5. Api!Answer(A)
    BY <2>1, <2>3, <2>4, AnswersAre
  <2>6. QED
    BY <2>1, <2>5 DEF Api!ApiNext
<1>5. ASSUME NEW k \in Slot, NEW ret \in Status, query_complete_cb(k, ret) PROVE Api!ApiNext
  <2>1. k \in InUse /\ {k} \in SUBSET Slot
    BY <1>5 DEF query_complete_cb, InUse
  <2>2. /\ owed' = [j \in Slot |-> owed[j] - Once(j, {k})]
        /\ g_initialized /\ g_initialized' = g_initialized
    BY <1>5, <2>1 DEF query_complete_cb, Release, HalInv, StoppedIsEmpty
  <2>3. Api!Answer({k})
    BY <2>1, <2>2, AnswersAre
  <2>4. QED
    BY <2>1, <2>3 DEF Api!ApiNext
<1>6. ASSUME real_cleanup PROVE Api!ApiNext
  <2>1. owed' = owed
    BY <1>6 DEF real_cleanup, Release, HalInv, HalTypeOK
  <2>2. QED
    BY <1>6, <2>1 DEF real_cleanup, Api!Stop, Api!ApiNext
<1>7. ASSUME HalTick PROVE UNCHANGED Api!apiVars
  BY <1>7 DEF HalTick, Api!apiVars
<1>8. ASSUME NEW s \in Service, real_query_service_async(s) PROVE [Api!ApiNext]_(Api!apiVars)
  <2>1. QueryOf(s) \in Request
    BY DEF QueryOf, Request
  <2>2. QED
    BY <1>2, <1>3, <1>8, <2>1 DEF real_query_service_async
<1>9. ASSUME NEW s \in Service, NEW start \in BOOLEAN, real_control_service_async(s, start)
      PROVE  [Api!ApiNext]_(Api!apiVars)
  <2>1. ControlOf(s, start) \in Request
    BY DEF ControlOf, Request
  <2>2. QED
    BY <1>2, <1>3, <1>9, <2>1 DEF real_control_service_async
<1>10. QED
  BY <1>1, <1>4, <1>5, <1>6, <1>7, <1>8, <1>9 DEF HalNext

\* The layer implements the safe part of its header's promise, for any number
\* of slots: that the answers come in the end is left to the runs.
THEOREM HalImplementsApi == HalSafety => ImplementsApiSafely
<1>1. HalInit => Api!ApiInit
  BY DEF HalInit, Api!ApiInit
<1>2. QED
  BY <1>1, HalInitInv, HalStepInv, HalStepRefines, PTL
     DEF HalSafety, ImplementsApiSafely, Api!ApiSafety

----------------------------------------------------------------------------
(* ServiceStatus uses UbusHal *)

\* Each step of the status code is a step of the layer or leaves its state alone.
LEMMA StepUsesHal == [Next]_vars => [HalNext]_halVars
<1> SUFFICES ASSUME [Next]_vars PROVE [HalNext]_halVars
  OBVIOUS
<1>1. CASE UNCHANGED vars
  BY <1>1 DEF vars
<1>2. CASE ui_tick
  BY <1>2 DEF ui_tick
<1>3. ASSUME NEW s \in Service, sys_status_query_services(s) PROVE [HalNext]_halVars
  <2>1. CASE SkipService(s)
    BY <2>1 DEF SkipService
  <2>2. CASE QueryFailsAtOnce(s)
    BY <2>2 DEF QueryFailsAtOnce, HalNext, real_query_service_async
  <2>3. CASE SendQuery(s)
    BY <2>3 DEF SendQuery, HalNext, real_query_service_async
  <2>4. QED
    BY <1>3, <2>1, <2>2, <2>3 DEF sys_status_query_services
<1>4. ASSUME NEW s \in Controlled, NEW start \in BOOLEAN, sys_status_control_service(s, start)
      PROVE  [HalNext]_halVars
  <2>1. real_control_service_async(s, start)
    BY <1>4 DEF sys_status_control_service, ControlFailsAtOnce, SendControl,
                real_control_service_async
  <2>2. s \in Service
    OBVIOUS
  <2>3. QED
    BY <2>1, <2>2 DEF HalNext
<1>5. ASSUME NEW k \in Slot, RequestTimesOut(k) PROVE [HalNext]_halVars
  BY <1>5 DEF RequestTimesOut, HalNext
<1>6. ASSUME NEW k \in Slot, RequestSucceeds(k) PROVE [HalNext]_halVars
  BY <1>6 DEF RequestSucceeds, HalNext, Status
<1>7. ASSUME NEW k \in Slot, RequestFails(k) PROVE [HalNext]_halVars
  BY <1>7 DEF RequestFails, HalNext
<1>8. CASE Tick
  BY <1>8 DEF Tick, HalNext
<1>9. CASE Cleanup
  BY <1>9 DEF Cleanup, HalNext
<1>10. ASSUME NEW k \in Slot, RpcdServes(k) PROVE [HalNext]_halVars
  BY <1>10 DEF RpcdServes
<1>11. ASSUME NEW s \in Restless, UnitChanges(s) PROVE [HalNext]_halVars
  BY <1>11 DEF UnitChanges
<1>12. QED
  BY <1>1, <1>2, <1>3, <1>4, <1>5, <1>6, <1>7, <1>8, <1>9, <1>10, <1>11 DEF Next

\* So the invariants of the layer hold with the status code on it.  This is how the model
\* composes the two, not a fact about the code.
LEMMA ComposedHal == StatusSafety => HalSafety
<1>1. Init => HalInit
  BY DEF Init
<1>2. QED
  BY <1>1, StepUsesHal, PTL DEF StatusSafety, HalSafety

----------------------------------------------------------------------------
(* Types *)

LEMMA RecordTypes ==
  /\ \A r \in ServiceRecord, k \in 0 .. MAX_PENDING_REQUESTS : Asked(r, k) \in ServiceRecord
  /\ \A r \in ServiceRecord : QueryFailed(r) \in ServiceRecord
  /\ \A r \in ServiceRecord, up \in BOOLEAN : QueryFound(r, up) \in ServiceRecord
  /\ \A r \in ServiceRecord : Stale(r) \in ServiceRecord
  /\ \A r \in ServiceRecord, start \in BOOLEAN : ControlDone(r, start) \in ServiceRecord
<1>1. \A r \in ServiceRecord : Answered(r) \in ServiceRecord
  <2>1. 0 \in 0 .. MAX_PENDING_REQUESTS /\ 0 \in 0 .. SERVICE_REFRESH_INTERVAL
    OBVIOUS
  <2>2. QED
    BY <2>1 DEF ServiceRecord, Answered
<1>2. \A r \in ServiceRecord : Stale(r) \in ServiceRecord
  BY DEF ServiceRecord, Stale
<1>3. \A r \in ServiceRecord, k \in 0 .. MAX_PENDING_REQUESTS : Asked(r, k) \in ServiceRecord
  BY DEF ServiceRecord, Asked
<1>4. \A r \in ServiceRecord : [r EXCEPT !.status_valid = FALSE] \in ServiceRecord
  BY DEF ServiceRecord
<1>5. \A r \in ServiceRecord, up \in BOOLEAN :
        [r EXCEPT !.status_valid = TRUE, !.running = up] \in ServiceRecord
  BY DEF ServiceRecord
<1>6. \A r \in ServiceRecord, start \in BOOLEAN : [r EXCEPT !.running = start] \in ServiceRecord
  BY DEF ServiceRecord
<1>7. QED
  BY <1>1, <1>2, <1>3, <1>4, <1>5, <1>6 DEF QueryFailed, QueryFound, ControlDone

LEMMA AbortTypes ==
  ASSUME services \in [Service -> ServiceRecord], NEW s \in Service, NEW A, NEW k
  PROVE  AfterAborts(s, A) \in ServiceRecord /\ AfterTimeout(s, A, k) \in ServiceRecord
<1> DEFINE heard == {q \in A : Heeds(s, q)}
           controls == {q \in A : IsControlFor(q, s)}
           r == IF heard = {} THEN services[s] ELSE QueryFailed(services[s])
<1>1. r \in ServiceRecord
  BY RecordTypes
<1>2. AfterAborts(s, A) =
        IF \E c \in controls : \A q \in heard : q < c THEN Stale(r) ELSE r
  BY DEF AfterAborts
<1> HIDE DEF r, heard, controls
<1>3. AfterAborts(s, A) \in ServiceRecord
  BY <1>1, <1>2, RecordTypes
<1>4. AfterTimeout(s, A, k) \in ServiceRecord
  BY <1>3, RecordTypes DEF AfterTimeout
<1>5. QED
  BY <1>3, <1>4

LEMMA StatusStepTypes == StatusTypeOK /\ HalTypeOK' /\ [Next]_vars => StatusTypeOK'
<1> SUFFICES ASSUME StatusTypeOK, HalTypeOK', [Next]_vars PROVE StatusTypeOK'
  OBVIOUS
<1> DEFINE Rest == /\ services \in [Service -> ServiceRecord]
                   /\ cursor \in 0 .. service_count /\ overtaken \subseteq Service
                   /\ unit \in [Service -> BOOLEAN]
                   /\ reply \in [Slot -> {"none", "up", "down", "done"}]
<1>0. Rest
  BY DEF StatusTypeOK
<1> SUFFICES Rest'
  BY DEF StatusTypeOK
<1>1. CASE UNCHANGED vars
  BY <1>0, <1>1 DEF vars, statusVars, loopVars, rpcdVars
<1>2. CASE ui_tick
  BY <1>0, <1>2 DEF ui_tick, rpcdVars
<1>3. ASSUME NEW s \in Service, sys_status_query_services(s) PROVE Rest'
  <2>1. cursor' \in 0 .. service_count /\ overtaken' \subseteq Service
    <3>1. cursor' \in 0 .. service_count
      BY <1>0, <1>3 DEF sys_status_query_services, SkipService, QueryFailsAtOnce, SendQuery, Advance
    <3>2. overtaken' \subseteq Service
      BY <1>0, <1>3 DEF sys_status_query_services, SkipService, QueryFailsAtOnce, SendQuery, Overtakes
    <3>3. QED
      BY <3>1, <3>2
  <2>2. CASE SkipService(s)
    BY <1>0, <2>1, <2>2 DEF SkipService, rpcdVars
  <2>3. CASE QueryFailsAtOnce(s)
    <3>1. Asked(services[s], 0) \in ServiceRecord /\ QueryFailed(Asked(services[s], 0)) \in ServiceRecord
      <4>1. 0 \in 0 .. MAX_PENDING_REQUESTS
        OBVIOUS
      <4>2. QED
        BY <1>0, <4>1, RecordTypes
    <3> SUFFICES services' \in [Service -> ServiceRecord]
      BY <1>0, <2>1, <2>3 DEF QueryFailsAtOnce, rpcdVars
    <3>2. \A t \in Service : AfterAborts(t, GivenBack) \in ServiceRecord
      BY <1>0, AbortTypes
    <3>3. QED
      BY <2>3, <3>1, <3>2 DEF QueryFailsAtOnce
  <2>4. CASE SendQuery(s)
    <3>1. services' \in [Service -> ServiceRecord]
      BY <1>0, <2>4, RecordTypes DEF SendQuery, Slot
    <3>2. reply' \in [Slot -> {"none", "up", "down", "done"}] /\ unit' = unit
      BY <1>0, <2>4 DEF SendQuery
    <3>3. QED
      BY <1>0, <2>1, <3>1, <3>2
  <2>5. QED
    BY <1>3, <2>2, <2>3, <2>4 DEF sys_status_query_services
<1>4. ASSUME NEW s \in Controlled, NEW start \in BOOLEAN, sys_status_control_service(s, start)
      PROVE  Rest'
  <2>1. CASE ControlFailsAtOnce(s)
    <3>1. services' \in [Service -> ServiceRecord]
      BY <1>0, <2>1, RecordTypes, AbortTypes DEF ControlFailsAtOnce
    <3>2. QED
      BY <1>0, <2>1, <3>1 DEF ControlFailsAtOnce, loopVars, rpcdVars
  <2>2. CASE SendControl(s, start)
    <3>1. reply' \in [Slot -> {"none", "up", "down", "done"}]
      BY <1>0, <2>2 DEF SendControl
    <3>2. QED
      BY <1>0, <2>2, <3>1 DEF SendControl, statusVars, loopVars
  <2>3. QED
    BY <1>4, <2>1, <2>2 DEF sys_status_control_service
<1>5. ASSUME NEW k \in Slot, RequestTimesOut(k) PROVE Rest'
  <2>1. \A s \in Service : AfterTimeout(s, GivenBack \ {k}, k) \in ServiceRecord
    BY <1>0, AbortTypes
  <2>2. QED
    BY <1>0, <1>5, <2>1 DEF RequestTimesOut, loopVars, rpcdVars
<1>6. ASSUME NEW k \in Slot, RequestSucceeds(k) PROVE Rest'
  <2>1. g_pending[k] \in Request
    BY <1>6 DEF RequestSucceeds, query_complete_cb, StatusTypeOK, HalTypeOK
  <2>2. g_pending[k].start_op \in BOOLEAN /\ (reply[k] = "up") \in BOOLEAN
    BY <2>1 DEF Request
  <2>3. services' \in [Service -> ServiceRecord]
    BY <1>0, <1>6, <2>2, RecordTypes DEF RequestSucceeds
  <2>4. QED
    BY <1>0, <1>6, <2>3 DEF RequestSucceeds, loopVars, rpcdVars
<1>7. ASSUME NEW k \in Slot, RequestFails(k) PROVE Rest'
  BY <1>0, <1>7, AbortTypes DEF RequestFails, loopVars, rpcdVars
<1>8. CASE Tick
  <2>1. \A r \in ServiceRecord : Aged(r) \in ServiceRecord
    BY DEF ServiceRecord, Aged
  <2>2. QED
    BY <1>0, <1>8, <2>1 DEF Tick, loopVars, rpcdVars
<1>9. CASE Cleanup
  BY <1>0, <1>9 DEF Cleanup, rpcdVars, statusVars, loopVars
<1>10. ASSUME NEW k \in Slot, RpcdServes(k) PROVE Rest'
  <2>1. g_pending[k] \in Request
    BY <1>10 DEF RpcdServes, StatusTypeOK, HalTypeOK
  <2>2. g_pending[k].who \in Service /\ g_pending[k].start_op \in BOOLEAN
    BY <2>1 DEF Request
  <2>3. reply' \in [Slot -> {"none", "up", "down", "done"}] /\ unit' \in [Service -> BOOLEAN]
    BY <1>0, <1>10, <2>2 DEF RpcdServes
  <2>4. QED
    BY <1>0, <1>10, <2>3 DEF RpcdServes, statusVars, loopVars
<1>11. ASSUME NEW s \in Restless, UnitChanges(s) PROVE Rest'
  BY <1>0, <1>11 DEF UnitChanges, statusVars, loopVars
<1>12. QED
  BY <1>1, <1>2, <1>3, <1>4, <1>5, <1>6, <1>7, <1>8, <1>9, <1>10, <1>11 DEF Next

----------------------------------------------------------------------------
(* query_pending mirrors the slot pool *)

\* The record r shows exactly the queries F as in flight.
Shows(r, F) == F = IF r.query_pending THEN {r.request_id} ELSE {}

\* What each callback does to the two fields of the mirror.
LEMMA CallbackEffects ==
  ASSUME NEW r \in ServiceRecord
  PROVE  /\ ~QueryFailed(r).query_pending
         /\ \A up : ~QueryFound(r, up).query_pending
         /\ \A k : Asked(r, k).query_pending /\ Asked(r, k).request_id = k
         /\ \A F : Shows(r, F) => Shows(Stale(r), F) /\ Shows(Aged(r), F)
         /\ \A F, start : Shows(r, F) => Shows(ControlDone(r, start), F)
BY DEF ServiceRecord, QueryFailed, QueryFound, Answered, Asked, Stale, Aged, ControlDone, Shows

LEMMA AbortShows ==
  ASSUME services \in [Service -> ServiceRecord], NEW s \in Service, ~Shadowed(s),
         Shows(services[s], InFlight(s)), NEW A \in SUBSET Slot
  PROVE  Shows(AfterAborts(s, A), InFlight(s) \ A)
<1> DEFINE heard == {q \in A : Heeds(s, q)}
           controls == {q \in A : IsControlFor(q, s)}
           r == IF heard = {} THEN services[s] ELSE QueryFailed(services[s])
<1>1. r \in ServiceRecord
  BY RecordTypes
<1>2. heard = InFlight(s) \cap A
  BY DEF Heeds, InFlight, Shows
<1>3. Shows(r, InFlight(s) \ A)
  <2>1. CASE heard = {}
    BY <1>2, <2>1
  <2>2. CASE heard # {}
    <3>1. InFlight(s) \ A = {}
      BY <1>2, <2>2 DEF Shows
    <3>2. QED
      BY <2>2, <3>1, CallbackEffects DEF Shows
  <2>3. QED
    BY <2>1, <2>2
<1>4. AfterAborts(s, A) = r \/ AfterAborts(s, A) = Stale(r)
  BY DEF AfterAborts
<1> HIDE DEF r
<1>5. QED
  BY <1>1, <1>3, <1>4, CallbackEffects

LEMMA TimeoutShows ==
  ASSUME services \in [Service -> ServiceRecord], NEW s \in Service, ~Shadowed(s),
         Shows(services[s], InFlight(s)), NEW A \in SUBSET Slot, NEW k \in Slot
  PROVE  Shows(AfterTimeout(s, A, k), InFlight(s) \ (A \cup {k}))
<1>1. AfterAborts(s, A) \in ServiceRecord
  BY AbortTypes
<1>2. Shows(AfterAborts(s, A), InFlight(s) \ A)
  BY AbortShows
<1>3. CASE IsControlFor(k, s)
  <2>1. k \notin InFlight(s)
    BY <1>3 DEF InFlight, IsControlFor, IsQueryFor, ControlOf, QueryOf
  <2>2. InFlight(s) \ (A \cup {k}) = InFlight(s) \ A
    BY <2>1
  <2>3. QED
    BY <1>1, <1>2, <1>3, <2>2, CallbackEffects DEF AfterTimeout
<1>4. CASE ~IsControlFor(k, s) /\ Heeds(s, k)
  <2>1. InFlight(s) = {k}
    BY <1>4 DEF Heeds, InFlight, Shows
  <2>2. QED
    BY <1>1, <1>4, <2>1, CallbackEffects DEF AfterTimeout, Shows
<1>5. CASE ~IsControlFor(k, s) /\ ~Heeds(s, k)
  <2>1. k \notin InFlight(s)
    BY <1>5 DEF Heeds, InFlight, Shows
  <2>2. InFlight(s) \ (A \cup {k}) = InFlight(s) \ A
    BY <2>1
  <2>3. QED
    BY <1>2, <1>5, <2>2 DEF AfterTimeout
<1>6. QED
  BY <1>3, <1>4, <1>5

\* A step that only gives slots back takes those out of every set in flight.
OnlyReleases == \A k \in Slot : g_pending'[k] = g_pending[k] \/ g_pending'[k] = Free

LEMMA ReleaseInFlight ==
  ASSUME OnlyReleases, NEW s \in Service
  PROVE  InFlight(s)' = InFlight(s) \ GivenBack /\ GivenBack \in SUBSET Slot
<1>0. QueryOf(s) \in Request
  BY DEF QueryOf, Request
<1>1. QueryOf(s) # Free
  BY <1>0
<1>2. QED
  BY <1>1 DEF OnlyReleases, InFlight, IsQueryFor, GivenBack

LEMMA AnswerAtOnceReleases == ASSUME AnswerAtOnce PROVE OnlyReleases
BY DEF AnswerAtOnce, BackoffRefuses, ConnectFails, LookupFails, abort_all_pending, Release,
       requests, OnlyReleases

LEMMA CompleteReleases ==
  ASSUME NEW k \in Slot, NEW ret, query_complete_cb(k, ret) PROVE OnlyReleases /\ GivenBack = {k}
BY DEF query_complete_cb, Release, OnlyReleases, GivenBack

LEMMA TimeoutReleases ==
  ASSUME NEW k \in Slot, request_timeout_cb(k) PROVE OnlyReleases /\ k \in GivenBack
BY DEF request_timeout_cb, Release, OnlyReleases, GivenBack
\* The mirror, service by service, and what keeps it between the steps.
Mirror == \A s \in Service : ~Shadowed(s) => Shows(services[s], InFlight(s))

LEMMA MirrorIsProperty == PendingIffInFlight <=> (g_initialized => Mirror)
BY DEF PendingIffInFlight, Mirror, Shows

LEMMA MirrorFrame == Mirror /\ UNCHANGED <<services, g_pending>> => Mirror'
BY DEF Mirror, Shows, InFlight, IsQueryFor, Shadowed

LEMMA QueryLoopMirror ==
  ASSUME StatusTypeOK, Mirror, NEW s \in Service, sys_status_query_services(s)
  PROVE  Mirror'
<1>0. services \in [Service -> ServiceRecord]
  BY DEF StatusTypeOK
<1>1. CASE SkipService(s)
  BY <1>1, MirrorFrame DEF SkipService, halVars, requests
<1>2. CASE QueryFailsAtOnce(s)
  <2>1. OnlyReleases
    BY <1>2, AnswerAtOnceReleases DEF QueryFailsAtOnce
  <2> SUFFICES ASSUME NEW t \in Service, ~Shadowed(t)
               PROVE  Shows(services'[t], InFlight(t)')
    BY DEF Mirror, Shadowed, Shows
  <2>2. InFlight(t)' = InFlight(t) \ GivenBack /\ GivenBack \in SUBSET Slot
    BY <2>1, ReleaseInFlight
  <2>3. Shows(services[t], InFlight(t))
    BY DEF Mirror
  <2>4. CASE t # s
    <3>1. services'[t] = AfterAborts(t, GivenBack)
      BY <1>2, <2>4 DEF QueryFailsAtOnce
    <3>2. QED
      BY <1>0, <2>2, <2>3, <3>1, AbortShows
  <2>5. CASE t = s
    <3>1. services'[t] = QueryFailed(Asked(services[t], 0))
      BY <1>2, <2>5 DEF QueryFailsAtOnce
    <3>2. InFlight(t) = {}
      BY <1>2, <2>3, <2>5 DEF QueryFailsAtOnce, Due, Shows
    <3>3. Asked(services[t], 0) \in ServiceRecord
      <4>1. 0 \in 0 .. MAX_PENDING_REQUESTS
        OBVIOUS
      <4>2. QED
        BY <1>0, <4>1, RecordTypes
    <3>4. ~services'[t].query_pending
      BY <3>1, <3>3, CallbackEffects
    <3>5. QED
      BY <2>2, <3>2, <3>4 DEF Shows
  <2>6. QED
    BY <2>4, <2>5
<1>3. CASE SendQuery(s)
  <2>1. PICK k \in Slot : /\ SendRequest(QueryOf(s), k)
                          /\ services' = [services EXCEPT ![s] = Asked(@, k)]
    BY <1>3 DEF SendQuery
  <2>2. g_pending[k] = Free /\ g_pending' = [g_pending EXCEPT ![k] = QueryOf(s)]
    BY <2>1 DEF SendRequest, alloc_request, InUse
  <2>3. g_pending \in [Slot -> Request \cup {Free}]
    BY DEF StatusTypeOK, HalTypeOK
  <2> SUFFICES ASSUME NEW t \in Service, ~Shadowed(t)
               PROVE  Shows(services'[t], InFlight(t)')
    BY DEF Mirror, Shadowed, Shows
  <2>4. Shows(services[t], InFlight(t))
    BY DEF Mirror
  <2>5. CASE t # s
    <3>1. QueryOf(t) # QueryOf(s)
      BY <2>5 DEF QueryOf
    <3>2. QueryOf(t) \in Request
      BY DEF QueryOf, Request
    <3>3. QueryOf(t) # Free
      BY <3>2
    <3>4. InFlight(t)' = InFlight(t)
      BY <2>2, <2>3, <3>1, <3>3 DEF InFlight, IsQueryFor
    <3>5. services'[t] = services[t]
      BY <1>0, <2>1, <2>5
    <3>6. QED
      BY <2>4, <3>4, <3>5
  <2>6. CASE t = s
    <3>1. InFlight(t) = {}
      BY <1>3, <2>4, <2>6 DEF SendQuery, Due, Shows
    <3>2. InFlight(t)' = {k}
      BY <2>2, <2>3, <2>6, <3>1 DEF InFlight, IsQueryFor
    <3>3. services'[t] = Asked(services[t], k)
      BY <1>0, <2>1, <2>6
    <3>4. services'[t].query_pending /\ services'[t].request_id = k
      BY <1>0, <3>3, CallbackEffects
    <3>5. QED
      BY <3>2, <3>4 DEF Shows
  <2>7. QED
    BY <2>5, <2>6
<1>4. QED
  BY <1>1, <1>2, <1>3 DEF sys_status_query_services
LEMMA ControlMirror ==
  ASSUME StatusTypeOK, Mirror, NEW s \in Controlled, NEW start \in BOOLEAN,
         sys_status_control_service(s, start)
  PROVE  Mirror'
<1>0. services \in [Service -> ServiceRecord]
  BY DEF StatusTypeOK
<1> SUFFICES ASSUME NEW t \in Service, ~Shadowed(t)
             PROVE  Shows(services'[t], InFlight(t)')
  BY DEF Mirror, Shadowed, Shows
<1>1. Shows(services[t], InFlight(t))
  BY DEF Mirror
<1>2. CASE ControlFailsAtOnce(s)
  <2>1. OnlyReleases
    BY <1>2, AnswerAtOnceReleases DEF ControlFailsAtOnce
  <2>2. InFlight(t)' = InFlight(t) \ GivenBack /\ GivenBack \in SUBSET Slot
    BY <2>1, ReleaseInFlight
  <2>3. AfterAborts(t, GivenBack) \in ServiceRecord
    BY <1>0, AbortTypes
  <2>4. Shows(AfterAborts(t, GivenBack), InFlight(t) \ GivenBack)
    BY <1>0, <1>1, <2>2, AbortShows
  <2>5. Shows(Stale(AfterAborts(t, GivenBack)), InFlight(t) \ GivenBack)
    BY <2>3, <2>4, CallbackEffects
  <2>6. services'[t] \in {AfterAborts(t, GivenBack), Stale(AfterAborts(t, GivenBack))}
    BY <1>2 DEF ControlFailsAtOnce
  <2>7. QED
    BY <2>2, <2>4, <2>5, <2>6
<1>3. CASE SendControl(s, start)
  <2>1. PICK k \in Slot : SendRequest(ControlOf(s, start), k)
    BY <1>3 DEF SendControl
  <2>2. g_pending[k] = Free /\ g_pending' = [g_pending EXCEPT ![k] = ControlOf(s, start)]
    BY <2>1 DEF SendRequest, alloc_request, InUse
  <2>3. g_pending \in [Slot -> Request \cup {Free}]
    BY DEF StatusTypeOK, HalTypeOK
  <2>4. QueryOf(t) # ControlOf(s, start)
    BY DEF QueryOf, ControlOf
  <2>5. QueryOf(t) \in Request
    BY DEF QueryOf, Request
  <2>6. QueryOf(t) # Free
    BY <2>5
  <2>7. InFlight(t)' = InFlight(t)
    BY <2>2, <2>3, <2>4, <2>6 DEF InFlight, IsQueryFor
  <2>8. services' = services
    BY <1>3 DEF SendControl, statusVars
  <2>9. QED
    BY <1>1, <2>7, <2>8
<1>4. QED
  BY <1>2, <1>3 DEF sys_status_control_service

LEMMA AnswerMirror ==
  ASSUME StatusTypeOK, Mirror, NEW k \in Slot,
         RequestTimesOut(k) \/ RequestSucceeds(k) \/ RequestFails(k)
  PROVE  Mirror'
<1>0. services \in [Service -> ServiceRecord]
  BY DEF StatusTypeOK
<1> SUFFICES ASSUME NEW t \in Service, ~Shadowed(t)
             PROVE  Shows(services'[t], InFlight(t)')
  BY DEF Mirror, Shadowed, Shows
<1>1. Shows(services[t], InFlight(t))
  BY DEF Mirror
<1>2. CASE RequestTimesOut(k)
  <2>1. OnlyReleases /\ k \in GivenBack
    BY <1>2, TimeoutReleases DEF RequestTimesOut
  <2>2. InFlight(t)' = InFlight(t) \ GivenBack /\ GivenBack \in SUBSET Slot
    BY <2>1, ReleaseInFlight
  <2>3. (GivenBack \ {k}) \cup {k} = GivenBack
    BY <2>1
  <2>4. (GivenBack \ {k}) \in SUBSET Slot
    BY <2>2
  <2>5. services'[t] = AfterTimeout(t, GivenBack \ {k}, k)
    BY <1>2 DEF RequestTimesOut
  <2>6. Shows(AfterTimeout(t, GivenBack \ {k}, k), InFlight(t) \ ((GivenBack \ {k}) \cup {k}))
    BY <1>0, <1>1, <2>4, TimeoutShows
  <2>7. QED
    BY <2>2, <2>3, <2>5, <2>6
<1>3. ASSUME NEW ret, query_complete_cb(k, ret) PROVE InFlight(t)' = InFlight(t) \ {k}
  <2>1. OnlyReleases /\ GivenBack = {k}
    BY <1>3, CompleteReleases
  <2>2. QED
    BY <2>1, ReleaseInFlight
<1>4. CASE RequestFails(k)
  <2>1. InFlight(t)' = InFlight(t) \ {k}
    BY <1>3, <1>4 DEF RequestFails
  <2>2. services'[t] = AfterTimeout(t, {}, k)
    BY <1>4 DEF RequestFails
  <2>3. Shows(AfterTimeout(t, {}, k), InFlight(t) \ ({} \cup {k}))
    BY <1>0, <1>1, TimeoutShows
  <2>4. QED
    BY <2>1, <2>2, <2>3
<1>5. CASE RequestSucceeds(k)
  <2>1. InFlight(t)' = InFlight(t) \ {k}
    BY <1>3, <1>5 DEF RequestSucceeds
  <2>2. CASE IsControlFor(k, t)
    <3>1. k \notin InFlight(t)
      BY <2>2 DEF InFlight, IsControlFor, IsQueryFor, ControlOf, QueryOf
    <3>2. services'[t] = ControlDone(services[t], g_pending[k].start_op)
      BY <1>5, <2>2 DEF RequestSucceeds
    <3>3. InFlight(t)' = InFlight(t)
      BY <2>1, <3>1
    <3>4. QED
      BY <1>0, <1>1, <3>2, <3>3, CallbackEffects
  <2>3. CASE ~IsControlFor(k, t) /\ Heeds(t, k)
    <3>1. InFlight(t) = {k}
      BY <1>1, <2>3 DEF Heeds, InFlight, Shows
    <3>2. services'[t] = QueryFound(services[t], reply[k] = "up")
      BY <1>5, <2>3 DEF RequestSucceeds
    <3>3. InFlight(t)' = {}
      BY <2>1, <3>1
    <3>4. ~services'[t].query_pending
      BY <1>0, <3>2, CallbackEffects
    <3>5. QED
      BY <3>3, <3>4 DEF Shows
  <2>4. CASE ~IsControlFor(k, t) /\ ~Heeds(t, k)
    <3>1. k \notin InFlight(t)
      BY <1>1, <2>4 DEF Heeds, InFlight, Shows
    <3>2. services'[t] = services[t]
      BY <1>5, <2>4 DEF RequestSucceeds
    <3>3. InFlight(t)' = InFlight(t)
      BY <2>1, <3>1
    <3>4. QED
      BY <1>1, <3>2, <3>3
  <2>5. QED
    BY <2>2, <2>3, <2>4
<1>6. QED
  BY <1>2, <1>4, <1>5

\* Only real_cleanup changes g_initialized, and nothing sets it again.
LEMMA StepMirror ==
  ASSUME StatusTypeOK, PendingIffInFlight, [Next]_vars PROVE PendingIffInFlight'
<1>1. ASSUME g_initialized' PROVE g_initialized
  <2>1. [HalNext]_halVars
    BY StepUsesHal
  <2>2. CASE UNCHANGED halVars
    BY <1>1, <2>2 DEF halVars
  <2>3. CASE HalNext
    BY <1>1, <2>3 DEF HalNext, real_query_service_async, real_control_service_async, AnswerAtOnce,
       SendRequest, real_cleanup, request_timeout_cb, query_complete_cb, HalTick
  <2>4. QED
    BY <2>1, <2>2, <2>3
<1> SUFFICES ASSUME g_initialized', Mirror PROVE Mirror'
  BY <1>1, MirrorIsProperty DEF PendingIffInFlight, Mirror, Shows
<1>2. CASE UNCHANGED vars
  BY <1>2, MirrorFrame DEF vars, halVars, requests, statusVars
<1>3. CASE ui_tick
  BY <1>3, MirrorFrame DEF ui_tick, halVars, requests
<1>4. CASE Tick
  <2>1. services \in [Service -> ServiceRecord]
    BY DEF StatusTypeOK
  <2>2. UNCHANGED g_pending
    BY <1>4 DEF Tick, HalTick
  <2> SUFFICES ASSUME NEW t \in Service, ~Shadowed(t) PROVE Shows(services'[t], InFlight(t)')
    BY DEF Mirror, Shadowed, Shows
  <2>3. InFlight(t)' = InFlight(t)
    BY <2>2 DEF InFlight, IsQueryFor
  <2>4. services'[t] = Aged(services[t])
    BY <1>4 DEF Tick
  <2>5. QED
    BY <2>1, <2>3, <2>4, CallbackEffects DEF Mirror
<1>5. CASE Cleanup
  BY <1>5 DEF Cleanup, real_cleanup
<1>6. ASSUME NEW k \in Slot, RpcdServes(k) PROVE Mirror'
  BY <1>6, MirrorFrame DEF RpcdServes, halVars, requests, statusVars
<1>7. ASSUME NEW s \in Restless, UnitChanges(s) PROVE Mirror'
  BY <1>7, MirrorFrame DEF UnitChanges, halVars, requests, statusVars
<1>8. QED
  BY <1>2, <1>3, <1>4, <1>5, <1>6, <1>7, QueryLoopMirror, ControlMirror, AnswerMirror DEF Next
----------------------------------------------------------------------------
(* Theorems *)

LEMMA StatusInit == Init => StatusTypeOK /\ PendingIffInFlight
<1> SUFFICES ASSUME Init PROVE StatusTypeOK /\ PendingIffInFlight
  OBVIOUS
<1>1. HalTypeOK
  BY HalInitInv DEF Init, HalInv
<1>2. services \in [Service -> ServiceRecord]
  <2>1. 0 \in 0 .. MAX_PENDING_REQUESTS /\ SERVICE_REFRESH_INTERVAL \in 0 .. SERVICE_REFRESH_INTERVAL
    OBVIOUS
  <2>2. QED
    BY <2>1 DEF Init, ServiceRecord
<1>3. StatusTypeOK
  <2>1. reply \in [Slot -> {"none", "up", "down", "done"}]
    BY DEF Init
  <2>2. cursor \in 0 .. service_count /\ overtaken \subseteq Service
    BY DEF Init
  <2>3. unit \in [Service -> BOOLEAN]
    BY DEF Init
  <2>4. QED
    BY <1>1, <1>2, <2>1, <2>2, <2>3 DEF StatusTypeOK
<1>4. \A s \in Service : InFlight(s) = {}
  <2> TAKE s \in Service
  <2>1. QueryOf(s) \in Request
    BY DEF QueryOf, Request
  <2>2. QueryOf(s) # Free
    BY <2>1
  <2>3. QED
    BY <2>2 DEF Init, HalInit, InFlight, IsQueryFor
<1>5. \A s \in Service : ~services[s].query_pending
  BY DEF Init
<1>6. QED
  BY <1>3, <1>4, <1>5 DEF PendingIffInFlight

\* What ubus_hal.h promises, sys_status.c gets: with its queries and controls on
\* the layer each of them is answered exactly once, on the connection it was sent
\* on, and none after the cleanup.
THEOREM StatusKeepsPromise ==
  StatusSafety => /\ ImplementsApiSafely
                  /\ []ExactlyOneCallback
                  /\ []NoDanglingRequest
<1>1. StatusSafety => HalSafety
  BY ComposedHal
<1>2. QED
  BY <1>1, HalImplementsApi, CallbackOnce, RequestsHaveConnection, PTL

\* sys_status.c and ubus_hal_real.c keep every variable in its type, for every
\* number of services, slots, seconds and bits.
THEOREM StatusTypeCorrect == StatusSafety => []StatusTypeOK
<1>1. Init => StatusTypeOK
  BY StatusInit
<1>2. StatusTypeOK /\ HalTypeOK' /\ [Next]_vars => StatusTypeOK'
  BY StatusStepTypes
<1>3. StatusSafety => []HalTypeOK
  BY ComposedHal, HalTypeCorrect, PTL
<1>4. QED
  BY <1>1, <1>2, <1>3, PTL DEF StatusSafety

\* query_pending is set exactly while a query of the service is in flight, under
\* the id the service expects: the flag that suppresses further queries neither
\* sticks nor is lost, whatever times out, is aborted or finds no slot.
THEOREM PendingMirrorsPool == StatusSafety => []PendingIffInFlight
<1>1. Init => PendingIffInFlight
  BY StatusInit
<1>2. StatusTypeOK /\ PendingIffInFlight /\ [Next]_vars => PendingIffInFlight'
  BY StepMirror
<1>3. QED
  BY <1>1, <1>2, StatusTypeCorrect, PTL DEF StatusSafety
=============================================================================
