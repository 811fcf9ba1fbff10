--------------------------- MODULE ServiceStatus ---------------------------
(***************************************************************************)
(* What the daemon knows of the monitored services (the asynchronous half  *)
(* of src/src/sys_status.c) on top of UbusHal: the periodic query of every *)
(* service, the start/stop requests of the user, and the callbacks the ubus *)
(* layer makes for both.  rpcd and the services themselves are outside the  *)
(* daemon: rpcd looks at a service (or starts/stops it) at some moment      *)
(* between the request and its completion.                                  *)
(*                                                                          *)
(* The query loop of one UI tick takes one step per service, and nothing    *)
(* else runs between those steps (`cursor`).  A 32-bit request_id is only   *)
(* ever compared for equality with the id a pending query carries, so it is *)
(* kept as the slot of the query that carries it, 0 when none does.         *)
(***************************************************************************)
EXTENDS UbusHal

CONSTANTS
  service_count,            \* services in the configuration
  NameOf,                   \* index -> name, as MONITORED_SERVICES lists them
  SERVICE_REFRESH_INTERVAL, \* seconds a status is good for
  Controlled,               \* services the user starts and stops
  Restless                  \* services that start or stop by themselves

ASSUME StatusAssumption ==
  /\ service_count \in Nat /\ Service = 1 .. service_count
  /\ SERVICE_REFRESH_INTERVAL \in Nat \ {0}
  /\ Controlled \subseteq Service /\ Restless \subseteq Service

VARIABLES
  services,  \* index -> service_status_t; `age` is the time since last_update_ms,
             \* SERVICE_REFRESH_INTERVAL when it is 0 or that long ago
  cursor,    \* the service the query loop has come to, 0 outside the loop
  overtaken, \* services updated at a later time than the loop's now_ms
  unit,      \* index -> the service is really running
  reply      \* slot -> what rpcd found or did for the request, "none" before

loopVars   == <<cursor, overtaken>>
statusVars == <<services, loopVars>>
rpcdVars   == <<unit, reply>>
vars       == <<halVars, statusVars, rpcdVars>>

Idle == cursor = 0

\* service_query_cb stops at the first service of the name it is given, so the
\* answer to a query for a repeated name meets another service's request_id.
Shadowed(s) == \E t \in Service : t < s /\ NameOf[t] = NameOf[s]

----------------------------------------------------------------------------
(* The callbacks, as changes to the record of the service they are about *)

Asked(r, k) == [r EXCEPT !.query_pending = TRUE, !.request_id = k]

Answered(r) == [r EXCEPT !.query_pending = FALSE, !.request_id = 0, !.age = 0]

\* Defect: the flag is cleared in the branch of success only.
QueryFailed_StillPending(r) == [r EXCEPT !.age = 0, !.status_valid = FALSE]

QueryFailed(r) == [Answered(r) EXCEPT !.status_valid = FALSE]

QueryFound(r, up) == [Answered(r) EXCEPT !.status_valid = TRUE, !.running = up]

Stale(r) == [r EXCEPT !.age = SERVICE_REFRESH_INTERVAL]

Aged(r) == IF r.age < SERVICE_REFRESH_INTERVAL THEN [r EXCEPT !.age = @ + 1] ELSE r

ControlDone(r, start) == [Stale(r) EXCEPT !.running = start]

IsQueryFor(k, s)   == g_pending[k] = QueryOf(s)
IsControlFor(k, s) == g_pending[k] \in {ControlOf(s, TRUE), ControlOf(s, FALSE)}

InFlight(s) == {k \in Slot : IsQueryFor(k, s)}

\* service_query_cb for the request in slot k takes effect on service s.
Heeds(s, k) == IsQueryFor(k, s) /\ ~Shadowed(s) /\ services[s].request_id = k

\* Service s after the failure callbacks of the slots in A, in slot order.
AfterAborts(s, A) ==
  LET heard    == {k \in A : Heeds(s, k)}
      controls == {k \in A : IsControlFor(k, s)}
      r        == IF heard = {} THEN services[s] ELSE QueryFailed(services[s])
  IN IF \E c \in controls : \A q \in heard : q < c THEN Stale(r) ELSE r

\* Service s after the aborts of A and then the failure of slot k.
AfterTimeout(s, A, k) ==
  LET r == AfterAborts(s, A)
  IN IF IsControlFor(k, s) THEN Stale(r)
     ELSE IF Heeds(s, k) THEN QueryFailed(r)
     ELSE r

\* The slots this step gives back: their callbacks ran in it.
GivenBack == {k \in Slot : g_pending[k] # Free /\ g_pending'[k] = Free}

----------------------------------------------------------------------------
(* The UI thread's calls *)

\* A UI tick with the screen on starts the loop of sys_status_query_services, which takes
\* the time once, before its first service.
ui_tick ==
  /\ Idle /\ g_initialized /\ service_count > 0
  /\ cursor' = 1 /\ overtaken' = {}
  /\ UNCHANGED <<halVars, services, rpcdVars>>

Advance == cursor' = IF cursor = service_count THEN 0 ELSE cursor + 1

\* Defect: no check for a query that is pending.
Due_IgnoresPending(s) == services[s].age = SERVICE_REFRESH_INTERVAL

\* Defect: a service that has been queried once is not queried again.
Due_UntilValid(s) == ~services[s].query_pending /\ ~services[s].status_valid

\* The age is an unsigned difference: an update later than the loop's now_ms counts as old.
Due(s) ==
  /\ ~services[s].query_pending
  /\ services[s].age = SERVICE_REFRESH_INTERVAL \/ s \in overtaken

\* The clock may go on between the callbacks of an abort, which come in slot order: those
\* from slot `first` on take a later time than the loop did, and so do all that follow.
Overtakes ==
  \E first \in IF overtaken = {} THEN 1 .. MAX_PENDING_REQUESTS + 1 ELSE {1} :
    overtaken' = overtaken \cup {s \in Service : \E k \in GivenBack : k >= first /\ Heeds(s, k)}

SkipService(s) ==
  /\ cursor = s /\ ~Due(s)
  /\ Advance
  /\ UNCHANGED <<halVars, services, overtaken, rpcdVars>>

\* The query is answered before the call returns, after the callbacks of the
\* requests that a failed lookup may have aborted.
QueryFailsAtOnce(s) ==
  /\ cursor = s /\ Due(s)
  /\ AnswerAtOnce
  /\ services' = [t \in Service |->
       IF t # s THEN AfterAborts(t, GivenBack)
       ELSE IF Shadowed(s) THEN Asked(services[s], 0)
       ELSE QueryFailed(Asked(services[s], 0))]
  /\ Advance /\ Overtakes
  /\ UNCHANGED rpcdVars

SendQuery(s) ==
  /\ cursor = s /\ Due(s)
  /\ \E k \in Slot :
       /\ SendRequest(QueryOf(s), k)
       /\ services' = [services EXCEPT ![s] = Asked(@, k)]
       /\ reply' = [reply EXCEPT ![k] = "none"]
  /\ Advance
  /\ UNCHANGED <<overtaken, unit>>

sys_status_query_services(s) == SkipService(s) \/ QueryFailsAtOnce(s) \/ SendQuery(s)

\* The user confirmed a start or stop on the services page.
ControlFailsAtOnce(s) ==
  /\ Idle
  /\ AnswerAtOnce
  /\ services' = [t \in Service |->
       LET r == AfterAborts(t, GivenBack) IN IF t = s THEN Stale(r) ELSE r]
  /\ UNCHANGED <<loopVars, rpcdVars>>

SendControl(s, start) ==
  /\ Idle
  /\ \E k \in Slot :
       /\ SendRequest(ControlOf(s, start), k)
       /\ reply' = [reply EXCEPT ![k] = "none"]
  /\ UNCHANGED <<statusVars, unit>>

sys_status_control_service(s, start) == ControlFailsAtOnce(s) \/ SendControl(s, start)

----------------------------------------------------------------------------
(* What uloop brings *)

RequestTimesOut(k) ==
  /\ Idle
  /\ request_timeout_cb(k)
  /\ services' = [s \in Service |-> AfterTimeout(s, GivenBack \ {k}, k)]
  /\ UNCHANGED <<loopVars, rpcdVars>>

\* Status OK: service_query_cb or service_control_cb sees rpcd's reply.
RequestSucceeds(k) ==
  /\ Idle
  /\ reply[k] # "none"
  /\ query_complete_cb(k, "OK")
  /\ services' = [s \in Service |->
       IF IsControlFor(k, s) THEN ControlDone(services[s], g_pending[k].start_op)
       ELSE IF Heeds(s, k) THEN QueryFound(services[s], reply[k] = "up")
       ELSE services[s]]
  /\ UNCHANGED <<loopVars, rpcdVars>>

RequestFails(k) ==
  /\ Idle
  /\ \E ret \in Status \ {"OK"} : query_complete_cb(k, ret)
  /\ services' = [s \in Service |-> AfterTimeout(s, {}, k)]
  /\ UNCHANGED <<loopVars, rpcdVars>>

Tick ==
  /\ Idle
  /\ HalTick
  /\ services' = [s \in Service |-> Aged(services[s])]
  /\ UNCHANGED <<loopVars, rpcdVars>>

Cleanup == Idle /\ real_cleanup /\ UNCHANGED <<statusVars, rpcdVars>>

----------------------------------------------------------------------------
(* Outside the daemon *)

\* rpcd deals with the request in slot k: "rc list" looks at the service,
\* "rc init" starts or stops it.
RpcdServes(k) ==
  /\ g_pending[k] # Free /\ reply[k] = "none"
  /\ LET r == g_pending[k]
     IN IF r.type = "query"
        THEN /\ reply' = [reply EXCEPT ![k] = IF unit[r.who] THEN "up" ELSE "down"]
             /\ UNCHANGED unit
        ELSE /\ reply' = [reply EXCEPT ![k] = "done"]
             /\ unit' = [unit EXCEPT ![r.who] = r.start_op]
  /\ UNCHANGED <<halVars, statusVars>>

\* A service crashes, or someone else starts or stops it.
UnitChanges(s) ==
  /\ unit' = [unit EXCEPT ![s] = ~@]
  /\ UNCHANGED <<halVars, statusVars, reply>>

----------------------------------------------------------------------------
\* The list sys_status_update_local makes on the first tick.
Init ==
  /\ HalInit
  /\ services = [s \in Service |->
       [query_pending |-> FALSE, request_id |-> 0, status_valid |-> FALSE,
        running |-> FALSE, age |-> SERVICE_REFRESH_INTERVAL]]
  /\ cursor = 0 /\ overtaken = {}
  /\ unit \in [Service -> BOOLEAN]
  /\ reply = [k \in Slot |-> "none"]

Next ==
  \/ ui_tick
  \/ \E s \in Service : sys_status_query_services(s)
  \/ \E s \in Controlled, start \in BOOLEAN : sys_status_control_service(s, start)
  \/ \E k \in Slot : RequestTimesOut(k)
  \/ \E k \in Slot : RequestSucceeds(k)
  \/ \E k \in Slot : RequestFails(k)
  \/ Tick
  \/ Cleanup
  \/ \E k \in Slot : RpcdServes(k)
  \/ \E s \in Restless : UnitChanges(s)

StatusSafety == Init /\ [][Next]_vars

\* Time passes and uloop runs every timer that is due, however often the query
\* loop (which never blocks) keeps it busy in between: hence SF.
UloopFairness ==
  /\ SF_vars(Tick) /\ WF_vars(ui_tick)
  /\ \A s \in Service : WF_vars(sys_status_query_services(s))
  /\ \A k \in Slot : SF_vars(RequestTimesOut(k))

StatusSpec == StatusSafety /\ UloopFairness

\* ubusd and rpcd are not out of order for ever: asked again and again, they
\* take a query, look at the service and answer, in time, again and again.
BusFairness(s) ==
  /\ SF_vars(SendQuery(s))
  /\ SF_vars(\E k \in Slot : IsQueryFor(k, s) /\ RpcdServes(k))
  /\ SF_vars(\E k \in Slot : IsQueryFor(k, s) /\ RequestSucceeds(k))

----------------------------------------------------------------------------
(* Properties *)

ServiceRecord ==
  [query_pending : BOOLEAN, request_id : 0 .. MAX_PENDING_REQUESTS,
   status_valid : BOOLEAN, running : BOOLEAN, age : 0 .. SERVICE_REFRESH_INTERVAL]

\* Types of all variables.
StatusTypeOK ==
  /\ HalTypeOK
  /\ services \in [Service -> ServiceRecord]
  /\ cursor \in 0 .. service_count /\ overtaken \subseteq Service
  /\ unit \in [Service -> BOOLEAN]
  /\ reply \in [Slot -> {"none", "up", "down", "done"}]

\* query_pending blocks further queries of a service, so it must mirror the slot
\* pool whatever aborts, timeouts and full pools did: set exactly while one
\* query of the service is in flight, under the id the service expects.  (A
\* service whose name an earlier one has does not get its answers.)
PendingIffInFlight ==
  g_initialized =>
    \A s \in Service : ~Shadowed(s) =>
      InFlight(s) = IF services[s].query_pending THEN {services[s].request_id} ELSE {}

\* A query_pending flag never sticks, with rpcd dead or alive.
QueriesEnd ==
  \A s \in Service : (~Shadowed(s) /\ services[s].query_pending) ~>
                       (~services[s].query_pending \/ ~g_initialized)

\* sys_status.c, service_query_cb: the request id is checked "to avoid stale
\* response overwriting newer state".  When the status of a service is known,
\* right and its controls are done, the answer to a query does not make it wrong.
\* It can: a control that completes while a query is in flight stores the newer
\* state and leaves that query's id valid.
StaleResponseIgnored ==
  [][\A s \in Service :
       /\ \E k \in GivenBack : IsQueryFor(k, s)
       /\ services[s].status_valid /\ \A k \in Slot : ~IsControlFor(k, s)
       /\ services[s].running = unit[s]
       /\ unit'[s] = unit[s]
       => services'[s].running = unit[s]]_vars

\* From some moment on the user starts and stops nothing.
UserRests ==
  <>[][\A s \in Controlled, start \in BOOLEAN : ~sys_status_control_service(s, start)]_vars

\* docs/adr0006/architecture.md, "eventual consistency": once a service stays
\* as it is and the user rests, the status shown becomes right and stays so, and
\* is confirmed again and again, if only the bus and rpcd recover.
EventualConsistency ==
  \A s \in Service, up \in BOOLEAN :
    BusFairness(s) /\ UserRests /\ <>[](g_initialized /\ unit[s] = up) =>
      <>[](services[s].running = up) /\ []<>services[s].status_valid
=============================================================================
