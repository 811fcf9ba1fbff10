--------------------------- MODULE ThreadedStatus ---------------------------
(***************************************************************************)
(* How the threaded daemon (ADR 0005) learns the state of the services: the *)
(* UI thread asks (sys_status.c) through a queue of tasks, the ubus thread  *)
(* (ubus_thread.c) takes them, calls rc over ubus (ubus_hal_real.c), which  *)
(* may block, and answers through a queue of results.  Both queues are ring *)
(* buffers (BoundedQueue): task_queue.c merges a task into one of the same  *)
(* service, result_queue.c refuses what does not fit.  The screen's ticks   *)
(* are ThreadedUi's subject: a tick is here one visit of the UI thread.     *)
(*                                                                          *)
(* The services page of this version sends no start or stop, so every task  *)
(* is a query.  Time counts in units of the 2 s a task may wait.            *)
(***************************************************************************)
EXTENDS Integers, Sequences, FiniteSetsExt

CONSTANTS
  service_count,     \* monitored services
  TASK_CAPACITY, RESULT_CAPACITY,   \* main.c: 16 and 16
  SERVICE_QUERY_TIMEOUT,            \* sys_status.h: 5 s
  IDS,               \* bound: request numbers in use at one time
  INT_BITS,          \* width of C's int
  BACKOFF_MAX        \* longest delay between attempts to connect

ASSUME ThreadedStatusAssumption ==
  /\ service_count \in 1 .. 8
  /\ TASK_CAPACITY \in Nat \ {0} /\ RESULT_CAPACITY \in Nat \ {0}
  /\ SERVICE_QUERY_TIMEOUT \in Nat
  /\ IDS \in Nat /\ IDS > 2 * service_count + 1 + RESULT_CAPACITY
  /\ INT_BITS \in Nat \ {0} /\ BACKOFF_MAX \in Nat \ {0}

Svc == 1 .. service_count
Id == 1 .. IDS

Task == [svc : Svc, id : Id]
NoTask == [svc |-> 0, id |-> 0]
Result == [id : Id, success : BOOLEAN]
NoResult == [id |-> 0, success |-> FALSE]

\* The answer to a task that is not carried out.
Failed(t) == [id |-> t.id, success |-> FALSE]

VARIABLES
  tasks, taskPolicy, taskMerging, pushedTask,
  results, resultPolicy, resultMerging, pushedResult,
  \* UI thread
  service,           \* [pending, id, age, valid] of each service
  visiting,          \* the service request_services has come to, 0 outside it
  \* ubus thread
  wpc, task, result,
  running,           \* the flag that main clears
  ubus,              \* [at, failures, since]: how far the connection is
  \* surroundings
  up,                \* the system has been up for longer than 2 s
  stage              \* main: "up", then its shutdown

taskVars == <<tasks, taskPolicy, taskMerging>>
resultVars == <<results, resultPolicy, resultMerging>>
uiVars == <<service, visiting>>
workerVars == <<wpc, task, result, ubus>>
mainVars == <<running, stage>>
vars == <<taskVars, pushedTask, resultVars, pushedResult, uiVars, workerVars, mainVars, up>>

NotPushed == [ret |-> "OK", out |-> NoTask]
\* A number is compared only while the service waits: it is kept no longer.
NotAsked == [pending |-> FALSE, id |-> 0, age |-> 0, valid |-> FALSE]
NoAnswer == [ret |-> "OK", out |-> NoResult]
NotTaken == [ret |-> "ERR", out |-> NoTask]

-----------------------------------------------------------------------------
(* The two queues *)

\* task_queue_merge_same_service_action: the waiting task takes over the number.
MergedTask == [p \in Task \X Task |-> IF p[1].svc = p[2].svc THEN p[2] ELSE NoTask]
MergedResult == [p \in Result \X Result |-> NoResult]

PushTasks == INSTANCE BoundedQueue
  WITH Item <- Task, None <- NoTask, CAPACITY <- TASK_CAPACITY, Merged <- MergedTask,
       Matches <- {}, items <- tasks, policy <- taskPolicy, merging <- taskMerging,
       last <- pushedTask
TakeTasks == INSTANCE BoundedQueue
  WITH Item <- Task, None <- NoTask, CAPACITY <- TASK_CAPACITY, Merged <- MergedTask,
       Matches <- {}, items <- tasks, policy <- taskPolicy, merging <- taskMerging,
       last <- task
PushResults == INSTANCE BoundedQueue
  WITH Item <- Result, None <- NoResult, CAPACITY <- RESULT_CAPACITY, Merged <- MergedResult,
       Matches <- {}, items <- results, policy <- resultPolicy, merging <- resultMerging,
       last <- pushedResult

-----------------------------------------------------------------------------
(* ubus_hal_real.c: the connection, as the outcomes a call can have *)

\* 1 << n in an int, capped; the sign bit passes under the cap.
DelayOfShift(n) == IF n = INT_BITS - 1 THEN -(2 ^ n) ELSE Min({2 ^ n, BACKOFF_MAX})

\* A shift by the width or more is undefined: whatever a masked count gives.
get_backoff_delay(failures) ==
  IF failures = 0 THEN {0}
  ELSE IF failures <= INT_BITS THEN {DelayOfShift(failures - 1)}
  ELSE {DelayOfShift(n) : n \in 0 .. INT_BITS - 1}

\* Beyond INT_BITS the number of failures no longer matters.
Tries(u) ==
  {[at |-> "context", failures |-> 0, since |-> 0],
   [at |-> "none", since |-> 0,
    failures |-> IF u.failures <= INT_BITS THEN u.failures + 1 ELSE u.failures]}

\* ensure_context: connected already, still backing off, or one attempt.
ensure_context(u) ==
  IF u.at # "none" THEN {u}
  ELSE UNION {IF u.since < d THEN {u} ELSE Tries(u) : d \in get_backoff_delay(u.failures)}

reset_connection(u) == [u EXCEPT !.at = "none"]

\* ensure_rc_id: a failed look-up drops the connection, without counting a failure.
ensure_rc_id(u) ==
  UNION {IF v.at = "context" THEN {[v EXCEPT !.at = "rc"], reset_connection(v)} ELSE {v} :
         v \in ensure_context(u)}

\* One ubus_invoke: an answer, an error of rc, or an error of the connection.
Outcomes == {"answer", "error", "broken"}
Attempts(u) ==
  {[conn |-> v, outcome |-> "unsent"] : v \in {w \in ensure_rc_id(u) : w.at # "rc"}}
    \cup {[conn |-> v, outcome |-> o] : v \in {w \in ensure_rc_id(u) : w.at = "rc"}, o \in Outcomes}

\* query_service: an error of the connection resets it and is followed by one more
\* attempt, after whose error the connection stays.
Invocations(u) ==
  LET first == Attempts(u) IN
    {a \in first : a.outcome # "broken"}
      \cup UNION {Attempts(reset_connection(a.conn)) : a \in {b \in first : b.outcome = "broken"}}

-----------------------------------------------------------------------------
task_queue_init ==
  tasks = <<>> /\ taskPolicy = "COALESCE" /\ taskMerging = TRUE /\ pushedTask = NotPushed

result_queue_init ==
  /\ results = <<>> /\ resultPolicy = "REJECT_NEW" /\ resultMerging = FALSE
  /\ pushedResult = NoAnswer

\* Without a connection, too, the daemon starts.
real_init == ubus \in ensure_context([at |-> "none", failures |-> 0, since |-> 0])

Init ==
  /\ task_queue_init /\ result_queue_init /\ real_init
  /\ service = [s \in Svc |-> NotAsked]
  /\ visiting = 0
  /\ wpc = "pop" /\ task = NotTaken /\ result = NoResult
  /\ running = TRUE /\ stage = "up"
  /\ up \in BOOLEAN

(* The UI thread *)

\* Defect: a tick takes one result at most.
Taken_One == SubSeq(results, 1, Min({1, Len(results)}))

\* What sys_status_process_results takes from the queue.
Taken == results

Answers(s) == {i \in 1 .. Len(Taken) : Taken[i].id = service[s].id}

\* What the service shows after them: only the answer to its last query counts, and
\* only while it waits for it.
Accepted(s) ==
  IF ~service[s].pending \/ Answers(s) = {} THEN service[s]
  ELSE [NotAsked EXCEPT !.valid = Taken[Min(Answers(s))].success]

\* sys_status_process_results, on every tick; when nothing is animated
\* sys_status_request_services follows.
Tick(idle) ==
  /\ stage = "up" /\ visiting = 0
  /\ results' = SubSeq(results, Len(Taken) + 1, Len(results)) /\ pushedResult' = NoAnswer
  /\ service' = [s \in Svc |-> Accepted(s)]
  /\ visiting' = IF idle THEN 1 ELSE 0
  /\ UNCHANGED <<taskVars, pushedTask, resultPolicy, resultMerging, workerVars, mainVars, up>>

Following(s) == IF s = service_count THEN 0 ELSE s + 1
TimedOut(s) == service[s].pending /\ service[s].age > SERVICE_QUERY_TIMEOUT

\* Still waiting for the last query.
Skip ==
  /\ visiting # 0 /\ visiting' = Following(visiting)
  /\ service[visiting].pending /\ ~TimedOut(visiting)
  /\ UNCHANGED <<taskVars, pushedTask, resultVars, pushedResult, service, workerVars, mainVars, up>>

\* The numbers of 32 bits are still in use where something carries them.
InUse ==
  {tasks[i].id : i \in 1 .. Len(tasks)} \cup {results[i].id : i \in 1 .. Len(results)}
    \cup {task.out.id, result.id} \cup {service[s].id : s \in Svc}
next_request_id == Min(Id \ InUse)

\* Defect: a service that has waited long enough stays as it is when its new task merges.
Asked_Keeping(s, ret) ==
  IF ret = "OK"
  THEN [pending |-> TRUE, id |-> next_request_id, age |-> 0,
        valid |-> service[s].valid /\ ~TimedOut(s)]
  ELSE service[s]

\* Only a task that was entered counts as asked, not one that merged: what
\* task_queue_push returned must be 0.
Asked(s, ret) ==
  [pending |-> ret = "OK", id |-> IF ret = "OK" THEN next_request_id ELSE 0, age |-> 0,
   valid |-> service[s].valid /\ ~TimedOut(s)]

\* A new query, also for one that has waited too long.
Ask ==
  /\ visiting # 0 /\ visiting' = Following(visiting)
  /\ service[visiting].pending => TimedOut(visiting)
  /\ PushTasks!Push([svc |-> visiting, id |-> next_request_id])
  /\ service' = [service EXCEPT ![visiting] = Asked(visiting, pushedTask'.ret)]
  /\ UNCHANGED <<resultVars, pushedResult, workerVars, mainVars, up>>

-----------------------------------------------------------------------------
(* The ubus thread *)

WorkerKeeps ==
  UNCHANGED <<taskPolicy, taskMerging, resultPolicy, resultMerging, uiVars, mainVars, up>>

\* Defect: the thread ends without looking at what is left in the queue.
LeaveLoop_AtOnce == IF running THEN "pop" ELSE "done"

\* After poll, at most 100 ms later, woken or not; past the loop what is left is
\* cancelled.
LeaveLoop == IF running THEN "pop" ELSE "cancel"

PollReturns ==
  /\ wpc = "poll" /\ wpc' = LeaveLoop
  /\ UNCHANGED <<tasks, pushedTask, results, pushedResult, task, result, ubus>> /\ WorkerKeeps

\* task_queue_try_pop in the loop.
TakeTask ==
  /\ wpc = "pop"
  /\ TakeTasks!Pop
  /\ wpc' = IF task'.ret = "OK" THEN "have" ELSE "poll"
  /\ pushedTask' = NotPushed
  /\ UNCHANGED <<results, pushedResult, result, ubus>> /\ WorkerKeeps

\* And after it: every task left is answered with -ECANCELED.
CancelTask ==
  /\ wpc = "cancel"
  /\ TakeTasks!Pop
  /\ IF task'.ret = "OK"
     THEN wpc' = "push cancelled" /\ result' = Failed(task'.out)
     ELSE wpc' = "done" /\ UNCHANGED result
  /\ pushedTask' = NotPushed
  /\ UNCHANGED <<results, pushedResult, ubus>> /\ WorkerKeeps

\* task_queue_is_expired measures from enqueue_time_ms, which nobody sets: from the
\* start of the system.
is_expired == up

\* Defect: an expired task is dropped without an answer.
Expire_Silently ==
  /\ wpc = "have" /\ is_expired
  /\ wpc' = "pop" /\ task' = NotTaken
  /\ UNCHANGED <<tasks, pushedTask, results, pushedResult, result, ubus>> /\ WorkerKeeps

Expire ==
  /\ wpc = "have" /\ is_expired
  /\ wpc' = "push" /\ result' = Failed(task.out)
  /\ UNCHANGED <<tasks, pushedTask, results, pushedResult, task, ubus>> /\ WorkerKeeps

BeginCall ==
  /\ wpc = "have" /\ ~is_expired
  /\ wpc' = "invoke"
  /\ UNCHANGED <<tasks, pushedTask, results, pushedResult, task, result, ubus>> /\ WorkerKeeps

\* The call returns: at once, after time-outs of 2 s, or after those of a look-up.
real_invoke ==
  /\ wpc = "invoke" /\ wpc' = "push"
  /\ \E a \in Invocations(ubus) :
       /\ ubus' = a.conn
       /\ result' = [id |-> task.out.id, success |-> a.outcome = "answer"]
  /\ UNCHANGED <<tasks, pushedTask, results, pushedResult, task>> /\ WorkerKeeps

\* result_queue_push: nobody marks requests as abandoned, so what does not fit is
\* dropped.
PushResult ==
  /\ wpc \in {"push", "push cancelled"}
  /\ PushResults!Push(result)
  /\ wpc' = IF wpc = "push" THEN "pop" ELSE "cancel"
  /\ result' = NoResult /\ task' = NotTaken
  /\ UNCHANGED <<tasks, pushedTask, ubus>> /\ WorkerKeeps

-----------------------------------------------------------------------------
(* main stops the UI thread, then the ubus thread, and waits for each; time goes on *)

StopUi ==
  /\ stage = "up" /\ visiting = 0 /\ stage' = "ui stopped"
  /\ UNCHANGED <<taskVars, pushedTask, resultVars, pushedResult, uiVars, workerVars, running, up>>

ubus_thread_stop ==
  /\ stage = "ui stopped" /\ stage' = "joining" /\ running' = FALSE
  /\ UNCHANGED <<taskVars, pushedTask, resultVars, pushedResult, uiVars, workerVars, up>>

Join ==
  /\ stage = "joining" /\ wpc = "done" /\ stage' = "stopped"
  /\ UNCHANGED <<taskVars, pushedTask, resultVars, pushedResult, uiVars, workerVars, running, up>>

\* Ages are counted as far as the code tells them apart.
Older(n, limit) == IF n < limit THEN n + 1 ELSE n

Elapse ==
  /\ stage = "up"
  /\ service' = [s \in Svc |-> IF service[s].pending
                               THEN [service[s] EXCEPT !.age = Older(@, SERVICE_QUERY_TIMEOUT + 1)]
                               ELSE service[s]]
  /\ ubus' = IF ubus.at = "none" /\ ubus.failures > 0
             THEN [ubus EXCEPT !.since = Older(@, BACKOFF_MAX)] ELSE ubus
  /\ up' = TRUE
  /\ UNCHANGED <<taskVars, pushedTask, resultVars, pushedResult, visiting, wpc, task, result, mainVars>>

UiSteps == (\E idle \in BOOLEAN : Tick(idle)) \/ Skip \/ Ask
WorkerSteps == PollReturns \/ TakeTask \/ CancelTask \/ Expire \/ BeginCall \/ real_invoke \/ PushResult
MainSteps == StopUi \/ ubus_thread_stop \/ Join

Next ==
  \/ UiSteps \/ WorkerSteps \/ MainSteps \/ Elapse
  \/ stage = "stopped" /\ UNCHANGED vars

\* The threads run and every call on ubus comes back.  The screen stays on: a tick
\* comes at least every second (TicksKeepComing of ThreadedUi), and one that finds
\* nothing animated follows.  Nothing says that the daemon is stopped.
Fairness ==
  /\ WF_vars(Tick(TRUE)) /\ WF_vars(Skip \/ Ask)
  /\ WF_vars(WorkerSteps)
  /\ WF_vars(ubus_thread_stop \/ Join)

Spec == Init /\ [][Next]_vars
FairSpec == Spec /\ Fairness

-----------------------------------------------------------------------------
(* Properties *)

\* How often a number is on its way: as a task, in the ubus thread's hand or as a result.
Copies(id) ==
  Cardinality({i \in 1 .. Len(tasks) : tasks[i].id = id})
    + (IF task.out.id = id THEN 1 ELSE 0)
    + Cardinality({i \in 1 .. Len(results) : results[i].id = id})

\* A service that waits has its query or its answer on the way, once: what has been
\* given up, merged or overtaken can neither be lost while somebody waits for it nor
\* be taken for the answer to another query (sys_status_request_services).
PendingIsInFlight ==
  \A s \in Svc : service[s].pending => Copies(service[s].id) = 1

\* No answer is dropped: between two ticks that empty the queue of results there are at
\* most two of each service and one more that the ubus thread held.
NoResultDropped ==
  2 * service_count + 1 <= RESULT_CAPACITY => pushedResult.ret # "DROPPED"

\* A query does not hang: the service gets its answer (or asks again under another
\* number, or main stops the daemon).  The threads alone see to it, before five seconds
\* have passed: that they do pass is no part of Fairness.
QueriesEnd ==
  \A s \in Svc :
    \/ []<>(~service[s].pending \/ stage # "up")
    \/ []<><<service'[s].id # service[s].id>>_vars

\* Once main has stopped the UI thread it comes to its end, and no task is left without
\* its answer (the loop after the loop of ubus_thread_main).
StopCompletes == (stage = "ui stopped") ~> (stage = "stopped" /\ tasks = <<>>)
=============================================================================
