---------------------------- MODULE JobExecution ----------------------------
(***************************************************************************)
(* The life of a what-if job in the production composition: API processes  *)
(* create a job in the redis store and dispatch it as a Celery task, worker*)
(* processes execute the task (_run_job), and operators record a decision  *)
(* about the finished job through the API.  All of them are clients of     *)
(* RedisJobStore, whose calls interleave command by command.               *)
(*                                                                         *)
(* A handler of an API process is an async function without await, so one  *)
(* process serves one request at a time; a Celery prefork worker process   *)
(* executes one task at a time.                                            *)
(***************************************************************************)
EXTENDS RedisJobStore

CONSTANTS
    Apis,             \* API processes
    Workers,          \* Celery worker processes
    MaxDeaths,        \* bound: processes that die
    MaxFaults,        \* bound: calls to redis or the broker that raise
    MaxRedeliveries   \* bound: messages delivered again while being executed

ASSUME ProcessAssumption ==
    /\ Clients = Apis \cup Workers
    /\ Apis \cap Workers = {}
    /\ MaxDeaths \in Nat /\ MaxFaults \in Nat /\ MaxRedeliveries \in Nat

VARIABLES
    queue,     \* queue[j]: messages of the task of j ready for delivery
    wpc,       \* wpc[w]: where worker w is in _run_job
    task,      \* task[w]: the job whose unacknowledged message w holds
    overdue,   \* workers whose execution lock expired under them
    apc,       \* apc[a]: where API process a is in its handler
    ajob,      \* ajob[a]: the job of the request a serves
    spent      \* deaths, faults and redeliveries so far

execVars == <<queue, wpc, task, overdue, apc, ajob, spent>>
allVars  == <<storeVars, execVars>>

WorkerPoints == {"idle", "acquiring", "starting", "running",
                 "storing_result", "storing_status", "releasing"}
ApiPoints    == {"idle", "created", "failing", "deciding"}

ExecInit ==
    /\ StoreInit
    /\ queue   = [j \in Jobs |-> 0]
    /\ wpc     = [w \in Workers |-> "idle"]
    /\ task    = [w \in Workers |-> Null]
    /\ overdue = {}
    /\ apc     = [a \in Apis |-> "idle"]
    /\ ajob    = [a \in Apis |-> Null]
    /\ spent   = [death |-> 0, fault |-> 0, redelivery |-> 0]

Spend(what, bound) ==
    /\ spent[what] < bound
    /\ spent' = [spent EXCEPT ![what] = @ + 1]

UpdateCall(j, s) ==
    [kind |-> "update_status", job |-> j, status |-> s, record |-> Null]
ResultCall(j, r) ==
    [kind |-> "set_result", job |-> j, status |-> r, record |-> Null]
DecisionCall(j, d) ==
    [kind |-> "record_operator_decision", job |-> j, status |-> Null, record |-> d]
LockCall(kind, j) ==
    [kind |-> kind, job |-> j, status |-> Null, record |-> Null]

-----------------------------------------------------------------------------
\* API processes.

Serves(a, point, j) ==
    /\ apc'  = [apc EXCEPT ![a] = point]
    /\ ajob' = [ajob EXCEPT ![a] = j]

\* POST /what-if-jobs: the request passed its checks, the store creates the job.
CreateJob(a, j) ==
    /\ apc[a] = "idle"
    /\ Create(j)
    /\ Serves(a, "created", j)
    /\ UNCHANGED <<queue, wpc, task, overdue, spent>>

\* send_task succeeds and the handler answers 202.
DispatchJob(a) ==
    /\ apc[a] = "created"
    /\ queue' = [queue EXCEPT ![ajob[a]] = @ + 1]
    /\ Serves(a, "idle", Null)
    /\ UNCHANGED <<storeVars, wpc, task, overdue, spent>>

\* send_task raises, with the message sent or not; the handler fails the job.
DispatchRaises(a) ==
    /\ apc[a] = "created"
    /\ Spend("fault", MaxFaults)
    /\ \E sent \in {0, 1} : queue' = [queue EXCEPT ![ajob[a]] = @ + sent]
    /\ Begin(a, UpdateCall(ajob[a], "failed"))
    /\ Serves(a, "failing", ajob[a])
    /\ UNCHANGED <<wpc, task, overdue>>

\* Defect: the handler does not check what may be approved.
RequestAnyDecision(a, j, d) ==
    /\ apc[a] = "idle"
    /\ envelope[j] # Null
    /\ IsTerminal(envelope[j])
    /\ Begin(a, DecisionCall(j, d))
    /\ Serves(a, "deciding", j)
    /\ UNCHANGED <<queue, wpc, task, overdue, spent>>

\* POST .../operator-decision: the handler reads the envelope and refuses with
\* 404 or 409 unless the job is terminal and, to be approved, succeeded.
RequestDecision(a, j, d) ==
    /\ apc[a] = "idle"
    /\ envelope[j] # Null
    /\ IsTerminal(envelope[j])
    /\ d.decision = "approved" => envelope[j].status = "succeeded"
    /\ Begin(a, DecisionCall(j, d))
    /\ Serves(a, "deciding", j)
    /\ UNCHANGED <<queue, wpc, task, overdue, spent>>

\* The store call of the handler is over; the handler answers 503 after a
\* failed dispatch, and 200 with the reply, 404 or 500 after a decision.
Answer(a) ==
    /\ apc[a] \in {"failing", "deciding"}
    /\ phase[a] \in {"done", "raised"}
    /\ Serves(a, "idle", Null)
    /\ UNCHANGED <<storeVars, queue, wpc, task, overdue, spent>>

-----------------------------------------------------------------------------
\* Workers.

At(w, point) == wpc' = [wpc EXCEPT ![w] = point]

\* The message is acknowledged when the task function returns or raises
\* (acks_late): the worker is free.
Acknowledge(w) ==
    /\ At(w, "idle")
    /\ task'    = [task EXCEPT ![w] = Null]
    /\ overdue' = overdue \ {w}

\* Celery delivers a message and _run_job asks for the execution lock.
Deliver(w, j) ==
    /\ wpc[w] = "idle"
    /\ queue[j] > 0
    /\ queue' = [queue EXCEPT ![j] = @ - 1]
    /\ task'  = [task EXCEPT ![w] = j]
    /\ At(w, "acquiring")
    /\ Begin(w, LockCall("acquire_execution", j))
    /\ UNCHANGED <<overdue, apc, ajob, spent>>

\* Refused: a duplicate or a terminal job; _run_job returns.  The same happens
\* when acquire_execution raises, which no handler of _run_job catches.
SkipTask(w) ==
    /\ wpc[w] = "acquiring"
    /\ \/ phase[w] = "done" /\ ~ granted[w]
       \/ phase[w] = "raised"
    /\ Acknowledge(w)
    /\ UNCHANGED <<storeVars, queue, apc, ajob, spent>>

StartTask(w) ==
    /\ wpc[w] = "acquiring"
    /\ phase[w] = "done" /\ granted[w]
    /\ Begin(w, UpdateCall(task[w], "running"))
    /\ At(w, "starting")
    /\ UNCHANGED <<queue, task, overdue, apc, ajob, spent>>

RunOrchestrator(w) ==
    /\ wpc[w] = "starting"
    /\ phase[w] = "done"
    /\ At(w, "running")
    /\ UNCHANGED <<storeVars, queue, task, overdue, apc, ajob, spent>>

\* Defect: the task ends without storing its result.
RunReturnsUnstored(w, r) ==
    /\ wpc[w] = "running"
    /\ Begin(w, LockCall("release_execution", task[w]))
    /\ At(w, "releasing")
    /\ UNCHANGED <<queue, task, overdue, apc, ajob, spent>>

\* The orchestrator returns a result, and set_result stores it.
RunReturns(w, r) ==
    /\ wpc[w] = "running"
    /\ Begin(w, ResultCall(task[w], r))
    /\ At(w, "storing_result")
    /\ UNCHANGED <<queue, task, overdue, apc, ajob, spent>>

\* A TimeoutError escapes the run ("expired"), or any other exception does,
\* or set_result itself raises ("failed").
RunRaises(w, s) ==
    /\ \/ wpc[w] = "running"
       \/ wpc[w] = "storing_result" /\ phase[w] = "raised" /\ s = "failed"
    /\ Begin(w, UpdateCall(task[w], s))
    /\ At(w, "storing_status")
    /\ UNCHANGED <<queue, task, overdue, apc, ajob, spent>>

\* finally: release_execution, after the outcome is stored and also after a
\* status update raised.
ReleaseLock(w) ==
    /\ \/ wpc[w] \in {"storing_result", "storing_status"} /\ phase[w] = "done"
       \/ wpc[w] \in {"starting", "storing_status"} /\ phase[w] = "raised"
    /\ Begin(w, LockCall("release_execution", task[w]))
    /\ At(w, "releasing")
    /\ UNCHANGED <<queue, task, overdue, apc, ajob, spent>>

FinishTask(w) ==
    /\ wpc[w] = "releasing"
    /\ phase[w] \in {"done", "raised"}
    /\ Acknowledge(w)
    /\ UNCHANGED <<storeVars, queue, apc, ajob, spent>>

-----------------------------------------------------------------------------
\* The store, and the environment.

StoreCommand(c) == StoreStep(c) /\ UNCHANGED execVars

\* w was granted the execution of its task and has not begun to give it back.
Executing(w) ==
    \/ wpc[w] \in {"starting", "running", "storing_result", "storing_status"}
    \/ wpc[w] = "acquiring" /\ granted[w]

\* The time to live of the lock of j passes.  Its holder, if it lives and still
\* executes the job (or is about to), has become overdue.
LockTimesOut(j) ==
    /\ LockExpires(j)
    /\ overdue' = overdue \cup
          {w \in Workers : /\ lock[j] = w /\ task[w] = j
                           /\ Executing(w) \/ phase[w] = "lock_recheck"}
    /\ UNCHANGED <<queue, wpc, task, apc, ajob, spent>>

StoreRaises(c) ==
    /\ Spend("fault", MaxFaults)
    /\ ConnectionFails(c)
    /\ \/ c \in Workers /\ wpc[c] # "idle" /\ wpc[c] # "running"
       \/ c \in Apis /\ apc[c] \in {"failing", "deciding"}
    /\ UNCHANGED <<queue, wpc, task, overdue, apc, ajob>>

\* The broker's visibility timeout passes before the acknowledgement.
Redeliver(w) ==
    /\ task[w] # Null
    /\ Spend("redelivery", MaxRedeliveries)
    /\ queue' = [queue EXCEPT ![task[w]] = @ + 1]
    /\ UNCHANGED <<storeVars, wpc, task, overdue, apc, ajob>>

\* The process executing a task dies.  Celery acknowledges the message of a
\* lost child process (task_reject_on_worker_lost is not set); when the whole
\* worker is lost the broker delivers it again.
WorkerDies(w) ==
    /\ wpc[w] # "idle"
    /\ Spend("death", MaxDeaths)
    /\ ClientDies(w)
    /\ \E back \in {0, 1} : queue' = [queue EXCEPT ![task[w]] = @ + back]
    /\ Acknowledge(w)
    /\ UNCHANGED <<apc, ajob>>

ApiDies(a) ==
    /\ apc[a] # "idle"
    /\ Spend("death", MaxDeaths)
    /\ ClientDies(a) \/ (phase[a] = "idle" /\ UNCHANGED storeVars)
    /\ Serves(a, "idle", Null)
    /\ UNCHANGED <<queue, wpc, task, overdue>>

-----------------------------------------------------------------------------
ApiNext(a) ==
    \/ \E j \in Jobs :
          \/ CreateJob(a, j)
          \/ \E d \in DecisionRecord : RequestDecision(a, j, d)
    \/ DispatchJob(a)
    \/ DispatchRaises(a)
    \/ Answer(a)

WorkerStep(w) ==
    \/ SkipTask(w)
    \/ StartTask(w)
    \/ RunOrchestrator(w)
    \/ \E r \in ResultStatus : RunReturns(w, r)
    \/ \E s \in {"expired", "failed"} : RunRaises(w, s)
    \/ ReleaseLock(w)
    \/ FinishTask(w)

ExecNext ==
    \/ \E a \in Apis : ApiNext(a) \/ ApiDies(a)
    \/ \E w \in Workers :
          \/ \E j \in Jobs : Deliver(w, j)
          \/ WorkerStep(w)
          \/ Redeliver(w)
          \/ WorkerDies(w)
    \/ \E c \in Clients : StoreCommand(c) \/ StoreRaises(c)
    \/ \E j \in Jobs : LockTimesOut(j)

ExecSpec == ExecInit /\ [][ExecNext]_allVars

\* Processes keep running, the broker delivers what is ready to an idle worker,
\* every call of the orchestrator returns, and a lock held long enough expires.
ExecFairness ==
    /\ \A a \in Apis : WF_allVars(DispatchJob(a)) /\ WF_allVars(Answer(a))
    /\ \A w \in Workers : WF_allVars(WorkerStep(w))
    /\ \A c \in Clients : WF_allVars(StoreCommand(c))
    /\ \A j \in Jobs :
          /\ WF_allVars(\E w \in Workers : Deliver(w, j))
          /\ WF_allVars(LockTimesOut(j))

FairExecSpec == ExecSpec /\ ExecFairness

-----------------------------------------------------------------------------
ExecTypeOK ==
    /\ StoreTypeOK
    /\ queue   \in [Jobs -> Nat]
    /\ wpc     \in [Workers -> WorkerPoints]
    /\ task    \in [Workers -> Jobs \cup {Null}]
    /\ overdue \in SUBSET Workers
    /\ apc     \in [Apis -> ApiPoints]
    /\ ajob    \in [Apis -> Jobs \cup {Null}]
    /\ spent   \in [{"death", "fault", "redelivery"} -> Nat]

\* However often the broker delivers a task, two workers execute a job at the
\* same time only when one of them outlived the time to live of its lock.
SoleExecutor ==
    \A v, w \in Workers :
        v # w /\ Executing(v) /\ Executing(w) /\ task[v] = task[w] =>
            v \in overdue \/ w \in overdue

\* An executing worker that is not overdue still has its lock in redis: nobody
\* else's release takes it away.
ExecutorHoldsLock ==
    \A w \in Workers : Executing(w) /\ w \notin overdue => lock[task[w]] = w

\* The handler checks the status before the store records the decision, and the
\* store does not check it again: still no job is approved unless it succeeded.
ApprovedOnlySucceeded ==
    \A j \in Jobs : envelope[j] # Null /\ envelope[j].decision # Null =>
        (envelope[j].decision.decision = "approved" =>
             envelope[j].status = "succeeded")

\* The record a decision request is answered with is the one that is stored.
ReplyIsRecorded ==
    \A a \in Apis : apc[a] = "deciding" /\ phase[a] = "done" /\ reply[a] # Null =>
        envelope[ajob[a]].decision = reply[a]

\* As long as nothing died or raised, a job that is not terminal is on its way:
\* being dispatched, waiting in the queue, or held by a worker.
LiveJobIsCarried ==
    spent.death = 0 /\ spent.fault = 0 =>
        \A j \in Jobs : Runnable(j) =>
            \/ \E a \in Apis : apc[a] = "created" /\ ajob[a] = j
            \/ queue[j] > 0
            \/ \E w \in Workers : task[w] = j

\* Every job that was created reaches a terminal status: of the workers that
\* are given its task, one is granted the lock and stores an outcome.
CreatedJobEnds ==
    \A j \in Jobs : (envelope[j] # Null) ~> (envelope[j] # Null /\ IsTerminal(envelope[j]))

\* Every job that a worker began to execute reaches a terminal status, even
\* when a worker process is lost.
StartedJobEnds ==
    \A j \in Jobs :
        (envelope[j] # Null /\ envelope[j].status = "running") ~>
            (envelope[j] # Null /\ IsTerminal(envelope[j]))

=============================================================================
