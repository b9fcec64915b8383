--------------------------- MODULE ProvisionalJobs ---------------------------
(***************************************************************************)
(* The provisional composition: one API process with the in-memory store   *)
(* and FastAPI background tasks.  Every store operation holds the mutex of  *)
(* the store and is atomic; handlers run one at a time on the event loop;   *)
(* each job has one task on a thread of the server's pool, and job_slots    *)
(* bounds the tasks that run the orchestrator.                              *)
(*                                                                         *)
(* Job and log are those of JobContract, whose operations this store        *)
(* shares, except that a later decision replaces an earlier one.            *)
(***************************************************************************)
EXTENDS JobContract, FiniteSets

CONSTANTS
    Threads,         \* threads of the server's pool
    JobConcurrency,  \* RuntimeSettings.job_concurrency
    MaxDecisions     \* bound: decisions made about one job

ASSUME ProvisionalAssumption == {Threads, JobConcurrency} \subseteq Nat \ {0}

VARIABLES
    bgTask,     \* bgTask[j]: none, pending, started (on a thread), waiting (for a
                \* permit), slotted, running, ended (its run is) or over
    locked,     \* _execution_locks
    slots,      \* permits left in job_slots
    deciding    \* the decision whose handler has passed its checks, or Null

provVars == <<bgTask, locked, slots, deciding>>

ProvInit ==
    /\ Init
    /\ bgTask = [j \in Jobs |-> "none"]
    /\ locked = {}
    /\ slots = JobConcurrency
    /\ deciding = Null

MoveTo(j, point) == bgTask' = [bgTask EXCEPT ![j] = point]

\* create_job, once the event loop is free, answers 202, and its background task waits
\* for a thread.
ProvCreate(j) ==
    /\ deciding = Null
    /\ Create(j)
    /\ MoveTo(j, "pending")
    /\ UNCHANGED <<locked, slots, deciding>>

OnThread(j) == bgTask[j] \in {"started", "waiting", "slotted", "running", "ended"}

\* Tasks that have a permit.
Slotted == {j \in Jobs : bgTask[j] \in {"slotted", "running", "ended"}}

TakeThread(j) ==
    /\ bgTask[j] = "pending"
    /\ Cardinality({k \in Jobs : OnThread(k)}) < Threads
    /\ MoveTo(j, "started")
    /\ UNCHANGED <<vars, locked, slots, deciding>>

\* acquire_execution: refused for a job that is locked or over.
AcquireExecution(j) ==
    /\ bgTask[j] = "started"
    /\ IF j \in locked \/ IsTerminal(job[j])
       THEN MoveTo(j, "over") /\ UNCHANGED locked
       ELSE MoveTo(j, "waiting") /\ locked' = locked \cup {j}
    /\ UNCHANGED <<vars, slots, deciding>>

\* job_slots.acquire() blocks while no permit is left; the job stays queued.
AcquireSlot(j) ==
    /\ bgTask[j] = "waiting"
    /\ slots > 0
    /\ slots' = slots - 1
    /\ MoveTo(j, "slotted")
    /\ UNCHANGED <<vars, locked, deciding>>

StartRun(j) ==
    /\ bgTask[j] = "slotted"
    /\ UpdateStatus(j, "running")
    /\ MoveTo(j, "running")
    /\ UNCHANGED <<locked, slots, deciding>>

\* The orchestrator returns a result, times out, or raises.
EndRun(j) ==
    /\ bgTask[j] = "running"
    /\ \/ \E r \in ResultStatus : SetResult(j, r)
       \/ \E s \in {"expired", "failed"} : UpdateStatus(j, s)
    /\ MoveTo(j, "ended")
    /\ UNCHANGED <<locked, slots, deciding>>

\* Defect: the permit is not given back.
GiveNothingBack(j) ==
    /\ bgTask[j] = "ended"
    /\ locked' = locked \ {j}
    /\ MoveTo(j, "over")
    /\ UNCHANGED <<vars, slots, deciding>>

\* The finally clause.
GiveBack(j) ==
    /\ bgTask[j] = "ended"
    /\ slots' = slots + 1
    /\ locked' = locked \ {j}
    /\ MoveTo(j, "over")
    /\ UNCHANGED <<vars, deciding>>

\* Defect: the handler does not ask for a terminal status.
AskAnyStatus(j, d) ==
    /\ deciding = Null
    /\ Exists(j)
    /\ Len(log[j]) < 3 + MaxDecisions
    /\ deciding' = [job |-> j, record |-> d]
    /\ UNCHANGED <<vars, bgTask, locked, slots>>

\* The operator-decision handler: it checks the envelope it has read.  It does not
\* await, but the tasks run on.
AskDecision(j, d) ==
    /\ deciding = Null
    /\ Exists(j) /\ IsTerminal(job[j])
    /\ d.decision = "approved" => job[j].status = "succeeded"
    /\ Len(log[j]) < 3 + MaxDecisions
    /\ deciding' = [job |-> j, record |-> d]
    /\ UNCHANGED <<vars, bgTask, locked, slots>>

\* record_operator_decision, on the envelope as it is now: it looks at neither status
\* nor an earlier decision.
ProvDecide ==
    /\ deciding # Null
    /\ LET j == deciding.job
       IN  Commit(j, [job[j] EXCEPT !.decision = deciding.record],
                  "operator_decision", deciding.record)
    /\ deciding' = Null
    /\ UNCHANGED <<bgTask, locked, slots>>

TaskStep(j) == TakeThread(j) \/ AcquireExecution(j) \/ AcquireSlot(j)
               \/ StartRun(j) \/ EndRun(j) \/ GiveBack(j)

ProvNext ==
    \/ \E j \in Jobs :
          \/ ProvCreate(j) \/ TaskStep(j)
          \/ \E d \in DecisionRecord : AskDecision(j, d)
    \/ ProvDecide

ProvSpec == ProvInit /\ [][ProvNext]_<<vars, provVars>>

\* Threads of the pool run, and the orchestrator returns or raises.
ProvFairness == \A j \in Jobs : WF_<<vars, provVars>>(TaskStep(j))

-----------------------------------------------------------------------------
\* A decision about a finished job may be replaced, and the log keeps each.
Amend(j) ==
    /\ Exists(j) /\ IsTerminal(job[j])
    /\ \E d \in DecisionRecord :
          Commit(j, [job[j] EXCEPT !.decision = d], "operator_decision", d)

\* With the in-memory store the system still implements the contract of the job
\* store, if a decision may be amended: although the store itself checks nothing and
\* tasks store results between the handler's check and its call, no decision is
\* recorded about an unfinished job, and none is lost from the log.
AmendableContract == Init /\ [][Next \/ \E j \in Jobs : Amend(j)]_vars

\* Of a job's own task the store ignores no call, as it would if the job were over or
\* had the status already: the task finds the job queued, then running, and is over
\* after it.  Nor do more tasks run than job_slots allows, or is a permit lost.
NothingIgnored ==
    /\ Cardinality(Slotted) + slots = JobConcurrency
    /\ \A j \in Jobs :
          /\ bgTask[j] = "slotted" => Exists(j) /\ job[j].status = "queued"
          /\ bgTask[j] = "running" => Exists(j) /\ job[j].status = "running"
          /\ bgTask[j] = "over"    => Exists(j) /\ IsTerminal(job[j])

\* Every job with a background task ends, and each that is created gets one, however
\* few threads and slots there are: what waits for a slot never keeps the slot's holder
\* from running.  (An ended job stays so: again and again all of them have ended.)
ProvisionalJobEnds ==
    []<>(\A j \in Jobs : bgTask[j] # "none" => Exists(j) /\ IsTerminal(job[j]))

=============================================================================
