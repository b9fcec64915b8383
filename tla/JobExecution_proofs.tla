-------------------------- MODULE JobExecution_proofs --------------------------
(***************************************************************************)
(* Proofs about JobExecution, for any set of jobs and operators and any    *)
(* number of API and worker processes, deaths, faults and redeliveries.    *)
(*                                                                         *)
(* The invariant grows in layers, each proved with the ones before it.     *)
(* ExecInv: the store's own invariant, and which store call belongs to     *)
(* which point of a handler.  LocksHeld: who holds the execution lock.     *)
(* Decided: what a decision in flight knows of its job.  Existing: messages*)
(* and tasks are about jobs that exist.  Undisturbed: with one API, that   *)
(* its decisions commit at once.  Carried: as long as nothing died or      *)
(* raised, who will finish a job.                                          *)
(***************************************************************************)
EXTENDS JobExecution, RedisJobStore_proofs

\* The client waits for the answer of a redis command.
Busy(c) == phase[c] \notin {"idle", "done", "raised"}

\* The store calls of _run_job at a point.
TaskCalls(point, j) ==
    CASE point = "acquiring"      -> {LockCall("acquire_execution", j)}
      [] point = "starting"       -> {UpdateCall(j, "running")}
      [] point = "storing_result" -> {ResultCall(j, r) : r \in ResultStatus}
      [] point = "storing_status" -> {UpdateCall(j, s) : s \in {"expired", "failed"}}
      [] point = "releasing"      -> {LockCall("release_execution", j)}
      [] OTHER                    -> {}

\* The store calls of a handler of the API at a point.
HandlerCalls(point, j) ==
    CASE point = "failing"  -> {UpdateCall(j, "failed")}
      [] point = "deciding" -> {DecisionCall(j, d) : d \in DecisionRecord}
      [] OTHER              -> {}

WorkerFits(w) ==
    /\ wpc[w] # "idle" => task[w] \in Jobs /\ phase[w] # "idle"
    /\ wpc[w] = "idle" => task[w] = Null
    /\ wpc[w] \in {"idle", "running"} => ~ Busy(w)
    /\ wpc[w] = "running" => phase[w] = "done"
    /\ Busy(w) => call[w] \in TaskCalls(wpc[w], task[w])

ApiFits(a) ==
    /\ apc[a] # "idle" => ajob[a] \in Jobs
    /\ apc[a] \in {"idle", "created"} => ~ Busy(a)
    /\ Busy(a) => call[a] \in HandlerCalls(apc[a], ajob[a])

\* acquire_execution answers True and is over.
GrantEnds == \A c \in Clients : granted[c] => phase[c] = "done"

ExecInv ==
    /\ StoreInv
    /\ ExecTypeOK
    /\ \A w \in Workers : WorkerFits(w)
    /\ \A a \in Apis : ApiFits(a)
    /\ GrantEnds

-----------------------------------------------------------------------------
\* The calls, and what the steps of the store do to the clients.

LEMMA ProcessesAreClients ==
  /\ \A w \in Workers : w \in Clients /\ w \notin Apis
  /\ \A a \in Apis : a \in Clients /\ a \notin Workers
BY ProcessAssumption

LEMMA ConstructedCalls ==
  ASSUME NEW j \in Jobs
  PROVE  /\ \A s \in SettableStatus : UpdateCall(j, s) \in UpdateCalls
         /\ \A r \in ResultStatus : ResultCall(j, r) \in ResultCalls
         /\ \A d \in DecisionRecord : DecisionCall(j, d) \in DecisionCalls
         /\ \A k \in {"acquire_execution", "release_execution"} : LockCall(k, j) \in LockCalls
         /\ \A s : FirstPhase(UpdateCall(j, s)) = "read"
         /\ \A r : FirstPhase(ResultCall(j, r)) = "read"
         /\ \A d : FirstPhase(DecisionCall(j, d)) = "read"
         /\ FirstPhase(LockCall("acquire_execution", j)) = "lock_check"
         /\ FirstPhase(LockCall("release_execution", j)) = "unlock_read"
BY DEF UpdateCall, ResultCall, DecisionCall, LockCall, UpdateCalls, ResultCalls,
       DecisionCalls, LockCalls, FirstPhase

\* c neither makes a call nor gets an answer in this step.
Untouched(c) ==
    /\ phase'[c] = phase[c] /\ call'[c] = call[c]
    /\ granted'[c] = granted[c] /\ tokens'[c] = tokens[c]
    /\ holder'[c] = holder[c] /\ reply'[c] = reply[c]

\* A call that goes on is the same call, and stays on its side of the store.
GoesOn(c) ==
    /\ call'[c] = call[c]
    /\ \/ phase[c] \in {"read", "exec"} /\ phase'[c] \in {"read", "exec"}
       \/ phase[c] \in LockPhases /\ phase'[c] \in LockPhases

LEMMA StoreStepMoves ==
  ASSUME StoreInv, NEW c \in Clients, StoreStep(c)
  PROVE  /\ Busy(c)
         /\ \A d \in Clients \ {c} : Untouched(d)
         /\ phase'[c] = "done" \/ GoesOn(c)
         /\ granted'[c] => granted[c] \/ phase'[c] = "done"
<1> USE DEF Untouched, GoesOn, Busy, LockPhases
<1>1. CASE Read(c) \/ ExecRetries(c)
  BY <1>1 DEF StoreInv, StoreTypeOK, Read, ExecRetries, Return, End, Goto, Forget, keys
<1>2. CASE ExecCommits(c)
  BY <1>2 DEF StoreInv, StoreTypeOK, ExecCommits, Return, End, Forget
<1>3. CASE LockCheck(c) \/ UnlockRead(c)
  BY <1>3 DEF StoreInv, StoreTypeOK, LockCheck, UnlockRead, End, Goto, keys
<1>4. CASE LockSet(c) \/ UnlockExec(c)
  BY <1>4 DEF StoreInv, StoreTypeOK, LockSet, UnlockExec, End, Goto
<1>5. CASE LockRecheck(c)
  BY <1>5 DEF StoreInv, StoreTypeOK, LockRecheck, End, Goto, keys
<1> QED BY <1>1, <1>2, <1>3, <1>4, <1>5 DEF StoreStep

LEMMA BeginMoves ==
  ASSUME StoreInv, NEW c \in Clients, NEW op \in Calls, Begin(c, op)
  PROVE  /\ ~ Busy(c)
         /\ \A d \in Clients \ {c} : Untouched(d)
         /\ ~ granted'[c]
         /\ \/ phase'[c] = FirstPhase(op) /\ call'[c] = op
            \/ phase'[c] = "done" /\ op.kind = "release_execution"
BY DEF StoreInv, StoreTypeOK, Begin, End, Untouched, Busy

LEMMA LeaveMoves ==
  ASSUME StoreInv, NEW c \in Clients, ClientDies(c) \/ ConnectionFails(c)
  PROVE  /\ \A d \in Clients \ {c} : Untouched(d)
         /\ ~ granted'[c]
         /\ ClientDies(c) => phase'[c] = "idle"
         /\ ConnectionFails(c) => phase'[c] = "raised"
BY DEF StoreInv, StoreTypeOK, ClientDies, ConnectionFails, End, Forget, Untouched

-----------------------------------------------------------------------------
\* ExecInv is inductive.

LEMMA ExecInvInit == ExecInit => ExecInv
<1> SUFFICES ASSUME ExecInit PROVE ExecInv
  OBVIOUS
<1>1. StoreInv
  BY StoreInvInit DEF ExecInit
<1>2. ExecTypeOK
  BY <1>1 DEF StoreInv, ExecInit, ExecTypeOK, WorkerPoints, ApiPoints
<1>3. \A c \in Clients : ~ Busy(c) /\ ~ granted[c]
  BY DEF ExecInit, StoreInit, Busy
<1>4. \A w \in Workers : WorkerFits(w)
  BY <1>3, ProcessesAreClients DEF ExecInit, WorkerFits
<1>5. \A a \in Apis : ApiFits(a)
  BY <1>3, ProcessesAreClients DEF ExecInit, ApiFits
<1> QED BY <1>1, <1>2, <1>3, <1>4, <1>5 DEF ExecInv, GrantEnds

\* The variables of the processes have their types.
ProcessTypes ==
    /\ queue   \in [Jobs -> Nat]
    /\ wpc     \in [Workers -> WorkerPoints]
    /\ task    \in [Workers -> Jobs \cup {Null}]
    /\ overdue \in SUBSET Workers
    /\ apc     \in [Apis -> ApiPoints]
    /\ ajob    \in [Apis -> Jobs \cup {Null}]
    /\ spent   \in [{"death", "fault", "redelivery"} -> Nat]

\* A step in which at most one worker moves and makes a call of its own.
LEMMA WorkerMoves ==
  ASSUME ExecInv, NEW w \in Workers, [StoreNext]_storeVars, ProcessTypes',
         \A d \in Clients \ {w} : Untouched(d),
         \A v \in Workers \ {w} : wpc'[v] = wpc[v] /\ task'[v] = task[v],
         UNCHANGED <<apc, ajob>>,
         WorkerFits(w)', granted'[w] => phase'[w] = "done"
  PROVE  ExecInv'
<1>1. StoreInv'
  BY StoreInvNext DEF ExecInv
<1>2. ExecTypeOK'
  BY <1>1 DEF StoreInv, ExecTypeOK, ProcessTypes
<1>3. \A v \in Workers : WorkerFits(v)'
  <2> SUFFICES ASSUME NEW v \in Workers, v # w PROVE WorkerFits(v)'
    OBVIOUS
  <2> QED BY ProcessesAreClients DEF ExecInv, WorkerFits, Untouched, Busy
<1>4. \A a \in Apis : ApiFits(a)'
  BY ProcessesAreClients DEF ExecInv, ApiFits, Untouched, Busy
<1>5. GrantEnds'
  BY DEF ExecInv, GrantEnds, Untouched
<1> QED BY <1>1, <1>2, <1>3, <1>4, <1>5 DEF ExecInv

\* A step in which at most one API process moves and makes a call of its own.
LEMMA ApiMoves ==
  ASSUME ExecInv, NEW a \in Apis, [StoreNext]_storeVars, ProcessTypes',
         \A d \in Clients \ {a} : Untouched(d),
         \A b \in Apis \ {a} : apc'[b] = apc[b] /\ ajob'[b] = ajob[b],
         UNCHANGED <<wpc, task>>,
         ApiFits(a)', granted'[a] => phase'[a] = "done"
  PROVE  ExecInv'
<1>1. StoreInv'
  BY StoreInvNext DEF ExecInv
<1>2. ExecTypeOK'
  BY <1>1 DEF StoreInv, ExecTypeOK, ProcessTypes
<1>3. \A v \in Workers : WorkerFits(v)'
  BY ProcessesAreClients DEF ExecInv, WorkerFits, Untouched, Busy
<1>4. \A b \in Apis : ApiFits(b)'
  <2> SUFFICES ASSUME NEW b \in Apis, b # a PROVE ApiFits(b)'
    OBVIOUS
  <2> QED BY ProcessesAreClients DEF ExecInv, ApiFits, Untouched, Busy
<1>5. GrantEnds'
  BY DEF ExecInv, GrantEnds, Untouched
<1> QED BY <1>1, <1>2, <1>3, <1>4, <1>5 DEF ExecInv

LEMMA TaskCallsAreCalls ==
  ASSUME NEW point, NEW j \in Jobs, NEW op \in TaskCalls(point, j)
  PROVE  /\ op \in Calls
         /\ point = "acquiring" => op.kind = "acquire_execution"
         /\ point \in {"starting", "storing_result", "storing_status"} => op \in MutationCalls
<1>1. /\ \A s \in {"running", "expired", "failed"} : UpdateCall(j, s) \in UpdateCalls
      /\ \A r \in ResultStatus : ResultCall(j, r) \in ResultCalls
      /\ \A k \in {"acquire_execution", "release_execution"} : LockCall(k, j) \in LockCalls
  BY ConstructedCalls DEF SettableStatus
<1>2. CASE point = "acquiring"
  BY <1>1, <1>2 DEF TaskCalls, Calls, LockCall
<1>3. CASE point = "releasing"
  BY <1>1, <1>3 DEF TaskCalls, Calls
<1>4. CASE point \in {"starting", "storing_result", "storing_status"}
  BY <1>1, <1>4 DEF TaskCalls, Calls, MutationCalls
<1> QED BY <1>2, <1>3, <1>4 DEF TaskCalls

LEMMA HandlerCallsAreCalls ==
  ASSUME NEW point, NEW j \in Jobs, NEW op \in HandlerCalls(point, j)
  PROVE  op \in MutationCalls /\ op \in Calls /\ FirstPhase(op) = "read"
BY ConstructedCalls DEF HandlerCalls, SettableStatus, MutationCalls, Calls

\* _run_job reaches a point where it makes a store call.
LEMMA WorkerBegins ==
  ASSUME ExecInv, NEW w \in Workers, NEW point \in WorkerPoints,
         NEW j \in Jobs, NEW op \in TaskCalls(point, j),
         Begin(w, op), At(w, point), task' = [task EXCEPT ![w] = j],
         queue' \in [Jobs -> Nat], UNCHANGED <<overdue, apc, ajob, spent>>
  PROVE  ExecInv' /\ [StoreNext]_storeVars
<1>1. op \in Calls /\ w \in Clients
  BY TaskCallsAreCalls, ProcessesAreClients
<1>2. StoreNext
  BY <1>1 DEF StoreNext
<1>3. /\ \A d \in Clients \ {w} : Untouched(d)
      /\ ~ granted'[w]
      /\ \/ phase'[w] = FirstPhase(op) /\ call'[w] = op
         \/ phase'[w] = "done"
  BY <1>1, BeginMoves DEF ExecInv
<1>4. ProcessTypes'
  BY DEF ExecInv, ExecTypeOK, ProcessTypes, At
<1>5. wpc'[w] = point /\ task'[w] = j
  BY DEF ExecInv, ExecTypeOK, At
<1>6. FirstPhase(op) \in {"read", "lock_check", "unlock_read"}
  BY <1>1, CallKinds
<1>7. point \notin {"idle", "running"}
  BY DEF TaskCalls
<1>8. WorkerFits(w)'
  BY <1>3, <1>5, <1>6, <1>7 DEF WorkerFits, Busy
<1>9. \A v \in Workers \ {w} : wpc'[v] = wpc[v] /\ task'[v] = task[v]
  BY DEF ExecInv, ExecTypeOK, At
<1> QED BY <1>2, <1>3, <1>4, <1>8, <1>9, WorkerMoves

\* The task of w ends: _run_job returned or raised, or the process died.
LEMMA WorkerEnds ==
  ASSUME ExecInv, NEW w \in Workers, Acknowledge(w), [StoreNext]_storeVars,
         \A d \in Clients \ {w} : Untouched(d),
         ~ Busy(w)', granted'[w] => phase'[w] = "done",
         queue' \in [Jobs -> Nat], UNCHANGED <<apc, ajob>>,
         spent' \in [{"death", "fault", "redelivery"} -> Nat]
  PROVE  ExecInv'
<1>1. ProcessTypes'
  BY DEF ExecInv, ExecTypeOK, ProcessTypes, Acknowledge, At, WorkerPoints
<1>2. wpc'[w] = "idle" /\ task'[w] = Null
  BY DEF ExecInv, ExecTypeOK, Acknowledge, At
<1>3. WorkerFits(w)'
  BY <1>2 DEF WorkerFits
<1>4. \A v \in Workers \ {w} : wpc'[v] = wpc[v] /\ task'[v] = task[v]
  BY DEF ExecInv, ExecTypeOK, Acknowledge, At
<1> QED BY <1>1, <1>3, <1>4, WorkerMoves

LEMMA TaskActs ==
  ASSUME ExecInv, NEW w \in Workers,
         \/ \E j \in Jobs : Deliver(w, j)
         \/ StartTask(w)
         \/ \E r \in ResultStatus : RunReturns(w, r)
         \/ \E s \in {"expired", "failed"} : RunRaises(w, s)
         \/ ReleaseLock(w)
  PROVE  ExecInv' /\ [StoreNext]_storeVars
<1> DEFINE Ends == ExecInv' /\ [StoreNext]_storeVars
<1>1. ASSUME wpc[w] # "idle"
      PROVE  task[w] \in Jobs /\ (UNCHANGED task => task' = [task EXCEPT ![w] = task[w]])
  BY <1>1 DEF ExecInv, WorkerFits, ExecTypeOK
<1>2. ASSUME NEW j \in Jobs, Deliver(w, j) PROVE Ends
  <2>1. LockCall("acquire_execution", j) \in TaskCalls("acquiring", j)
    BY DEF TaskCalls
  <2>2. queue' \in [Jobs -> Nat]
    BY <1>2 DEF Deliver, ExecInv, ExecTypeOK
  <2> QED BY <1>2, <2>1, <2>2, WorkerBegins DEF Deliver, WorkerPoints
<1>3. ASSUME StartTask(w) PROVE Ends
  <2>1. UpdateCall(task[w], "running") \in TaskCalls("starting", task[w])
    BY DEF TaskCalls
  <2> QED BY <1>1, <1>3, <2>1, WorkerBegins DEF StartTask, WorkerPoints, ExecInv, ExecTypeOK
<1>4. ASSUME NEW r \in ResultStatus, RunReturns(w, r) PROVE Ends
  <2>1. ResultCall(task[w], r) \in TaskCalls("storing_result", task[w])
    BY DEF TaskCalls
  <2> QED BY <1>1, <1>4, <2>1, WorkerBegins DEF RunReturns, WorkerPoints, ExecInv, ExecTypeOK
<1>5. ASSUME NEW s \in {"expired", "failed"}, RunRaises(w, s) PROVE Ends
  <2>1. UpdateCall(task[w], s) \in TaskCalls("storing_status", task[w])
    BY DEF TaskCalls
  <2> QED BY <1>1, <1>5, <2>1, WorkerBegins DEF RunRaises, WorkerPoints, ExecInv, ExecTypeOK
<1>6. ASSUME ReleaseLock(w) PROVE Ends
  <2>1. LockCall("release_execution", task[w]) \in TaskCalls("releasing", task[w])
    BY DEF TaskCalls
  <2> QED BY <1>1, <1>6, <2>1, WorkerBegins DEF ReleaseLock, WorkerPoints, ExecInv, ExecTypeOK
<1> QED BY <1>2, <1>3, <1>4, <1>5, <1>6

\* Steps of _run_job that make no call.
LEMMA TaskRests ==
  ASSUME ExecInv, NEW w \in Workers,
         SkipTask(w) \/ RunOrchestrator(w) \/ FinishTask(w) \/ Redeliver(w)
  PROVE  ExecInv' /\ [StoreNext]_storeVars
<1>1. UNCHANGED storeVars /\ [StoreNext]_storeVars
  BY DEF SkipTask, RunOrchestrator, FinishTask, Redeliver
<1>2. /\ \A c \in Clients : Untouched(c)
      /\ \A c \in Clients : granted'[c] => phase'[c] = "done"
      /\ phase' = phase /\ call' = call
  BY <1>1 DEF storeVars, clientVars, Untouched, ExecInv, GrantEnds
<1>3. ASSUME SkipTask(w) \/ FinishTask(w) PROVE ExecInv'
  <2>1. ~ Busy(w)'
    BY <1>2, <1>3 DEF SkipTask, FinishTask, Busy
  <2> QED BY <1>1, <1>2, <1>3, <2>1, WorkerEnds, ProcessesAreClients
          DEF SkipTask, FinishTask, ExecInv, ExecTypeOK
<1>4. ASSUME RunOrchestrator(w) PROVE ExecInv'
  <2>1. ProcessTypes'
    BY <1>4 DEF RunOrchestrator, At, WorkerPoints, ExecInv, ExecTypeOK, ProcessTypes
  <2>2. /\ wpc[w] = "starting" /\ wpc'[w] = "running" /\ task' = task /\ phase[w] = "done"
        /\ \A v \in Workers \ {w} : wpc'[v] = wpc[v]
    BY <1>4 DEF RunOrchestrator, At, ExecInv, ExecTypeOK
  <2>3. WorkerFits(w)'
    BY <1>2, <2>2 DEF ExecInv, WorkerFits, Busy
  <2> QED BY <1>1, <1>2, <1>4, <2>1, <2>2, <2>3, WorkerMoves, ProcessesAreClients
          DEF RunOrchestrator
<1>5. ASSUME Redeliver(w) PROVE ExecInv'
  <2>1. ProcessTypes'
    BY <1>5 DEF Redeliver, Spend, ExecInv, ExecTypeOK, ProcessTypes
  <2>2. wpc' = wpc /\ task' = task /\ UNCHANGED <<apc, ajob>>
    BY <1>5 DEF Redeliver
  <2>3. WorkerFits(w)'
    BY <1>2, <2>2 DEF ExecInv, WorkerFits, Busy
  <2> QED BY <1>1, <1>2, <2>1, <2>2, <2>3, WorkerMoves, ProcessesAreClients
<1> QED BY <1>1, <1>3, <1>4, <1>5

LEMMA WorkerDiesExec ==
  ASSUME ExecInv, NEW w \in Workers, WorkerDies(w)
  PROVE  ExecInv' /\ [StoreNext]_storeVars
<1>1. w \in Clients /\ ClientDies(w)
  BY ProcessesAreClients DEF WorkerDies
<1>2. StoreNext
  BY <1>1 DEF StoreNext
<1>3. \A d \in Clients \ {w} : Untouched(d)
  BY <1>1, LeaveMoves DEF ExecInv
<1>4. ~ granted'[w] /\ phase'[w] = "idle"
  BY <1>1, LeaveMoves DEF ExecInv
<1>5. queue' \in [Jobs -> Nat]
  <2>1. task[w] \in Jobs
    BY DEF WorkerDies, ExecInv, WorkerFits
  <2>2. PICK back \in {0, 1} : queue' = [queue EXCEPT ![task[w]] = @ + back]
    BY DEF WorkerDies
  <2> QED BY <2>1, <2>2 DEF ExecInv, ExecTypeOK
<1>6. spent' \in [{"death", "fault", "redelivery"} -> Nat]
  BY DEF WorkerDies, Spend, ExecInv, ExecTypeOK
<1>7. ~ Busy(w)'
  BY <1>4 DEF Busy
<1> QED BY <1>2, <1>3, <1>4, <1>5, <1>6, <1>7, WorkerEnds DEF WorkerDies

\* A redis command of any client.
LEMMA StoreCommandExec ==
  ASSUME ExecInv, NEW c \in Clients, StoreCommand(c)
  PROVE  ExecInv' /\ [StoreNext]_storeVars
<1>1. StoreStep(c) /\ UNCHANGED <<queue, wpc, task, overdue, apc, ajob, spent>>
  BY DEF StoreCommand, execVars
<1>2. StoreNext
  BY <1>1 DEF StoreNext
<1>3. /\ Busy(c)
      /\ \A d \in Clients \ {c} : Untouched(d)
      /\ phase'[c] = "done" \/ GoesOn(c)
      /\ granted'[c] => granted[c] \/ phase'[c] = "done"
  BY <1>1, StoreStepMoves DEF ExecInv
<1>4. granted'[c] => phase'[c] = "done"
  BY <1>3 DEF ExecInv, GrantEnds, Busy
<1>5. ProcessTypes'
  BY <1>1 DEF ExecInv, ExecTypeOK, ProcessTypes
<1>6. CASE c \in Workers
  <2>1. WorkerFits(c)'
    BY <1>1, <1>3, <1>6 DEF ExecInv, WorkerFits, Busy, GoesOn, LockPhases
  <2> QED BY <1>1, <1>2, <1>3, <1>4, <1>5, <1>6, <2>1, WorkerMoves
<1>7. CASE c \in Apis
  <2>1. ApiFits(c)'
    BY <1>1, <1>3, <1>7 DEF ExecInv, ApiFits, Busy, GoesOn, LockPhases
  <2> QED BY <1>1, <1>2, <1>3, <1>4, <1>5, <1>7, <2>1, ApiMoves
<1> QED BY <1>2, <1>6, <1>7, ProcessAssumption

\* A connection error out of a call.
LEMMA StoreRaisesExec ==
  ASSUME ExecInv, NEW c \in Clients, StoreRaises(c)
  PROVE  ExecInv' /\ [StoreNext]_storeVars
<1>1. ConnectionFails(c) /\ UNCHANGED <<queue, wpc, task, overdue, apc, ajob>>
  BY DEF StoreRaises
<1>2. StoreNext
  BY <1>1 DEF StoreNext
<1>3. /\ \A d \in Clients \ {c} : Untouched(d)
      /\ ~ granted'[c] /\ phase'[c] = "raised"
  BY <1>1, LeaveMoves DEF ExecInv
<1>4. ProcessTypes'
  BY <1>1 DEF StoreRaises, Spend, ExecInv, ExecTypeOK, ProcessTypes
<1>5. CASE c \in Workers
  <2>1. wpc[c] # "idle" /\ wpc[c] # "running"
    BY <1>5, ProcessesAreClients DEF StoreRaises
  <2>2. WorkerFits(c)'
    BY <1>1, <1>3, <1>5, <2>1 DEF ExecInv, WorkerFits, Busy
  <2> QED BY <1>1, <1>2, <1>3, <1>4, <1>5, <2>2, WorkerMoves
<1>6. CASE c \in Apis
  <2>1. ApiFits(c)'
    BY <1>1, <1>3, <1>6 DEF ExecInv, ApiFits, Busy
  <2> QED BY <1>1, <1>2, <1>3, <1>4, <1>6, <2>1, ApiMoves
<1> QED BY <1>2, <1>5, <1>6, ProcessAssumption

\* A step in which no client makes a call or gets an answer.
LEMMA NoCall ==
  ASSUME ExecInv, UNCHANGED clientVars
  PROVE  \A c \in Clients : /\ Untouched(c)
                            /\ Busy(c)' <=> Busy(c)
                            /\ granted'[c] => phase'[c] = "done"
BY DEF clientVars, Untouched, Busy, ExecInv, GrantEnds

\* The API makes a store call.
LEMMA ApiBegins ==
  ASSUME ExecInv, NEW a \in Apis, NEW point \in {"failing", "deciding"},
         NEW j \in Jobs, NEW op \in HandlerCalls(point, j),
         Begin(a, op), Serves(a, point, j), queue' \in [Jobs -> Nat],
         spent' \in [{"death", "fault", "redelivery"} -> Nat],
         UNCHANGED <<wpc, task, overdue>>
  PROVE  ExecInv' /\ [StoreNext]_storeVars
<1>1. op \in Calls /\ FirstPhase(op) = "read" /\ a \in Clients
  BY HandlerCallsAreCalls, ProcessesAreClients
<1>2. StoreNext
  BY <1>1 DEF StoreNext
<1>3. /\ \A d \in Clients \ {a} : Untouched(d)
      /\ ~ granted'[a]
      /\ \/ phase'[a] = "read" /\ call'[a] = op
         \/ phase'[a] = "done"
  BY <1>1, BeginMoves DEF ExecInv
<1>4. ProcessTypes'
  BY DEF ExecInv, ExecTypeOK, ProcessTypes, Serves, ApiPoints
<1>5. apc'[a] = point /\ ajob'[a] = j
  BY DEF ExecInv, ExecTypeOK, Serves
<1>6. ApiFits(a)'
  BY <1>3, <1>5 DEF ApiFits, Busy
<1>7. \A b \in Apis \ {a} : apc'[b] = apc[b] /\ ajob'[b] = ajob[b]
  BY DEF ExecInv, ExecTypeOK, Serves
<1> QED BY <1>2, <1>3, <1>4, <1>6, <1>7, ApiMoves

\* The API moves on without a call in progress.
LEMMA ApiRests ==
  ASSUME ExecInv, NEW a \in Apis, NEW point \in {"idle", "created"},
         NEW j \in Jobs \cup {Null}, point = "created" => j \in Jobs,
         Serves(a, point, j), ~ Busy(a)', [StoreNext]_storeVars,
         \A d \in Clients \ {a} : Untouched(d),
         granted'[a] => phase'[a] = "done",
         queue' \in [Jobs -> Nat],
         spent' \in [{"death", "fault", "redelivery"} -> Nat],
         UNCHANGED <<wpc, task, overdue>>
  PROVE  ExecInv'
<1>1. ProcessTypes'
  BY DEF ExecInv, ExecTypeOK, ProcessTypes, Serves, ApiPoints
<1>2. apc'[a] = point /\ ajob'[a] = j
  BY DEF ExecInv, ExecTypeOK, Serves
<1>3. ApiFits(a)'
  BY <1>2 DEF ApiFits
<1>4. \A b \in Apis \ {a} : apc'[b] = apc[b] /\ ajob'[b] = ajob[b]
  BY DEF ExecInv, ExecTypeOK, Serves
<1> QED BY <1>1, <1>3, <1>4, ApiMoves

LEMMA ApiActs ==
  ASSUME ExecInv, NEW a \in Apis, ApiNext(a) \/ ApiDies(a)
  PROVE  ExecInv' /\ [StoreNext]_storeVars
<1> DEFINE Ends == ExecInv' /\ [StoreNext]_storeVars
<1>0. a \in Clients /\ (apc[a] # "idle" => ajob[a] \in Jobs)
  BY ProcessesAreClients DEF ExecInv, ApiFits
<1>1. /\ queue \in [Jobs -> Nat]
      /\ spent \in [{"death", "fault", "redelivery"} -> Nat]
  BY DEF ExecInv, ExecTypeOK
<1>2. ASSUME NEW j \in Jobs, CreateJob(a, j) PROVE Ends
  <2>1. [StoreNext]_storeVars
    BY <1>2 DEF CreateJob, StoreNext
  <2>2. UNCHANGED clientVars
    BY <1>2 DEF CreateJob, Create
  <2>3. ~ Busy(a)
    BY <1>2 DEF CreateJob, ExecInv, ApiFits
  <2>4. /\ ~ Busy(a)' /\ (granted'[a] => phase'[a] = "done")
        /\ \A d \in Clients \ {a} : Untouched(d)
    BY <1>0, <2>2, <2>3, NoCall
  <2> QED BY <1>1, <1>2, <2>1, <2>4, ApiRests DEF CreateJob
<1>3. ASSUME NEW j \in Jobs, NEW d \in DecisionRecord, RequestDecision(a, j, d) PROVE Ends
  <2>1. DecisionCall(j, d) \in HandlerCalls("deciding", j)
    BY DEF HandlerCalls
  <2> QED BY <1>3, <2>1, ApiBegins DEF RequestDecision, ExecInv, ExecTypeOK
<1>4. ASSUME DispatchJob(a) PROVE Ends
  <2>1. UNCHANGED storeVars
    BY <1>4 DEF DispatchJob
  <2>2. ~ Busy(a)
    BY <1>4 DEF DispatchJob, ExecInv, ApiFits
  <2>3. queue' \in [Jobs -> Nat]
    <3>1. ajob[a] \in Jobs /\ queue' = [queue EXCEPT ![ajob[a]] = @ + 1]
      BY <1>0, <1>4 DEF DispatchJob
    <3> QED BY <1>1, <3>1
  <2>4. /\ ~ Busy(a)' /\ (granted'[a] => phase'[a] = "done")
        /\ \A d \in Clients \ {a} : Untouched(d)
    BY <1>0, <2>1, <2>2, NoCall DEF storeVars
  <2> QED BY <1>1, <1>4, <2>1, <2>3, <2>4, ApiRests DEF DispatchJob
<1>5. ASSUME DispatchRaises(a) PROVE Ends
  <2>1. UpdateCall(ajob[a], "failed") \in HandlerCalls("failing", ajob[a])
    BY DEF HandlerCalls
  <2>2. ajob[a] \in Jobs
    BY <1>0, <1>5 DEF DispatchRaises
  <2>3. queue' \in [Jobs -> Nat]
    <3>1. PICK sent \in {0, 1} : queue' = [queue EXCEPT ![ajob[a]] = @ + sent]
      BY <1>5 DEF DispatchRaises
    <3> QED BY <2>2, <3>1 DEF ExecInv, ExecTypeOK
  <2>4. spent' \in [{"death", "fault", "redelivery"} -> Nat]
    BY <1>5 DEF DispatchRaises, Spend, ExecInv, ExecTypeOK
  <2> QED BY <1>5, <2>1, <2>2, <2>3, <2>4, ApiBegins DEF DispatchRaises
<1>6. ASSUME Answer(a) PROVE Ends
  <2>1. UNCHANGED storeVars
    BY <1>6 DEF Answer
  <2>2. ~ Busy(a)
    BY <1>6 DEF Answer, Busy
  <2>3. /\ ~ Busy(a)' /\ (granted'[a] => phase'[a] = "done")
        /\ \A d \in Clients \ {a} : Untouched(d)
    BY <1>0, <2>1, <2>2, NoCall DEF storeVars
  <2> QED BY <1>1, <1>6, <2>1, <2>3, ApiRests DEF Answer
<1>7. ASSUME ApiDies(a) PROVE Ends
  <2>1. queue' \in [Jobs -> Nat] /\ spent' \in [{"death", "fault", "redelivery"} -> Nat]
    BY <1>7 DEF ApiDies, Spend, ExecInv, ExecTypeOK
  <2>2. CASE ClientDies(a)
    <3>1. StoreNext
      BY <1>0, <2>2 DEF StoreNext
    <3>2. /\ \A d \in Clients \ {a} : Untouched(d)
          /\ ~ granted'[a] /\ phase'[a] = "idle"
      BY <1>0, <2>2, LeaveMoves DEF ExecInv
    <3>3. ~ Busy(a)'
      BY <3>2 DEF Busy
    <3> QED BY <1>7, <2>1, <3>1, <3>2, <3>3, ApiRests DEF ApiDies
  <2>3. CASE phase[a] = "idle" /\ UNCHANGED storeVars
    <3>1. ~ Busy(a)
      BY <2>3 DEF Busy
    <3>2. /\ ~ Busy(a)' /\ (granted'[a] => phase'[a] = "done")
          /\ \A d \in Clients \ {a} : Untouched(d)
      BY <1>0, <2>3, <3>1, NoCall DEF storeVars
    <3> QED BY <1>7, <2>1, <2>3, <3>2, ApiRests DEF ApiDies
  <2> QED BY <1>7, <2>2, <2>3 DEF ApiDies
<1> QED BY <1>2, <1>3, <1>4, <1>5, <1>6, <1>7 DEF ApiNext

LEMMA LockTimesOutExec ==
  ASSUME ExecInv, NEW j \in Jobs, LockTimesOut(j)
  PROVE  ExecInv' /\ [StoreNext]_storeVars
<1>1. StoreNext
  BY DEF LockTimesOut, StoreNext
<1>2. StoreInv'
  BY <1>1, StoreInvNext DEF ExecInv
<1>3. /\ phase' = phase /\ call' = call /\ granted' = granted
      /\ UNCHANGED <<queue, wpc, task, apc, ajob, spent>>
  BY DEF LockTimesOut, LockExpires
<1>4. ExecTypeOK'
  BY <1>2, <1>3 DEF LockTimesOut, StoreInv, ExecInv, ExecTypeOK
<1>5. (\A w \in Workers : WorkerFits(w)') /\ (\A a \in Apis : ApiFits(a)') /\ GrantEnds'
  BY <1>3 DEF ExecInv, WorkerFits, ApiFits, GrantEnds, Busy
<1> QED BY <1>1, <1>2, <1>4, <1>5 DEF ExecInv

\* Every step of the composition is a step of the store, or none, and preserves
\* ExecInv.
LEMMA ExecInvNext == ExecInv /\ [ExecNext]_allVars => ExecInv' /\ [StoreNext]_storeVars
<1> SUFFICES ASSUME ExecInv, [ExecNext]_allVars PROVE ExecInv' /\ [StoreNext]_storeVars
  OBVIOUS
<1>1. CASE UNCHANGED allVars
  <2>1. UNCHANGED storeVars /\ UNCHANGED <<queue, wpc, task, overdue, apc, ajob, spent>>
    BY <1>1 DEF allVars, execVars
  <2>2. StoreInv'
    BY <2>1, StoreInvNext DEF ExecInv
  <2>3. phase' = phase /\ call' = call /\ granted' = granted
    BY <2>1 DEF storeVars, clientVars
  <2>4. ExecTypeOK'
    BY <2>1, <2>2 DEF StoreInv, ExecInv, ExecTypeOK
  <2>5. (\A w \in Workers : WorkerFits(w)') /\ (\A a \in Apis : ApiFits(a)') /\ GrantEnds'
    BY <2>1, <2>3 DEF ExecInv, WorkerFits, ApiFits, GrantEnds, Busy
  <2> QED BY <2>1, <2>2, <2>4, <2>5 DEF ExecInv
<1>2. ASSUME NEW a \in Apis, ApiNext(a) \/ ApiDies(a) PROVE ExecInv' /\ [StoreNext]_storeVars
  BY <1>2, ApiActs
<1>3. ASSUME NEW w \in Workers,
             \/ \E j \in Jobs : Deliver(w, j)
             \/ WorkerStep(w) \/ Redeliver(w) \/ WorkerDies(w)
      PROVE  ExecInv' /\ [StoreNext]_storeVars
  BY <1>3, TaskActs, TaskRests, WorkerDiesExec DEF WorkerStep
<1>4. ASSUME NEW c \in Clients, StoreCommand(c) \/ StoreRaises(c)
      PROVE  ExecInv' /\ [StoreNext]_storeVars
  BY <1>4, StoreCommandExec, StoreRaisesExec
<1>5. ASSUME NEW j \in Jobs, LockTimesOut(j) PROVE ExecInv' /\ [StoreNext]_storeVars
  BY <1>5, LockTimesOutExec
<1> QED BY <1>1, <1>2, <1>3, <1>4, <1>5 DEF ExecNext

THEOREM ExecInvariant == ExecSpec => []ExecInv
<1>1. ExecInit => ExecInv
  BY ExecInvInit
<1>2. ExecInv /\ [ExecNext]_allVars => ExecInv'
  BY ExecInvNext
<1> QED BY <1>1, <1>2, PTL DEF ExecSpec

\* Type correctness of the store and of the processes.
THEOREM ExecTypeCorrect == ExecSpec => []ExecTypeOK
<1>1. ExecInv => ExecTypeOK
  BY DEF ExecInv
<1> QED BY <1>1, ExecInvariant, PTL

\* The API and the workers use the store as StoreSpec says clients do, so that all
\* that is proved of the store holds in the production composition.
THEOREM ExecutionUsesStore == ExecSpec => StoreSpec
<1>1. ExecInit => StoreInit
  BY DEF ExecInit
<1>2. ExecInv /\ [ExecNext]_allVars => [StoreNext]_storeVars
  BY ExecInvNext
<1> QED BY <1>1, <1>2, ExecInvariant, PTL DEF ExecSpec, StoreSpec

\* Seen from the jobs' envelopes and logs, the whole composition is JobContract:
\* every operation takes effect at once, and no outcome is written over.
THEOREM ExecutionKeepsContract == ExecSpec => ContractSpec /\ OutcomeIsFinal
BY ExecutionUsesStore, StoreImplementsContract, OutcomeFinalInStore, PTL

-----------------------------------------------------------------------------
\* Who holds the execution lock.

AcquirePhases == {"lock_check", "lock_set", "lock_recheck"}

\* The worker has set its lock and not begun to give it back.
Holds(w) == Executing(w) \/ phase[w] = "lock_recheck"

LocksHeld ==
    /\ \A c \in Clients : phase[c] \in AcquirePhases => call[c].kind = "acquire_execution"
    /\ \A w \in Workers : Holds(w) /\ w \notin overdue => lock[task[w]] = w

\* What a redis command does to the locks: SET NX takes one that is free, and the
\* transaction of an unlock deletes the client's own.
LEMMA LockWrites ==
  ASSUME StoreInv, NEW c \in Clients, StoreStep(c), NEW j \in Jobs
  PROVE  \/ lock'[j] = lock[j]
         \/ lock[j] = Null /\ lock'[j] = c /\ call[c].job = j
         \/ lock[j] = c /\ phase[c] = "unlock_exec"
<1>1. CASE Read(c) \/ ExecRetries(c) \/ ExecCommits(c) \/ LockCheck(c) \/ LockRecheck(c)
           \/ UnlockRead(c)
  BY <1>1 DEF Read, ExecRetries, ExecCommits, LockCheck, LockRecheck, UnlockRead, keys
<1>2. CASE LockSet(c)
  BY <1>2 DEF LockSet, StoreInv, StoreTypeOK
<1>3. CASE UnlockExec(c)
  BY <1>3 DEF UnlockExec, StoreInv, StoreTypeOK, UnlockIsOwn
<1> QED BY <1>1, <1>2, <1>3 DEF StoreStep

\* A command that makes c the holder, or grants the execution, takes the lock or
\* finds it taken by c itself.
LEMMA HoldMoves ==
  ASSUME StoreInv, NEW c \in Clients, StoreStep(c), call[c].job \in Jobs
  PROVE  /\ phase'[c] \in AcquirePhases => phase[c] \in AcquirePhases
         /\ phase'[c] = "lock_recheck" => lock'[call[c].job] = c
         /\ granted'[c] => granted[c] \/ phase[c] = "lock_recheck"
         /\ phase[c] # "unlock_exec" /\ phase[c] # "lock_set" => lock' = lock
<1> USE DEF AcquirePhases
<1>1. CASE Read(c) \/ ExecRetries(c) \/ ExecCommits(c)
  BY <1>1 DEF StoreInv, StoreTypeOK, Read, ExecRetries, ExecCommits, Return, End, Goto, keys
<1>2. CASE LockCheck(c) \/ UnlockRead(c)
  BY <1>2 DEF StoreInv, StoreTypeOK, LockCheck, UnlockRead, End, Goto, keys
<1>3. CASE LockSet(c)
  BY <1>3 DEF StoreInv, StoreTypeOK, LockSet, End, Goto
<1>4. CASE UnlockExec(c)
  BY <1>4 DEF StoreInv, StoreTypeOK, UnlockExec, End, Goto
<1>5. CASE LockRecheck(c)
  BY <1>5 DEF StoreInv, StoreTypeOK, LockRecheck, End, Goto, keys
<1> QED BY <1>1, <1>2, <1>3, <1>4, <1>5 DEF StoreStep

\* Which point of _run_job a lock command belongs to.
LEMMA LockPoints ==
  ASSUME ExecInv, NEW w \in Workers, Busy(w)
  PROVE  /\ wpc[w] = "acquiring" => call[w] = LockCall("acquire_execution", task[w])
         /\ wpc[w] = "releasing" => call[w] = LockCall("release_execution", task[w])
         /\ wpc[w] \in {"starting", "storing_result", "storing_status"}
               => call[w] \in MutationCalls /\ phase[w] \in {"read", "exec"}
         /\ wpc[w] \in {"acquiring", "releasing"} => phase[w] \in LockPhases
         /\ wpc[w] \notin {"idle", "running"} /\ task[w] \in Jobs
         /\ call[w].job = task[w]
<1>1. call[w] \in TaskCalls(wpc[w], task[w]) /\ w \in Clients
      /\ wpc[w] \notin {"idle", "running"} /\ task[w] \in Jobs
  BY ProcessesAreClients DEF ExecInv, WorkerFits
<1>2. phase[w] \in {"read", "exec"} \/ phase[w] \in LockPhases
  BY <1>1 DEF ExecInv, StoreInv, StoreTypeOK, Phases, Busy, LockPhases
<1>3. /\ phase[w] \in {"read", "exec"} => call[w] \in MutationCalls
      /\ phase[w] \in LockPhases => call[w] \in LockCalls
  BY <1>1 DEF ExecInv, StoreInv, CallFits
<1>4. CASE wpc[w] \in {"starting", "storing_result", "storing_status"}
  <2>1. call[w] \in MutationCalls
    BY <1>1, <1>4, TaskCallsAreCalls
  <2>2. call[w] \notin LockCalls
    BY <2>1 DEF MutationCalls, UpdateCalls, ResultCalls, DecisionCalls, LockCalls
  <2>3. call[w].job = task[w]
    BY <1>1, <1>4 DEF TaskCalls, UpdateCall, ResultCall
  <2> QED BY <1>1, <1>2, <1>3, <1>4, <2>1, <2>2, <2>3
<1>5. CASE wpc[w] \in {"acquiring", "releasing"}
  <2>1. /\ call[w] = LockCall(IF wpc[w] = "acquiring" THEN "acquire_execution"
                              ELSE "release_execution", task[w])
        /\ call[w].job = task[w]
    BY <1>1, <1>5 DEF TaskCalls, LockCall
  <2>2. call[w] \notin MutationCalls
    BY <2>1 DEF LockCall, MutationCalls, UpdateCalls, ResultCalls, DecisionCalls
  <2> QED BY <1>1, <1>2, <1>3, <1>5, <2>1, <2>2
<1> QED BY <1>1, <1>4, <1>5 DEF ExecInv, ExecTypeOK, WorkerPoints

\* The part of LocksHeld about one worker.
HoldFits(w) == Holds(w) /\ w \notin overdue => lock[task[w]] = w

\* A worker that takes no part in a step keeps its lock, if the step writes no lock
\* but one that was free or was the acting client's.
LEMMA HoldUntouched ==
  ASSUME ExecInv, NEW v \in Workers, HoldFits(v), Untouched(v),
         wpc'[v] = wpc[v], task'[v] = task[v],
         v \in overdue' <=> v \in overdue,
         \A j \in Jobs : lock[j] = v => lock'[j] = v
  PROVE  HoldFits(v)'
<1>1. Holds(v)' <=> Holds(v)
  BY DEF Holds, Executing, Untouched
<1>2. Holds(v) => task[v] \in Jobs
  BY DEF Holds, Executing, ExecInv, WorkerFits, Busy
<1> QED BY <1>1, <1>2 DEF HoldFits

\* Workers never hold a lock in the name of Null.
LEMMA WorkersAreSomebody == \A w \in Workers : w # Null
BY ProcessesAreClients, ClientAssumption

LEMMA StoreCommandHolds ==
  ASSUME ExecInv, LocksHeld, NEW c \in Clients, StoreCommand(c)
  PROVE  LocksHeld'
<1>1. StoreStep(c) /\ UNCHANGED <<queue, wpc, task, overdue, apc, ajob, spent>>
  BY DEF StoreCommand, execVars
<1>2. /\ Busy(c)
      /\ \A d \in Clients \ {c} : Untouched(d)
      /\ phase'[c] = "done" \/ GoesOn(c)
  BY <1>1, StoreStepMoves DEF ExecInv
<1>3. call[c].job \in Jobs
  BY <1>2, CallKinds
     DEF ExecInv, StoreInv, StoreTypeOK, CallFits, Busy, Phases, LockPhases, MutationCalls, Calls
<1>4. /\ phase'[c] \in AcquirePhases => phase[c] \in AcquirePhases
      /\ phase'[c] = "lock_recheck" => lock'[call[c].job] = c
      /\ granted'[c] => granted[c] \/ phase[c] = "lock_recheck"
      /\ phase[c] # "unlock_exec" /\ phase[c] # "lock_set" => lock' = lock
  BY <1>1, <1>3, HoldMoves DEF ExecInv
<1>5. \A d \in Clients : phase'[d] \in AcquirePhases => call'[d].kind = "acquire_execution"
  BY <1>2, <1>4 DEF LocksHeld, Untouched, GoesOn, AcquirePhases
<1>6. ASSUME NEW v \in Workers, v # c PROVE HoldFits(v)'
  <2>1. \A j \in Jobs : lock[j] = v => lock'[j] = v
    BY <1>1, <1>6, LockWrites, WorkersAreSomebody DEF ExecInv
  <2> QED BY <1>1, <1>2, <1>6, <2>1, HoldUntouched, ProcessesAreClients
          DEF LocksHeld, HoldFits
<1>7. ASSUME c \in Workers, Holds(c)', c \notin overdue PROVE lock'[task[c]] = c
  <2>1. /\ wpc[c] = "acquiring" => call[c] = LockCall("acquire_execution", task[c])
        /\ wpc[c] = "releasing" => call[c] = LockCall("release_execution", task[c])
        /\ wpc[c] \in {"starting", "storing_result", "storing_status"}
               => phase[c] \in {"read", "exec"}
        /\ wpc[c] \notin {"idle", "running"} /\ call[c].job = task[c]
    BY <1>2, <1>7, LockPoints
  <2>2. CASE phase'[c] = "lock_recheck"
    BY <1>4, <2>1, <2>2
  <2>3. CASE Executing(c)' /\ wpc[c] \in {"starting", "storing_result", "storing_status"}
    BY <1>4, <1>7, <2>1, <2>3 DEF LocksHeld, Holds, Executing
  <2>4. CASE wpc[c] = "acquiring" /\ granted'[c]
    <3>1. ~ granted[c]
      BY <1>2 DEF ExecInv, GrantEnds, Busy
    <3> QED BY <1>4, <1>7, <2>4, <3>1 DEF LocksHeld, Holds
  <2> QED BY <1>1, <1>7, <2>1, <2>2, <2>3, <2>4 DEF Holds, Executing
<1> QED BY <1>1, <1>5, <1>6, <1>7 DEF LocksHeld, HoldFits

\* A worker step in which no key is written, and after which w holds the lock only
\* if it did before.
LEMMA WorkerHolds ==
  ASSUME ExecInv, LocksHeld, NEW w \in Workers, lock' = lock,
         \A d \in Clients \ {w} : Untouched(d),
         \A v \in Workers \ {w} :
            wpc'[v] = wpc[v] /\ task'[v] = task[v] /\ (v \in overdue' <=> v \in overdue),
         Holds(w)' => Holds(w) /\ task'[w] = task[w] /\ (w \in overdue' <=> w \in overdue),
         phase'[w] \in AcquirePhases => call'[w].kind = "acquire_execution"
  PROVE  LocksHeld'
<1>1. \A d \in Clients : phase'[d] \in AcquirePhases => call'[d].kind = "acquire_execution"
  BY DEF LocksHeld, Untouched
<1>2. ASSUME NEW v \in Workers PROVE HoldFits(v)'
  <2>1. CASE v = w
    BY <2>1 DEF LocksHeld, HoldFits
  <2>2. CASE v # w
    BY <1>2, <2>2, HoldUntouched, ProcessesAreClients DEF LocksHeld, HoldFits
  <2> QED BY <2>1, <2>2
<1> QED BY <1>1, <1>2 DEF LocksHeld, HoldFits

\* The call a task begins makes a lock command only to acquire or release it.
LEMMA TaskBeginHolds ==
  ASSUME ExecInv, LocksHeld, NEW w \in Workers, NEW point \in WorkerPoints,
         NEW j \in Jobs, NEW op \in TaskCalls(point, j),
         Begin(w, op), At(w, point), task' = [task EXCEPT ![w] = j],
         UNCHANGED overdue,
         point \in {"acquiring", "releasing"} \/ (Executing(w) /\ task[w] = j)
  PROVE  LocksHeld'
<1>1. FirstPhase(op) = "lock_check" => op.kind = "acquire_execution"
  BY DEF FirstPhase
<1>2. op \in Calls /\ w \in Clients
  BY TaskCallsAreCalls, ProcessesAreClients
<1>3. /\ \A d \in Clients \ {w} : Untouched(d)
      /\ ~ granted'[w]
      /\ \/ phase'[w] = FirstPhase(op) /\ call'[w] = op
         \/ phase'[w] = "done"
  BY <1>2, BeginMoves DEF ExecInv
<1>4. FirstPhase(op) \in {"read", "lock_check", "unlock_read"}
  BY <1>2, CallKinds
<1>5. wpc'[w] = point /\ task'[w] = j
      /\ \A v \in Workers \ {w} : wpc'[v] = wpc[v] /\ task'[v] = task[v]
  BY DEF ExecInv, ExecTypeOK, At
<1>6. phase'[w] \in AcquirePhases => call'[w].kind = "acquire_execution"
  BY <1>1, <1>2, <1>3, <1>4 DEF AcquirePhases
<1>7. Holds(w)' => Holds(w) /\ task'[w] = task[w]
  BY <1>3, <1>4, <1>5 DEF Holds, Executing
<1>8. lock' = lock
  BY DEF Begin, keys
<1> QED BY <1>3, <1>5, <1>6, <1>7, <1>8, WorkerHolds

LEMMA TaskActsHold ==
  ASSUME ExecInv, LocksHeld, NEW w \in Workers,
         \/ \E j \in Jobs : Deliver(w, j)
         \/ StartTask(w)
         \/ \E r \in ResultStatus : RunReturns(w, r)
         \/ \E s \in {"expired", "failed"} : RunRaises(w, s)
         \/ ReleaseLock(w)
  PROVE  LocksHeld'
<1>1. ASSUME wpc[w] # "idle"
      PROVE  task[w] \in Jobs /\ (UNCHANGED task => task' = [task EXCEPT ![w] = task[w]])
  BY <1>1 DEF ExecInv, WorkerFits, ExecTypeOK
<1>2. ASSUME NEW j \in Jobs, Deliver(w, j) PROVE LocksHeld'
  <2>1. LockCall("acquire_execution", j) \in TaskCalls("acquiring", j)
    BY DEF TaskCalls
  <2> QED BY <1>2, <2>1, TaskBeginHolds DEF Deliver, WorkerPoints
<1>3. ASSUME StartTask(w) PROVE LocksHeld'
  <2>1. UpdateCall(task[w], "running") \in TaskCalls("starting", task[w])
    BY DEF TaskCalls
  <2> QED BY <1>1, <1>3, <2>1, TaskBeginHolds DEF StartTask, WorkerPoints, Executing
<1>4. ASSUME NEW r \in ResultStatus, RunReturns(w, r) PROVE LocksHeld'
  <2>1. ResultCall(task[w], r) \in TaskCalls("storing_result", task[w])
    BY DEF TaskCalls
  <2> QED BY <1>1, <1>4, <2>1, TaskBeginHolds DEF RunReturns, WorkerPoints, Executing
<1>5. ASSUME NEW s \in {"expired", "failed"}, RunRaises(w, s) PROVE LocksHeld'
  <2>1. UpdateCall(task[w], s) \in TaskCalls("storing_status", task[w])
    BY DEF TaskCalls
  <2> QED BY <1>1, <1>5, <2>1, TaskBeginHolds DEF RunRaises, WorkerPoints, Executing
<1>6. ASSUME ReleaseLock(w) PROVE LocksHeld'
  <2>1. LockCall("release_execution", task[w]) \in TaskCalls("releasing", task[w])
    BY DEF TaskCalls
  <2> QED BY <1>1, <1>6, <2>1, TaskBeginHolds DEF ReleaseLock, WorkerPoints
<1> QED BY <1>2, <1>3, <1>4, <1>5, <1>6

\* The other steps of a worker.
LEMMA TaskRestsHold ==
  ASSUME ExecInv, LocksHeld, NEW w \in Workers,
         SkipTask(w) \/ RunOrchestrator(w) \/ FinishTask(w) \/ Redeliver(w) \/ WorkerDies(w)
  PROVE  LocksHeld'
<1>1. w \in Clients
  BY ProcessesAreClients
<1>2. ASSUME Acknowledge(w), lock' = lock, phase'[w] \in {"idle", "done", "raised"},
             \A d \in Clients \ {w} : Untouched(d)
      PROVE  LocksHeld'
  <2>1. /\ wpc'[w] = "idle"
        /\ \A v \in Workers \ {w} :
              wpc'[v] = wpc[v] /\ task'[v] = task[v] /\ (v \in overdue' <=> v \in overdue)
    BY <1>2 DEF Acknowledge, At, ExecInv, ExecTypeOK
  <2>2. ~ Holds(w)' /\ phase'[w] \notin AcquirePhases
    BY <1>2, <2>1 DEF Holds, Executing, AcquirePhases
  <2> QED BY <1>2, <2>1, <2>2, WorkerHolds
<1>3. ASSUME SkipTask(w) \/ FinishTask(w) PROVE LocksHeld'
  <2>1. UNCHANGED storeVars /\ Acknowledge(w)
    BY <1>3 DEF SkipTask, FinishTask
  <2>2. lock' = lock /\ phase' = phase /\ \A d \in Clients : Untouched(d)
    BY <2>1, NoCall DEF storeVars, keys, clientVars
  <2>3. phase'[w] \in {"idle", "done", "raised"}
    BY <1>3, <2>2 DEF SkipTask, FinishTask
  <2> QED BY <1>2, <2>1, <2>2, <2>3
<1>4. ASSUME WorkerDies(w) PROVE LocksHeld'
  <2>1. Acknowledge(w) /\ ClientDies(w)
    BY <1>4 DEF WorkerDies
  <2>2. phase'[w] = "idle" /\ \A d \in Clients \ {w} : Untouched(d)
    BY <1>1, <2>1, LeaveMoves DEF ExecInv
  <2>3. lock' = lock
    BY <2>1 DEF ClientDies, keys
  <2> QED BY <1>2, <2>1, <2>2, <2>3
<1>5. ASSUME RunOrchestrator(w) \/ Redeliver(w) PROVE LocksHeld'
  <2>1. /\ lock' = lock /\ phase' = phase /\ call' = call
        /\ \A d \in Clients : Untouched(d)
    BY <1>5, NoCall DEF RunOrchestrator, Redeliver, storeVars, keys, clientVars
  <2>2. task' = task /\ overdue' = overdue /\ \A v \in Workers \ {w} : wpc'[v] = wpc[v]
    BY <1>5 DEF RunOrchestrator, Redeliver, At, ExecInv, ExecTypeOK
  <2>3. Holds(w)' => Holds(w)
    BY <1>1, <1>5, <2>1
       DEF RunOrchestrator, Redeliver, At, Holds, Executing, Untouched, ExecInv, ExecTypeOK
  <2>4. phase'[w] \in AcquirePhases => call'[w].kind = "acquire_execution"
    BY <1>1, <2>1 DEF LocksHeld
  <2> QED BY <2>1, <2>2, <2>3, <2>4, WorkerHolds
<1> QED BY <1>3, <1>4, <1>5

\* Steps in which no worker holds a lock afterwards that it did not hold before.
LEMMA StoreRaisesHolds ==
  ASSUME ExecInv, LocksHeld, NEW c \in Clients, StoreRaises(c)
  PROVE  LocksHeld'
<1>1. ConnectionFails(c) /\ UNCHANGED <<queue, wpc, task, overdue, apc, ajob>>
  BY DEF StoreRaises
<1>2. /\ \A d \in Clients \ {c} : Untouched(d)
      /\ ~ granted'[c] /\ phase'[c] = "raised"
  BY <1>1, LeaveMoves DEF ExecInv
<1>3. lock' = lock
  BY <1>1 DEF ConnectionFails, keys
<1>4. \A d \in Clients : phase'[d] \in AcquirePhases => call'[d].kind = "acquire_execution"
  BY <1>2 DEF LocksHeld, Untouched, AcquirePhases
<1>5. ASSUME NEW v \in Workers, v # c PROVE HoldFits(v)'
  BY <1>1, <1>2, <1>3, <1>5, HoldUntouched, ProcessesAreClients DEF LocksHeld, HoldFits
<1>6. ASSUME c \in Workers, Holds(c)' PROVE Holds(c)
  BY <1>1, <1>2, <1>6 DEF Holds, Executing
<1> QED BY <1>1, <1>3, <1>4, <1>5, <1>6 DEF LocksHeld, HoldFits

LEMMA ApiActsHold ==
  ASSUME ExecInv, LocksHeld, NEW a \in Apis, ApiNext(a) \/ ApiDies(a)
  PROVE  LocksHeld'
<1>1. a \in Clients /\ a \notin Workers
  BY ProcessesAreClients
<1>2. ASSUME \A d \in Clients \ {a} : Untouched(d), phase'[a] \notin AcquirePhases,
             lock' = lock, UNCHANGED <<wpc, task, overdue>>
      PROVE  LocksHeld'
  <2>1. \A d \in Clients : phase'[d] \in AcquirePhases => call'[d].kind = "acquire_execution"
    BY <1>2 DEF LocksHeld, Untouched
  <2>2. ASSUME NEW v \in Workers PROVE HoldFits(v)'
    BY <1>1, <1>2, <2>2, HoldUntouched, ProcessesAreClients DEF LocksHeld, HoldFits
  <2> QED BY <2>1, <2>2 DEF LocksHeld, HoldFits
<1>3. ASSUME UNCHANGED clientVars, lock' = lock, UNCHANGED <<wpc, task, overdue>>, ~ Busy(a)
      PROVE  LocksHeld'
  BY <1>1, <1>2, <1>3, NoCall DEF clientVars, Busy, AcquirePhases
<1>4. ASSUME NEW point, NEW j \in Jobs, NEW op \in HandlerCalls(point, j), Begin(a, op),
             UNCHANGED <<wpc, task, overdue>>
      PROVE  LocksHeld'
  <2>1. op \in Calls /\ FirstPhase(op) = "read"
    BY <1>4, HandlerCallsAreCalls
  <2>2. \A d \in Clients \ {a} : Untouched(d)
    BY <1>1, <1>4, <2>1, BeginMoves DEF ExecInv
  <2>3. phase'[a] \notin AcquirePhases
    BY <1>1, <1>4, <2>1, BeginMoves DEF ExecInv, AcquirePhases
  <2>4. lock' = lock
    BY <1>4 DEF Begin, keys
  <2> QED BY <1>2, <1>4, <2>2, <2>3, <2>4
<1>5. ASSUME NEW j \in Jobs, CreateJob(a, j) PROVE LocksHeld'
  BY <1>3, <1>5 DEF CreateJob, Create, ExecInv, ApiFits
<1>6. ASSUME NEW j \in Jobs, NEW d \in DecisionRecord, RequestDecision(a, j, d) PROVE LocksHeld'
  <2>1. DecisionCall(j, d) \in HandlerCalls("deciding", j)
    BY DEF HandlerCalls
  <2> QED BY <1>4, <1>6, <2>1 DEF RequestDecision
<1>7. ASSUME DispatchRaises(a) PROVE LocksHeld'
  <2>1. ajob[a] \in Jobs /\ UpdateCall(ajob[a], "failed") \in HandlerCalls("failing", ajob[a])
    BY <1>7 DEF DispatchRaises, ExecInv, ApiFits, HandlerCalls
  <2> QED BY <1>4, <1>7, <2>1 DEF DispatchRaises
<1>8. ASSUME DispatchJob(a) \/ Answer(a) PROVE LocksHeld'
  BY <1>3, <1>8 DEF DispatchJob, Answer, storeVars, keys, ExecInv, ApiFits, Busy
<1>9. ASSUME ApiDies(a) PROVE LocksHeld'
  <2>1. CASE ClientDies(a)
    <3>1. phase'[a] = "idle" /\ \A d \in Clients \ {a} : Untouched(d)
      BY <1>1, <2>1, LeaveMoves DEF ExecInv
    <3>2. lock' = lock
      BY <2>1 DEF ClientDies, keys
    <3> QED BY <1>2, <1>9, <3>1, <3>2 DEF ApiDies, AcquirePhases
  <2>2. CASE phase[a] = "idle" /\ UNCHANGED storeVars
    BY <1>3, <1>9, <2>2 DEF ApiDies, storeVars, keys, Busy
  <2> QED BY <1>9, <2>1, <2>2 DEF ApiDies
<1> QED BY <1>5, <1>6, <1>7, <1>8, <1>9 DEF ApiNext

\* The holder of a lock that expires has become overdue, unless it holds it no more.
LEMMA LockTimesOutHolds ==
  ASSUME ExecInv, LocksHeld, NEW j \in Jobs, LockTimesOut(j)
  PROVE  LocksHeld'
<1>1. /\ phase' = phase /\ call' = call /\ granted' = granted /\ wpc' = wpc /\ task' = task
      /\ lock' = [lock EXCEPT ![j] = Null]
  BY DEF LockTimesOut, LockExpires
<1>2. ASSUME NEW v \in Workers, Holds(v)', v \notin overdue' PROVE lock'[task[v]] = v
  <2>1. Holds(v) /\ v \notin overdue /\ lock[task[v]] = v
    BY <1>1, <1>2 DEF LocksHeld, LockTimesOut, Holds, Executing
  <2>2. task[v] # j
    BY <1>2, <2>1 DEF LockTimesOut, Holds
  <2> QED BY <1>1, <2>1, <2>2 DEF ExecInv, StoreInv, StoreTypeOK
<1> QED BY <1>1, <1>2 DEF LocksHeld

LEMMA LocksHeldNext == ExecInv /\ LocksHeld /\ [ExecNext]_allVars => LocksHeld'
<1> SUFFICES ASSUME ExecInv, LocksHeld, [ExecNext]_allVars PROVE LocksHeld'
  OBVIOUS
<1>1. CASE UNCHANGED allVars
  BY <1>1 DEF LocksHeld, Holds, Executing, allVars, execVars, storeVars, keys, clientVars
<1>2. ASSUME NEW a \in Apis, ApiNext(a) \/ ApiDies(a) PROVE LocksHeld'
  BY <1>2, ApiActsHold
<1>3. ASSUME NEW w \in Workers,
             \/ \E j \in Jobs : Deliver(w, j)
             \/ WorkerStep(w) \/ Redeliver(w) \/ WorkerDies(w)
      PROVE  LocksHeld'
  BY <1>3, TaskActsHold, TaskRestsHold DEF WorkerStep
<1>4. ASSUME NEW c \in Clients, StoreCommand(c) \/ StoreRaises(c) PROVE LocksHeld'
  BY <1>4, StoreCommandHolds, StoreRaisesHolds
<1>5. ASSUME NEW j \in Jobs, LockTimesOut(j) PROVE LocksHeld'
  BY <1>5, LockTimesOutHolds
<1> QED BY <1>1, <1>2, <1>3, <1>4, <1>5 DEF ExecNext

LEMMA LocksInvariant == ExecSpec => []LocksHeld
<1>1. ExecInit => LocksHeld
  BY ProcessesAreClients
     DEF ExecInit, StoreInit, LocksHeld, Holds, Executing, AcquirePhases
<1>2. ExecInv /\ LocksHeld /\ [ExecNext]_allVars => LocksHeld'
  BY LocksHeldNext
<1> QED BY <1>1, <1>2, ExecInvariant, PTL DEF ExecSpec

\* An executing worker that has not outlived the time to live of its lock has it in
\* redis, whatever other workers release, die with or time out on.
THEOREM ExecutorsHoldLocks == ExecSpec => []ExecutorHoldsLock
<1>1. LocksHeld => ExecutorHoldsLock
  BY DEF LocksHeld, ExecutorHoldsLock, Holds
<1> QED BY <1>1, LocksInvariant, PTL

\* Two workers execute one job at the same time only if one of them outlived the
\* time to live of its lock, however often its task is delivered.
THEOREM ExecutorIsSole == ExecSpec => []SoleExecutor
<1>1. LocksHeld => SoleExecutor
  BY DEF LocksHeld, SoleExecutor, Holds
<1> QED BY <1>1, LocksInvariant, PTL

-----------------------------------------------------------------------------
\* What a decision in flight knows of its job.

\* An EXEC that succeeds updates the current envelope, which did not refuse it.
LEMMA CommitWrites ==
  ASSUME StoreInv, NEW c \in Clients, ExecCommits(c)
  PROVE  /\ call[c] \in MutationCalls /\ call[c].job \in Jobs
         /\ envelope[call[c].job] \in Envelope /\ envelope[call[c].job] # Null
         /\ ~ Refuses(call[c], envelope[call[c].job])
         /\ envelope' = [envelope EXCEPT ![call[c].job] = Updated(call[c], @)]
         /\ reply'[c] = call[c].record
<1>1. phase[c] = "exec" /\ clean[c]
  BY DEF ExecCommits
<1>2. call[c] \in MutationCalls /\ call[c].job \in Jobs
  BY <1>1, CallKinds DEF StoreInv, CallFits, MutationCalls, Calls
<1>3. /\ seen[c] = envelope[call[c].job] /\ seen[c] \in Envelope
      /\ ~ Refuses(call[c], seen[c]) /\ holder[c] = call[c].record
  BY <1>1 DEF StoreInv, ReadFits, HolderFits, CleanReadIsCurrent
<1>4. envelope' = [envelope EXCEPT ![call[c].job] = Updated(call[c], @)]
  BY <1>2, <1>3 DEF ExecCommits
<1>5. reply'[c] = holder[c]
  BY DEF ExecCommits, Return, StoreInv, StoreTypeOK
<1> QED BY <1>2, <1>3, <1>4, <1>5, NullIsNoRecord

\* An outcome stays: neither a terminal status nor a decision is written over.
LEMMA OutcomeStays ==
  ASSUME StoreInv, [StoreNext]_storeVars, NEW j \in Jobs, envelope[j] # Null
  PROVE  /\ envelope'[j] # Null
         /\ IsTerminal(envelope[j]) =>
               envelope'[j].status = envelope[j].status /\ IsTerminal(envelope'[j])
         /\ envelope[j].decision # Null => envelope'[j].decision = envelope[j].decision
<1>1. CASE \E k \in Jobs : Create(k)
  BY <1>1 DEF Create, StoreInv, StoreTypeOK
<1>2. ASSUME NEW c \in Clients, ExecCommits(c), call[c].job = j
      PROVE  /\ Updated(call[c], envelope[j]) # Null
             /\ IsTerminal(envelope[j]) => Updated(call[c], envelope[j]).status = envelope[j].status
             /\ envelope[j].decision # Null =>
                   Updated(call[c], envelope[j]).decision = envelope[j].decision
  <2>1. call[c] \in MutationCalls /\ envelope[j] \in Envelope /\ ~ Refuses(call[c], envelope[j])
    BY <1>2, CommitWrites
  <2>2. Updated(call[c], envelope[j]) # Null
    BY <2>1, UpdatedEnvelope, NullIsNoRecord
  <2> QED BY <2>1, <2>2
          DEF MutationCalls, UpdateCalls, ResultCalls, DecisionCalls, Refuses, Updated
<1>3. ASSUME NEW c \in Clients, ExecCommits(c)
      PROVE  envelope'[j] = IF call[c].job = j THEN Updated(call[c], envelope[j]) ELSE envelope[j]
  BY <1>3, CommitWrites DEF StoreInv, StoreTypeOK
<1>4. CASE \E c \in Clients : ExecCommits(c)
  BY <1>2, <1>3, <1>4 DEF IsTerminal
<1> QED BY <1>1, <1>4, StepWrites

\* A decision is stored by the call that carries it, and leaves the status alone.
LEMMA DecisionStored ==
  ASSUME StoreInv, [StoreNext]_storeVars, NEW j \in Jobs,
         envelope'[j] # Null, envelope'[j].decision # Null
  PROVE  \/ envelope[j] # Null /\ envelope[j].decision = envelope'[j].decision
         \/ /\ envelope[j] # Null /\ envelope'[j].status = envelope[j].status
            /\ \E c \in Clients : /\ phase[c] = "exec" /\ call[c].job = j
                                  /\ call[c].kind = "record_operator_decision"
                                  /\ envelope'[j].decision = call[c].record
<1>1. CASE \E k \in Jobs : Create(k)
  BY <1>1 DEF Create, NewEnvelope, StoreInv, StoreTypeOK
<1>3. CASE \E c \in Clients : ExecCommits(c)
  <2>1. PICK c \in Clients : ExecCommits(c)
    BY <1>3
  <2>2. /\ envelope' = [envelope EXCEPT ![call[c].job] = Updated(call[c], @)]
        /\ envelope \in [Jobs -> Envelope \cup {Null}]
        /\ envelope[call[c].job] # Null /\ phase[c] = "exec"
    BY <2>1, CommitWrites DEF StoreInv, StoreTypeOK, ExecCommits
  <2>3. CASE call[c].job # j
    BY <2>2, <2>3
  <2>4. CASE call[c].job = j
    <3>1. envelope'[j] = Updated(call[c], envelope[j]) /\ envelope[j] # Null
      BY <2>2, <2>4
    <3>2. CASE call[c].kind = "record_operator_decision"
      <4>1. envelope'[j].decision = call[c].record /\ envelope'[j].status = envelope[j].status
        BY <3>1, <3>2 DEF Updated
      <4> QED BY <2>2, <2>4, <3>1, <3>2, <4>1
    <3>3. CASE call[c].kind # "record_operator_decision"
      BY <3>1, <3>3 DEF Updated
    <3> QED BY <3>2, <3>3
  <2> QED BY <2>3, <2>4
<1> QED BY <1>1, <1>3, StepWrites

\* A decision request is being stored.
Deciding(c) == Busy(c) /\ call[c].kind = "record_operator_decision"

\* Only the API decides, at the point where it serves a decision request.
LEMMA DecidersAreApis ==
  ASSUME ExecInv, NEW c \in Clients, Deciding(c)
  PROVE  /\ c \in Apis /\ apc[c] = "deciding"
         /\ ajob[c] \in Jobs /\ call[c].job = ajob[c]
         /\ phase[c] \in {"read", "exec"}
<1>1. c \notin Workers
  <2> SUFFICES ASSUME c \in Workers PROVE FALSE
    OBVIOUS
  <2>1. call[c] \in TaskCalls(wpc[c], task[c])
    BY DEF Deciding, ExecInv, WorkerFits
  <2> QED BY <2>1 DEF TaskCalls, UpdateCall, ResultCall, LockCall, Deciding
<1>2. c \in Apis /\ call[c] \in HandlerCalls(apc[c], ajob[c])
  BY <1>1, ProcessAssumption DEF Deciding, ExecInv, ApiFits
<1>3. apc[c] = "deciding"
  BY <1>2 DEF HandlerCalls, UpdateCall, Deciding
<1>4. ajob[c] \in Jobs /\ call[c].job = ajob[c]
  <2>1. ajob[c] \in Jobs
    BY <1>2, <1>3 DEF ExecInv, ApiFits
  <2>2. PICK d \in DecisionRecord : call[c] = DecisionCall(ajob[c], d)
    BY <1>2, <1>3 DEF HandlerCalls
  <2> QED BY <2>1, <2>2 DEF DecisionCall
<1>5. call[c] \notin LockCalls
  BY DEF Deciding, LockCalls
<1>6. phase[c] \in {"read", "exec"}
  BY <1>5 DEF ExecInv, StoreInv, StoreTypeOK, CallFits, Deciding, Busy, Phases, LockPhases
<1> QED BY <1>2, <1>3, <1>4, <1>6

LEMMA BeginLeavesOthers ==
  ASSUME StoreInv, NEW c \in Clients, NEW op, Begin(c, op)
  PROVE  \A d \in Clients \ {c} : Untouched(d) /\ (clean'[d] <=> clean[d])
BY DEF StoreInv, StoreTypeOK, Begin, End, Untouched

\* A step of a worker moves no other client.
LEMMA WorkerLeavesOthers ==
  ASSUME ExecInv, NEW w \in Workers,
         \/ \E j \in Jobs : Deliver(w, j)
         \/ WorkerStep(w) \/ Redeliver(w) \/ WorkerDies(w)
  PROVE  \A d \in Clients \ {w} : Untouched(d)
<1>1. w \in Clients
  BY ProcessesAreClients
<1>2. CASE UNCHANGED storeVars
  BY <1>2, NoCall DEF storeVars
<1>3. CASE \E op : Begin(w, op)
  BY <1>1, <1>3, BeginLeavesOthers DEF ExecInv
<1>4. CASE WorkerDies(w)
  BY <1>1, <1>4, LeaveMoves DEF WorkerDies, ExecInv
<1>5. ASSUME WorkerStep(w) PROVE UNCHANGED storeVars \/ \E op : Begin(w, op)
  <2>1. CASE SkipTask(w) \/ RunOrchestrator(w) \/ FinishTask(w)
    BY <2>1 DEF SkipTask, RunOrchestrator, FinishTask
  <2>2. CASE StartTask(w) \/ ReleaseLock(w)
    BY <2>2 DEF StartTask, ReleaseLock
  <2>3. CASE \E r \in ResultStatus : RunReturns(w, r)
    BY <2>3 DEF RunReturns
  <2>4. CASE \E s \in {"expired", "failed"} : RunRaises(w, s)
    BY <2>4 DEF RunRaises
  <2> QED BY <1>5, <2>1, <2>2, <2>3, <2>4 DEF WorkerStep
<1>6. CASE \E j \in Jobs : Deliver(w, j)
  BY <1>3, <1>6 DEF Deliver
<1>7. CASE Redeliver(w)
  BY <1>2, <1>7 DEF Redeliver
<1> QED BY <1>2, <1>3, <1>4, <1>5, <1>6, <1>7

\* A decision in flight was in flight before, or was just requested.
LEMMA DecisionInFlight ==
  ASSUME ExecInv, [ExecNext]_allVars, NEW c \in Clients, Deciding(c)'
  PROVE  \/ Deciding(c) /\ call'[c] = call[c]
         \/ \E j \in Jobs, d \in DecisionRecord :
               RequestDecision(c, j, d) /\ call'[c] = DecisionCall(j, d)
<1> DEFINE Before == Deciding(c) /\ call'[c] = call[c]
<1>0. ExecInv'
  BY ExecInvNext
<1>1. c \in Apis /\ c \notin Workers
  <2> SUFFICES ASSUME c \in Workers PROVE FALSE
    BY ProcessAssumption
  <2>1. call'[c] \in TaskCalls(wpc'[c], task'[c])
    BY <1>0 DEF Deciding, ExecInv, WorkerFits
  <2> QED BY <2>1 DEF TaskCalls, UpdateCall, ResultCall, LockCall, Deciding
<1>2. ASSUME Untouched(c) PROVE Before
  BY <1>2 DEF Untouched, Deciding, Busy
<1>3. CASE UNCHANGED allVars
  BY <1>2, <1>3 DEF Untouched, allVars, storeVars, clientVars
<1>4. ASSUME NEW a \in Apis, ApiNext(a) \/ ApiDies(a)
      PROVE  \/ Before
             \/ \E j \in Jobs, d \in DecisionRecord :
                   RequestDecision(c, j, d) /\ call'[c] = DecisionCall(j, d)
  <2>0. a \in Clients
    BY ProcessesAreClients
  <2>1. ASSUME NEW j \in Jobs, NEW d \in DecisionRecord, RequestDecision(a, j, d), a = c
        PROVE  call'[c] = DecisionCall(j, d)
    <3>1. DecisionCall(j, d) \in Calls
      BY ConstructedCalls DEF Calls
    <3>2. Begin(c, DecisionCall(j, d))
      BY <2>1 DEF RequestDecision
    <3> QED BY <3>1, <3>2, BeginMoves DEF ExecInv, Deciding, Busy
  <2>2. ASSUME NEW j \in Jobs, NEW d \in DecisionRecord, RequestDecision(a, j, d), a # c
        PROVE  Before
    BY <1>2, <2>0, <2>2, BeginLeavesOthers DEF RequestDecision, ExecInv
  <2>3. ASSUME DispatchRaises(a) PROVE Before
    <3>1. Begin(a, UpdateCall(ajob[a], "failed")) /\ ajob[a] \in Jobs
      BY <2>3 DEF DispatchRaises, ExecInv, ApiFits
    <3>2. CASE a = c
      <4>1. UpdateCall(ajob[a], "failed") \in Calls
        BY <3>1, ConstructedCalls DEF Calls, SettableStatus
      <4>2. call'[c] = UpdateCall(ajob[a], "failed") \/ ~ Busy(c)'
        BY <3>1, <3>2, <4>1, BeginMoves DEF ExecInv, Busy
      <4> QED BY <4>2 DEF Deciding, UpdateCall
    <3> QED BY <1>2, <2>0, <3>1, <3>2, BeginLeavesOthers DEF ExecInv
  <2>4. ASSUME UNCHANGED clientVars PROVE Before
    BY <1>2, <2>4, NoCall
  <2>5. ASSUME ApiDies(a) PROVE Before
    <3>1. CASE ClientDies(a)
      BY <1>2, <2>0, <3>1, LeaveMoves DEF ExecInv, Deciding, Busy
    <3> QED BY <2>4, <2>5, <3>1 DEF ApiDies, storeVars
  <2>6. ASSUME (\E j \in Jobs : CreateJob(a, j)) \/ DispatchJob(a) \/ Answer(a) PROVE Before
    BY <2>4, <2>6 DEF CreateJob, Create, DispatchJob, Answer, storeVars
  <2> QED BY <1>4, <2>1, <2>2, <2>3, <2>5, <2>6 DEF ApiNext
<1>5. ASSUME NEW w \in Workers,
             \/ \E j \in Jobs : Deliver(w, j)
             \/ WorkerStep(w) \/ Redeliver(w) \/ WorkerDies(w)
      PROVE  Before
  BY <1>1, <1>2, <1>5, WorkerLeavesOthers
<1>6. ASSUME NEW e \in Clients, StoreCommand(e) \/ StoreRaises(e) PROVE Before
  <2>1. CASE StoreCommand(e)
    BY <1>2, <2>1, StoreStepMoves
       DEF StoreCommand, ExecInv, Deciding, Busy, GoesOn
  <2>2. CASE StoreRaises(e)
    BY <1>2, <2>2, LeaveMoves DEF StoreRaises, ExecInv, Deciding, Busy
  <2> QED BY <1>6, <2>1, <2>2
<1>7. ASSUME NEW j \in Jobs, LockTimesOut(j) PROVE Before
  BY <1>2, <1>7 DEF LockTimesOut, LockExpires, Untouched
<1> QED BY <1>3, <1>4, <1>5, <1>6, <1>7 DEF ExecNext

\* A job about to be decided is terminal, and succeeded when it is to be approved.
Decided ==
    /\ ApprovedOnlySucceeded
    /\ \A c \in Clients : Deciding(c) =>
          /\ envelope[call[c].job] # Null /\ IsTerminal(envelope[call[c].job])
          /\ call[c].record.decision = "approved" =>
                envelope[call[c].job].status = "succeeded"

LEMMA DecidedNext == ExecInv /\ Decided /\ [ExecNext]_allVars => Decided'
<1> SUFFICES ASSUME ExecInv, Decided, [ExecNext]_allVars PROVE Decided'
  OBVIOUS
<1>0. [StoreNext]_storeVars /\ StoreInv
  BY ExecInvNext DEF ExecInv
<1>1. ASSUME NEW j \in Jobs, envelope'[j] # Null, envelope'[j].decision # Null,
             envelope'[j].decision.decision = "approved"
      PROVE  envelope'[j].status = "succeeded"
  <2>1. CASE envelope[j] # Null /\ envelope[j].decision = envelope'[j].decision
    <3>1. envelope[j].status = "succeeded"
      BY <1>1, <2>1 DEF Decided, ApprovedOnlySucceeded
    <3> QED BY <1>0, <2>1, <3>1, OutcomeStays DEF IsTerminal, Terminal
  <2>2. CASE /\ envelope[j] # Null /\ envelope'[j].status = envelope[j].status
             /\ \E c \in Clients : /\ phase[c] = "exec" /\ call[c].job = j
                                   /\ call[c].kind = "record_operator_decision"
                                   /\ envelope'[j].decision = call[c].record
    BY <1>1, <2>2 DEF Decided, Deciding, Busy
  <2> QED BY <1>0, <1>1, <2>1, <2>2, DecisionStored
<1>2. ASSUME NEW c \in Clients, Deciding(c)'
      PROVE  /\ envelope'[call'[c].job] # Null /\ IsTerminal(envelope'[call'[c].job])
             /\ call'[c].record.decision = "approved" =>
                   envelope'[call'[c].job].status = "succeeded"
  <2>1. CASE Deciding(c) /\ call'[c] = call[c]
    <3>1. /\ call[c].job \in Jobs
          /\ envelope[call[c].job] # Null /\ IsTerminal(envelope[call[c].job])
          /\ call[c].record.decision = "approved" => envelope[call[c].job].status = "succeeded"
      BY <2>1, DecidersAreApis DEF Decided
    <3>2. /\ envelope'[call[c].job] # Null /\ IsTerminal(envelope'[call[c].job])
          /\ envelope'[call[c].job].status = envelope[call[c].job].status
      BY <1>0, <3>1, OutcomeStays
    <3> QED BY <2>1, <3>1, <3>2
  <2>2. ASSUME NEW j \in Jobs, NEW d \in DecisionRecord,
               RequestDecision(c, j, d), call'[c] = DecisionCall(j, d)
        PROVE  /\ envelope'[call'[c].job] # Null /\ IsTerminal(envelope'[call'[c].job])
               /\ call'[c].record.decision = "approved" =>
                     envelope'[call'[c].job].status = "succeeded"
    BY <2>2 DEF RequestDecision, Begin, keys, DecisionCall
  <2> QED BY <1>2, <2>1, <2>2, DecisionInFlight
<1> QED BY <1>1, <1>2 DEF Decided, ApprovedOnlySucceeded

LEMMA DecidedInvariant == ExecSpec => []Decided
<1>1. ExecInit => Decided
  BY DEF ExecInit, StoreInit, Decided, ApprovedOnlySucceeded, Deciding, Busy
<1>2. ExecInv /\ Decided /\ [ExecNext]_allVars => Decided'
  BY DecidedNext
<1> QED BY <1>1, <1>2, ExecInvariant, PTL DEF ExecSpec

\* The handler checks what may be approved before the store records the decision,
\* and no worker or other handler makes the check stale.
THEOREM ApprovedSucceeded == ExecSpec => []ApprovedOnlySucceeded
<1>1. Decided => ApprovedOnlySucceeded
  BY DEF Decided
<1> QED BY <1>1, DecidedInvariant, PTL

-----------------------------------------------------------------------------
\* Where the jobs come from that processes and messages are about.

Origins ==
    /\ \A j \in Jobs : queue'[j] > 0 =>
          \/ queue[j] > 0
          \/ \E a \in Apis : apc[a] # "idle" /\ ajob[a] = j
          \/ \E w \in Workers : wpc[w] # "idle" /\ task[w] = j
    /\ \A w \in Workers : wpc'[w] # "idle" =>
          \/ wpc[w] # "idle" /\ task'[w] = task[w]
          \/ task'[w] \in Jobs /\ queue[task'[w]] > 0
    /\ \A a \in Apis : apc'[a] # "idle" =>
          \/ apc[a] # "idle" /\ ajob'[a] = ajob[a]
          \/ ajob'[a] \in Jobs /\ envelope'[ajob'[a]] # Null

LEMMA OriginsNext == ASSUME ExecInv, [ExecNext]_allVars PROVE Origins
<1>1. /\ queue \in [Jobs -> Nat]
      /\ wpc \in [Workers -> WorkerPoints] /\ task \in [Workers -> Jobs \cup {Null}]
      /\ apc \in [Apis -> ApiPoints] /\ ajob \in [Apis -> Jobs \cup {Null}]
      /\ envelope \in [Jobs -> Envelope \cup {Null}]
  BY DEF ExecInv, ExecTypeOK, StoreTypeOK
<1>2. /\ \A a \in Apis : apc[a] # "idle" => ajob[a] \in Jobs
      /\ \A w \in Workers : task[w] # Null => wpc[w] # "idle"
      /\ \A w \in Workers : wpc[w] # "idle" => task[w] \in Jobs
  BY DEF ExecInv, ApiFits, WorkerFits
<1>3. CASE UNCHANGED <<queue, wpc, task, apc, ajob>>
  BY <1>1, <1>3 DEF Origins
<1>4. ASSUME NEW a \in Apis, ApiNext(a) \/ ApiDies(a) PROVE Origins
  <2>1. ASSUME NEW j \in Jobs, CreateJob(a, j) PROVE Origins
    <3>1. envelope'[j] # Null
      BY <1>1, <2>1, NullIsNoRecord DEF CreateJob, Create, NewEnvelope, Envelope, JobStatus
    <3> QED BY <1>1, <2>1, <3>1 DEF Origins, CreateJob, Serves
  <2>2. ASSUME NEW j \in Jobs, NEW d \in DecisionRecord, RequestDecision(a, j, d) PROVE Origins
    <3>1. envelope'[j] # Null
      BY <2>2 DEF RequestDecision, Begin, keys
    <3> QED BY <1>1, <2>2, <3>1 DEF Origins, RequestDecision, Serves
  <2>3. ASSUME DispatchJob(a) PROVE Origins
    BY <1>1, <1>2, <2>3 DEF Origins, DispatchJob, Serves
  <2>4. ASSUME DispatchRaises(a) PROVE Origins
    <3>1. PICK sent \in {0, 1} : queue' = [queue EXCEPT ![ajob[a]] = @ + sent]
      BY <2>4 DEF DispatchRaises
    <3> QED BY <1>1, <1>2, <2>4, <3>1 DEF Origins, DispatchRaises, Serves
  <2>5. ASSUME Answer(a) \/ ApiDies(a) PROVE Origins
    BY <1>1, <2>5 DEF Origins, Answer, ApiDies, Serves
  <2> QED BY <1>4, <2>1, <2>2, <2>3, <2>4, <2>5 DEF ApiNext
<1>5. ASSUME NEW w \in Workers,
             \/ \E j \in Jobs : Deliver(w, j)
             \/ WorkerStep(w) \/ Redeliver(w) \/ WorkerDies(w)
      PROVE  Origins
  <2>1. ASSUME NEW j \in Jobs, Deliver(w, j) PROVE Origins
    BY <1>1, <2>1 DEF Origins, Deliver, At
  <2>2. ASSUME WorkerStep(w) PROVE Origins
    <3>1. /\ UNCHANGED <<queue, apc, ajob>>
          /\ \/ wpc[w] # "idle" /\ (\E point : At(w, point)) /\ task' = task
             \/ Acknowledge(w)
      BY <2>2 DEF WorkerStep, SkipTask, StartTask, RunOrchestrator, RunReturns, RunRaises,
                  ReleaseLock, FinishTask
    <3> QED BY <1>1, <3>1 DEF Origins, At, Acknowledge
  <2>3. ASSUME Redeliver(w) PROVE Origins
    BY <1>1, <1>2, <2>3 DEF Origins, Redeliver
  <2>4. ASSUME WorkerDies(w) PROVE Origins
    <3>1. PICK back \in {0, 1} : queue' = [queue EXCEPT ![task[w]] = @ + back]
      BY <2>4 DEF WorkerDies
    <3> QED BY <1>1, <1>2, <2>4, <3>1 DEF Origins, WorkerDies, Acknowledge, At
  <2> QED BY <1>5, <2>1, <2>2, <2>3, <2>4
<1>6. ASSUME NEW c \in Clients, StoreCommand(c) \/ StoreRaises(c) PROVE Origins
  BY <1>3, <1>6 DEF StoreCommand, execVars, StoreRaises
<1>7. ASSUME NEW j \in Jobs, LockTimesOut(j) PROVE Origins
  BY <1>3, <1>7 DEF LockTimesOut
<1> QED BY <1>3, <1>4, <1>5, <1>6, <1>7 DEF ExecNext, allVars, execVars

\* Messages, tasks and requests are about jobs that exist.
Existing ==
    /\ \A j \in Jobs : queue[j] > 0 => envelope[j] # Null
    /\ \A w \in Workers : wpc[w] # "idle" => envelope[task[w]] # Null
    /\ \A a \in Apis : apc[a] # "idle" => envelope[ajob[a]] # Null

LEMMA ExistingNext == ExecInv /\ Existing /\ [ExecNext]_allVars => Existing'
<1> SUFFICES ASSUME ExecInv, Existing, [ExecNext]_allVars PROVE Existing'
  OBVIOUS
<1>1. \A j \in Jobs : envelope[j] # Null => envelope'[j] # Null
  BY ExecInvNext, OutcomeStays DEF ExecInv
<1>2. /\ \A w \in Workers : wpc[w] # "idle" => task[w] \in Jobs
      /\ \A a \in Apis : apc[a] # "idle" => ajob[a] \in Jobs
  BY DEF ExecInv, WorkerFits, ApiFits
<1>3. Origins
  BY OriginsNext
<1> QED BY <1>1, <1>2, <1>3 DEF Existing, Origins

LEMMA ExistingInvariant == ExecSpec => []Existing
<1>1. ExecInit => Existing
  BY DEF ExecInit, Existing
<1>2. ExecInv /\ Existing /\ [ExecNext]_allVars => Existing'
  BY ExistingNext
<1> QED BY <1>1, <1>2, ExecInvariant, PTL DEF ExecSpec

-----------------------------------------------------------------------------
\* With one API process, no decision disturbs another.

\* The transaction of a decision succeeds at its first attempt, and the record a
\* request is answered with is the one that is stored.
Undisturbed ==
    /\ \A a \in Apis : Deciding(a) => clean[a] /\ (phase[a] = "read" => holder[a] = Null)
    /\ ReplyIsRecorded

\* A decision call ends with the stored record, or without one.
LEMMA DecisionEnds ==
  ASSUME ExecInv, Undisturbed, NEW a \in Apis, Deciding(a), StoreStep(a),
         phase'[a] = "done", reply'[a] # Null
  PROVE  envelope'[ajob[a]].decision = reply'[a]
<1>1. /\ a \in Clients /\ ajob[a] \in Jobs /\ apc[a] = "deciding"
      /\ call[a].kind = "record_operator_decision" /\ call[a].job = ajob[a]
      /\ phase[a] \in {"read", "exec"}
  BY ProcessesAreClients, DecidersAreApis DEF Deciding
<1>2. CASE Read(a)
  <2>1. phase[a] = "read" /\ holder[a] = Null
    BY <1>2 DEF Read, Undisturbed
  <2>2. CASE envelope[ajob[a]] = Null
    BY <1>1, <1>2, <2>2 DEF Read, Return, ExecInv, StoreInv, StoreTypeOK
  <2>3. CASE envelope[ajob[a]] # Null /\ Refuses(call[a], envelope[ajob[a]])
    <3>1. /\ reply'[a] = HolderAfter(call[a], envelope[ajob[a]], Null)
          /\ envelope' = envelope
      BY <1>1, <1>2, <2>1, <2>3 DEF Read, Return, keys, ExecInv, StoreInv, StoreTypeOK
    <3> QED BY <1>1, <2>3, <3>1 DEF HolderAfter, Refuses
  <2>4. CASE envelope[ajob[a]] # Null /\ ~ Refuses(call[a], envelope[ajob[a]])
    BY <1>1, <1>2, <2>4 DEF Read, Goto, ExecInv, StoreInv, StoreTypeOK
  <2> QED BY <2>2, <2>3, <2>4
<1>3. CASE ExecCommits(a)
  <2>1. /\ envelope' = [envelope EXCEPT ![ajob[a]] = Updated(call[a], @)]
        /\ reply'[a] = call[a].record
    BY <1>1, <1>3, CommitWrites DEF ExecInv
  <2> QED BY <1>1, <2>1 DEF Updated, ExecInv, StoreInv, StoreTypeOK
<1>4. CASE ExecRetries(a)
  BY <1>4 DEF Undisturbed, ExecRetries
<1> QED BY <1>1, <1>2, <1>3, <1>4
        DEF StoreStep, LockCheck, LockSet, LockRecheck, UnlockRead, UnlockExec

\* Nobody else writes a key that a decision call watches.
LEMMA DecisionStaysClean ==
  ASSUME ExecInv, Decided, \A a, b \in Apis : a = b, NEW c \in Clients, StoreStep(c),
         NEW a \in Apis, Deciding(a), a # c, clean[a]
  PROVE  clean'[a]
<1>1. /\ a \in Clients /\ call[a].job \in Jobs
      /\ envelope[call[a].job] # Null /\ IsTerminal(envelope[call[a].job])
  BY ProcessesAreClients, DecidersAreApis DEF Decided
<1>2. phase[a] \in {"read", "exec"}
  BY <1>1, DecidersAreApis
<1>3. clean \in [Clients -> BOOLEAN]
  BY DEF ExecInv, StoreInv, StoreTypeOK
<1>4. CASE ExecCommits(c)
  <2>1. call[c].job # call[a].job
    <3> SUFFICES ASSUME call[c].job = call[a].job PROVE FALSE
      OBVIOUS
    <3>1. call[c] \in MutationCalls /\ ~ Refuses(call[c], envelope[call[c].job])
      BY <1>4, CommitWrites DEF ExecInv
    <3>2. call[c].kind = "record_operator_decision"
      BY <1>1, <3>1 DEF MutationCalls, UpdateCalls, ResultCalls, DecisionCalls, Refuses
    <3>3. c \in Apis
      BY <1>4, <3>2, DecidersAreApis DEF Deciding, Busy, ExecCommits
    <3> QED BY <3>3
  <2> QED BY <1>1, <1>3, <1>4, <2>1 DEF ExecCommits, WatchesJob
<1>5. CASE LockSet(c) \/ UnlockExec(c)
  BY <1>1, <1>2, <1>3, <1>5 DEF LockSet, UnlockExec, DirtyLock, WatchesLock
<1>6. CASE Read(c) \/ ExecRetries(c) \/ LockCheck(c) \/ LockRecheck(c) \/ UnlockRead(c)
  BY <1>1, <1>3, <1>6 DEF Read, ExecRetries, LockCheck, LockRecheck, UnlockRead
<1> QED BY <1>4, <1>5, <1>6 DEF StoreStep

\* In the next state a decision call has what it needs, whoever moved.
LEMMA DecisionsUndisturbed ==
  ASSUME ExecInv, Decided, Undisturbed, \A a, b \in Apis : a = b, [ExecNext]_allVars,
         NEW a \in Apis, Deciding(a)'
  PROVE  clean'[a] /\ (phase'[a] = "read" => holder'[a] = Null)
<1> DEFINE Fits == clean'[a] /\ (phase'[a] = "read" => holder'[a] = Null)
<1>0. a \in Clients
  BY ProcessesAreClients
<1>1. clean \in [Clients -> BOOLEAN] /\ holder \in [Clients -> DecisionRecord \cup {Null}]
  BY DEF ExecInv, StoreInv, StoreTypeOK
<1>2. ASSUME NEW j \in Jobs, NEW d \in DecisionRecord, RequestDecision(a, j, d)
      PROVE  Fits
  <2>1. Begin(a, DecisionCall(j, d)) /\ FirstPhase(DecisionCall(j, d)) = "read"
    BY <1>2, ConstructedCalls DEF RequestDecision
  <2>2. holder' = holder /\ clean'[a]
    BY <1>0, <1>1, <2>1 DEF Begin
  <2>3. holder[a] = Null
    BY <1>0, <2>1 DEF Begin, ExecInv, StoreInv, HolderFits
  <2> QED BY <2>2, <2>3
<1>3. ASSUME Deciding(a) PROVE Fits
  <2>0. clean[a] /\ (phase[a] = "read" => holder[a] = Null)
    BY <1>3 DEF Undisturbed
  <2>1. ASSUME Untouched(a), clean'[a] PROVE Fits
    BY <2>0, <2>1 DEF Untouched
  <2>2. ASSUME NEW c \in Clients, StoreStep(c), c # a PROVE Fits
    BY <1>0, <1>3, <2>0, <2>1, <2>2, StoreStepMoves, DecisionStaysClean DEF ExecInv
  <2>3. ASSUME StoreStep(a) PROVE Fits
    <3>1. phase'[a] \in {"read", "exec"} /\ phase[a] \in {"read", "exec"}
      BY <1>0, <1>3, <2>3, StoreStepMoves, DecidersAreApis
         DEF ExecInv, Deciding, Busy, GoesOn, LockPhases
    <3>2. Read(a)
      BY <1>0, <2>0, <2>3, <3>1
         DEF StoreStep, ExecCommits, ExecRetries, Return, End, ExecInv, StoreInv, StoreTypeOK,
             LockCheck, LockSet, LockRecheck, UnlockRead, UnlockExec
    <3>3. phase'[a] = "exec" /\ clean' = clean
      BY <1>0, <3>1, <3>2 DEF Read, Return, End, Goto, ExecInv, StoreInv, StoreTypeOK
    <3> QED BY <2>0, <3>3
  <2>4. ASSUME NEW c \in Clients, \E op : Begin(c, op) PROVE Fits
    <3>1. a # c
      BY <1>3, <2>4 DEF Begin, Deciding, Busy
    <3> QED BY <1>0, <2>0, <2>1, <2>4, <3>1, BeginLeavesOthers DEF ExecInv
  <2>5. ASSUME NEW c \in Clients, ClientDies(c) \/ ConnectionFails(c) PROVE Fits
    <3>1. a # c
      BY <1>0, <2>5, LeaveMoves DEF ExecInv, Deciding, Busy
    <3>2. clean'[a]
      BY <1>0, <1>1, <2>0, <2>5, <3>1 DEF ClientDies, ConnectionFails
    <3> QED BY <1>0, <2>1, <2>5, <3>1, <3>2, LeaveMoves DEF ExecInv
  <2>6. ASSUME NEW j \in Jobs, LockExpires(j) PROVE Fits
    <3>1. Untouched(a)
      BY <2>6 DEF LockExpires, Untouched
    <3>2. phase[a] \in {"read", "exec"}
      BY <1>0, <1>3, DecidersAreApis
    <3>3. clean'[a]
      BY <1>0, <2>0, <2>6, <3>2 DEF LockExpires, DirtyLock, WatchesLock
    <3> QED BY <2>1, <3>1, <3>3
  <2>7. ASSUME UNCHANGED clientVars PROVE Fits
    BY <2>0, <2>1, <2>7, NoCall, <1>0 DEF clientVars
  <2>8. [StoreNext]_storeVars
    BY ExecInvNext
  <2>9. ASSUME NEW j \in Jobs, Create(j) PROVE Fits
    BY <2>7, <2>9 DEF Create
  <2> QED BY <2>2, <2>3, <2>4, <2>5, <2>6, <2>7, <2>8, <2>9 DEF StoreNext, storeVars
<1> QED BY <1>0, <1>2, <1>3, DecisionInFlight

\* A decision that was answered stays the stored one; a call that ends now ends
\* with the stored one.
LEMMA RepliesRecorded ==
  ASSUME ExecInv, Existing, Undisturbed, \A a, b \in Apis : a = b, [ExecNext]_allVars,
         NEW a \in Apis, apc'[a] = "deciding", phase'[a] = "done", reply'[a] # Null
  PROVE  envelope'[ajob'[a]].decision = reply'[a]
<1> DEFINE Recorded == envelope'[ajob'[a]].decision = reply'[a]
<1>0. a \in Clients /\ a \notin Workers
  BY ProcessesAreClients
<1>1. ASSUME Untouched(a), apc' = apc, ajob' = ajob PROVE Recorded
  <2>1. /\ ajob[a] \in Jobs /\ envelope[ajob[a]] # Null
        /\ envelope[ajob[a]].decision = reply[a] /\ reply[a] # Null
    BY <1>1 DEF ExecInv, ApiFits, Existing, Undisturbed, ReplyIsRecorded, Untouched
  <2> QED BY <1>1, <2>1, ExecInvNext, OutcomeStays DEF ExecInv, Untouched
<1>2. CASE UNCHANGED allVars
  BY <1>1, <1>2 DEF allVars, execVars, storeVars, clientVars, Untouched
<1>3. ASSUME ApiNext(a) \/ ApiDies(a) PROVE FALSE
  <2>1. apc \in [Apis -> ApiPoints] /\ reply \in [Clients -> DecisionRecord \cup {Null}]
    BY DEF ExecInv, StoreInv, StoreTypeOK, ExecTypeOK
  <2>2. ASSUME NEW j \in Jobs, NEW d \in DecisionRecord, RequestDecision(a, j, d) PROVE FALSE
    BY <1>0, <2>1, <2>2 DEF RequestDecision, Begin
  <2>3. ASSUME NEW point, NEW j, Serves(a, point, j) PROVE point = "deciding"
    BY <2>1, <2>3 DEF Serves
  <2> QED BY <1>3, <2>2, <2>3
          DEF ApiNext, CreateJob, DispatchJob, DispatchRaises, Answer, ApiDies
<1>4. ASSUME NEW w \in Workers,
             \/ \E j \in Jobs : Deliver(w, j)
             \/ WorkerStep(w) \/ Redeliver(w) \/ WorkerDies(w)
      PROVE  Recorded
  <2>1. UNCHANGED <<apc, ajob>>
    BY <1>4 DEF Deliver, WorkerStep, SkipTask, StartTask, RunOrchestrator, RunReturns,
                RunRaises, ReleaseLock, FinishTask, Redeliver, WorkerDies
  <2> QED BY <1>0, <1>1, <1>4, <2>1, WorkerLeavesOthers
<1>5. ASSUME NEW c \in Clients, StoreCommand(c) PROVE Recorded
  <2>1. StoreStep(c) /\ apc' = apc /\ ajob' = ajob
    BY <1>5 DEF StoreCommand, execVars
  <2>2. CASE c # a
    BY <1>0, <1>1, <2>1, <2>2, StoreStepMoves DEF ExecInv
  <2>3. CASE c = a
    <3>1. Busy(a)
      BY <1>0, <2>1, <2>3, StoreStepMoves DEF ExecInv
    <3>2. call[a] \in {DecisionCall(ajob[a], d) : d \in DecisionRecord}
      BY <2>1, <3>1 DEF ExecInv, ApiFits, HandlerCalls
    <3>3. Deciding(a)
      BY <3>1, <3>2 DEF Deciding, DecisionCall
    <3> QED BY <2>1, <2>3, <3>3, DecisionEnds
  <2> QED BY <2>2, <2>3
<1>6. ASSUME NEW c \in Clients, StoreRaises(c) PROVE Recorded
  BY <1>0, <1>1, <1>6, LeaveMoves DEF StoreRaises, ExecInv
<1>7. ASSUME NEW j \in Jobs, LockTimesOut(j) PROVE Recorded
  BY <1>1, <1>7 DEF LockTimesOut, LockExpires, Untouched
<1> QED BY <1>2, <1>3, <1>4, <1>5, <1>6, <1>7 DEF ExecNext

\* When one API process serves the operators, the record a decision request is
\* answered with is the stored one.  With two processes it need not be: the
\* record_holder of a retried transaction keeps the record of its first attempt.
THEOREM OneApiRepliesRecorded ==
  ASSUME \A a, b \in Apis : a = b
  PROVE  ExecSpec => []ReplyIsRecorded
<1>1. ExecInit => Undisturbed
  BY ProcessesAreClients
     DEF ExecInit, StoreInit, Undisturbed, ReplyIsRecorded, Deciding, Busy
<1>2. ExecInv /\ Existing /\ Decided /\ Undisturbed /\ [ExecNext]_allVars => Undisturbed'
  BY DecisionsUndisturbed, RepliesRecorded DEF Undisturbed, ReplyIsRecorded
<1>3. Undisturbed => ReplyIsRecorded
  BY DEF Undisturbed
<1> QED BY <1>1, <1>2, <1>3, ExecInvariant, ExistingInvariant, DecidedInvariant, PTL
        DEF ExecSpec

-----------------------------------------------------------------------------
\* As long as nothing died or raised: who will finish a job.

Lossless == spent.death = 0 /\ spent.fault = 0

Created(j) == \E a \in Apis : apc[a] = "created" /\ ajob[a] = j

\* The worker gives its lock back.
Unlocking(w) == phase[w] \in {"unlock_read", "unlock_exec"}

\* The worker executes its task, or still asks whether it may.
Willing(w) == Executing(w) \/ phase[w] \in AcquirePhases

\* The worker is done with its task: an outcome was there before, or was stored.
Settled(w) ==
    \/ wpc[w] \in {"storing_result", "storing_status"} /\ phase[w] = "done"
    \/ wpc[w] = "releasing"
    \/ Unlocking(w)

\* A refused worker may drop its task because the lock is held by a worker that
\* is willing, or by one that unlocks a job which no longer needs a worker.
Carries ==
    /\ \A c \in Clients : phase[c] # "raised"
    /\ \A w \in Workers : Holds(w) => task[w] \in tokens[w]
    /\ \A w \in Workers : Settled(w) => ~ Runnable(task[w])
    /\ \A j \in Jobs : lock[j] # Null =>
          \E w \in Workers : lock[j] = w /\ task[w] = j /\ (Holds(w) \/ Unlocking(w))
    /\ \A j \in Jobs : Runnable(j) =>
          Created(j) \/ queue[j] > 0 \/ \E w \in Workers : task[w] = j /\ Willing(w)

Carried == Lossless => Carries

\* A job is runnable from its creation to its outcome.
LEMMA RunnableBefore ==
  ASSUME StoreInv, [StoreNext]_storeVars, NEW j \in Jobs, Runnable(j)'
  PROVE  Runnable(j) \/ Create(j)
<1>1. CASE envelope[j] # Null
  BY <1>1, OutcomeStays DEF Runnable
<1>2. CASE envelope[j] = Null
  <2>1. ASSUME NEW k \in Jobs, Create(k), k # j PROVE FALSE
    BY <1>2, <2>1 DEF Create, Runnable, StoreInv, StoreTypeOK
  <2>2. ASSUME NEW c \in Clients, ExecCommits(c) PROVE FALSE
    BY <1>2, <2>2, CommitWrites DEF Runnable, StoreInv, StoreTypeOK
  <2> QED BY <1>2, <2>1, <2>2, StepWrites DEF Runnable
<1> QED BY <1>1, <1>2

\* The job of a call that stores an outcome has one when the call is over, its
\* own or an earlier one.
LEMMA OutcomeStored ==
  ASSUME StoreInv, NEW c \in Clients, StoreStep(c), phase[c] \in {"read", "exec"},
         call[c].kind \in {"update_status", "set_result"}, call[c].status \in Terminal,
         phase'[c] = "done", NEW j \in Jobs, call[c].job = j
  PROVE  ~ Runnable(j)'
<1>1. phase \in [Clients -> Phases]
  BY DEF StoreInv, StoreTypeOK
<1>2. CASE Read(c)
  <2>1. envelope' = envelope
    BY <1>2 DEF Read, keys
  <2>2. envelope[j] = Null \/ Refuses(call[c], envelope[j])
    BY <1>1, <1>2 DEF Read, Goto
  <2> QED BY <2>1, <2>2 DEF Refuses, Runnable, IsTerminal
<1>3. CASE ExecCommits(c)
  <2>1. /\ envelope \in [Jobs -> Envelope \cup {Null}]
        /\ envelope' = [envelope EXCEPT ![j] = Updated(call[c], @)]
    BY <1>3, CommitWrites DEF StoreInv, StoreTypeOK
  <2>2. envelope'[j].status = call[c].status
    BY <2>1 DEF Updated
  <2> QED BY <2>2 DEF Runnable, IsTerminal
<1>4. CASE ExecRetries(c)
  BY <1>1, <1>4 DEF ExecRetries, Goto
<1> QED BY <1>2, <1>3, <1>4
        DEF StoreStep, LockCheck, LockSet, LockRecheck, UnlockRead, UnlockExec

\* A step of one worker, or of redis for it.
LEMMA WorkerCarries ==
  ASSUME ExecInv, Carries, NEW w \in Workers, [StoreNext]_storeVars,
         \A d \in Clients \ {w} : Untouched(d),
         \A v \in Workers \ {w} : wpc'[v] = wpc[v] /\ task'[v] = task[v],
         UNCHANGED <<apc, ajob>>,
         \A j \in Jobs : Runnable(j)' => Runnable(j),
         phase'[w] # "raised",
         Holds(w)' => task'[w] \in tokens'[w],
         Settled(w)' => ~ Runnable(task[w])',
         \A j \in Jobs : \/ lock'[j] = lock[j]
                         \/ lock'[j] = Null
                         \/ lock'[j] = w /\ task'[w] = j /\ Holds(w)',
         \A j \in Jobs : lock[j] = w /\ lock'[j] = w =>
            task'[w] = j /\ (Holds(w)' \/ Unlocking(w)'),
         \A j \in Jobs : queue[j] > 0 => queue'[j] > 0 \/ (task'[w] = j /\ Willing(w)'),
         \A j \in Jobs : task[w] = j /\ Willing(w) /\ Runnable(j)' =>
            \/ task'[w] = j /\ Willing(w)'
            \/ \E v \in Workers \ {w} : task[v] = j /\ Willing(v)
  PROVE  Carries'
<1>1. \A v \in Workers \ {w} : /\ Holds(v)' <=> Holds(v)
                               /\ Settled(v)' <=> Settled(v)
                               /\ Unlocking(v)' <=> Unlocking(v)
                               /\ Willing(v)' <=> Willing(v)
                               /\ tokens'[v] = tokens[v]
  BY ProcessesAreClients DEF Untouched, Holds, Settled, Unlocking, Willing, Executing
<1>2. \A c \in Clients : phase'[c] # "raised"
  BY DEF Carries, Untouched
<1>3. \A v \in Workers : Holds(v)' => task'[v] \in tokens'[v]
  BY <1>1 DEF Carries
<1>4. ASSUME NEW v \in Workers, Settled(v)' PROVE ~ Runnable(task[v])'
  <2>1. CASE v = w
    BY <1>4, <2>1
  <2>2. CASE v # w
    <3>1. ~ Runnable(task[v]) /\ task'[v] = task[v]
      BY <1>1, <1>4, <2>2 DEF Carries
    <3>2. task[v] \in Jobs
      BY <1>1, <1>4, <2>2 DEF Settled, Unlocking, ExecInv, WorkerFits, Busy
    <3>3. PICK j \in Jobs : j = task[v]
      BY <3>2
    <3>4. ~ Runnable(j)'
      BY <3>1, <3>3
    <3> QED BY <3>1, <3>3, <3>4 DEF Runnable
  <2> QED BY <2>1, <2>2
<1>5. ASSUME NEW j \in Jobs, lock'[j] # Null
      PROVE  \E v \in Workers : lock'[j] = v /\ task'[v] = j /\ (Holds(v)' \/ Unlocking(v)')
  <2>1. CASE lock'[j] = w
    BY <1>5, <2>1
  <2>2. CASE lock'[j] # w
    <3>1. PICK v \in Workers : lock[j] = v /\ task[v] = j /\ (Holds(v) \/ Unlocking(v))
      BY <1>5, <2>2 DEF Carries
    <3> QED BY <1>1, <1>5, <2>2, <3>1
  <2> QED BY <2>1, <2>2
<1>6. ASSUME NEW j \in Jobs, Runnable(j)'
      PROVE  Created(j)' \/ queue'[j] > 0 \/ \E v \in Workers : task'[v] = j /\ Willing(v)'
  <2>1. CASE Created(j)
    BY <2>1 DEF Created
  <2>2. CASE queue[j] > 0
    BY <2>2
  <2>3. ASSUME NEW v \in Workers, task[v] = j, Willing(v)
        PROVE  \E u \in Workers : task'[u] = j /\ Willing(u)'
    BY <1>1, <1>6, <2>3
  <2> QED BY <1>6, <2>1, <2>2, <2>3 DEF Carries
<1> QED BY <1>2, <1>3, <1>4, <1>5, <1>6 DEF Carries

\* A step in which no worker moves.
LEMMA OthersCarry ==
  ASSUME ExecInv, Existing, Carries,
         \A w \in Workers : Untouched(w), UNCHANGED <<wpc, task>>,
         \A c \in Clients : phase'[c] # "raised",
         \A j \in Jobs : lock'[j] \in {lock[j], Null},
         \A j \in Jobs : Runnable(j)' => Runnable(j) \/ (envelope[j] = Null /\ Created(j)'),
         \A j \in Jobs : Created(j) => Created(j)' \/ queue'[j] > 0,
         \A j \in Jobs : queue[j] > 0 => queue'[j] > 0
  PROVE  Carries'
<1>1. \A v \in Workers : /\ Holds(v)' <=> Holds(v)
                         /\ Settled(v)' <=> Settled(v)
                         /\ Unlocking(v)' <=> Unlocking(v)
                         /\ Willing(v)' <=> Willing(v)
                         /\ tokens'[v] = tokens[v]
  BY DEF Untouched, Holds, Settled, Unlocking, Willing, Executing
<1>2. \A v \in Workers : Holds(v)' => task'[v] \in tokens'[v]
  BY <1>1 DEF Carries
<1>3. ASSUME NEW v \in Workers, Settled(v)' PROVE ~ Runnable(task[v])'
  <2>1. ~ Runnable(task[v]) /\ task'[v] = task[v]
    BY <1>1, <1>3 DEF Carries
  <2>2. task[v] \in Jobs /\ envelope[task[v]] # Null
    BY <1>1, <1>3 DEF Settled, Unlocking, ExecInv, WorkerFits, Busy, Existing
  <2>3. PICK j \in Jobs : j = task[v]
    BY <2>2
  <2>4. ~ Runnable(j)'
    BY <2>1, <2>2, <2>3
  <2> QED BY <2>1, <2>3, <2>4 DEF Runnable
<1>4. ASSUME NEW j \in Jobs, lock'[j] # Null
      PROVE  \E v \in Workers : lock'[j] = v /\ task'[v] = j /\ (Holds(v)' \/ Unlocking(v)')
  <2>1. PICK v \in Workers : lock[j] = v /\ task[v] = j /\ (Holds(v) \/ Unlocking(v))
    BY <1>4 DEF Carries
  <2> QED BY <1>1, <1>4, <2>1
<1>5. ASSUME NEW j \in Jobs, Runnable(j)'
      PROVE  Created(j)' \/ queue'[j] > 0 \/ \E v \in Workers : task'[v] = j /\ Willing(v)'
  <2>1. ASSUME Runnable(j) PROVE Created(j) \/ queue[j] > 0 \/ \E v \in Workers : task[v] = j /\ Willing(v)
    BY <2>1 DEF Carries
  <2> QED BY <1>1, <1>5, <2>1
<1> QED BY <1>2, <1>3, <1>4, <1>5 DEF Carries

\* The only lock a worker has in redis is that of its task.
LEMMA LockOfWorker ==
  ASSUME Carries, NEW w \in Workers, NEW j \in Jobs, lock[j] = w
  PROVE  task[w] = j /\ (Holds(w) \/ Unlocking(w))
BY WorkersAreSomebody DEF Carries

\* _run_job begins a store call.
LEMMA TaskBeginCarries ==
  ASSUME ExecInv, Carries, NEW w \in Workers, NEW point \in WorkerPoints,
         NEW j \in Jobs, NEW op \in TaskCalls(point, j),
         Begin(w, op), At(w, point), task' = [task EXCEPT ![w] = j],
         UNCHANGED <<apc, ajob>>,
         wpc[w] = "idle" => point = "acquiring",
         wpc[w] # "idle" => point # "acquiring" /\ Executing(w) /\ task[w] = j /\ queue' = queue,
         point = "releasing" => ~ Runnable(j),
         \A k \in Jobs \ {j} : queue'[k] = queue[k]
  PROVE  Carries'
<1>1. op \in Calls /\ w \in Clients
  BY TaskCallsAreCalls, ProcessesAreClients
<1>2. /\ ~ Busy(w) /\ ~ granted'[w]
      /\ \A d \in Clients \ {w} : Untouched(d)
      /\ \/ phase'[w] = FirstPhase(op) /\ call'[w] = op
         \/ phase'[w] = "done" /\ op.kind = "release_execution"
  BY <1>1, BeginMoves DEF ExecInv
<1>3. /\ wpc'[w] = point /\ task'[w] = j
      /\ \A v \in Workers \ {w} : wpc'[v] = wpc[v] /\ task'[v] = task[v]
  BY DEF ExecInv, ExecTypeOK, At
<1>4. /\ point = "acquiring" => op.kind = "acquire_execution" /\ FirstPhase(op) = "lock_check"
      /\ point \in {"starting", "storing_result", "storing_status"} =>
            op.kind # "release_execution" /\ FirstPhase(op) = "read"
      /\ point = "releasing" => op.kind = "release_execution" /\ op.job = j
      /\ point \in {"acquiring", "starting", "storing_result", "storing_status", "releasing"}
  <2>1. CASE point = "acquiring"
    BY <2>1 DEF TaskCalls, LockCall, FirstPhase
  <2>2. CASE point = "starting"
    BY <2>2 DEF TaskCalls, UpdateCall, FirstPhase
  <2>3. CASE point = "storing_result"
    BY <2>3 DEF TaskCalls, ResultCall, FirstPhase
  <2>4. CASE point = "storing_status"
    BY <2>4 DEF TaskCalls, UpdateCall, FirstPhase
  <2>5. CASE point = "releasing"
    BY <2>5 DEF TaskCalls, LockCall
  <2> QED BY <2>1, <2>2, <2>3, <2>4, <2>5 DEF TaskCalls
<1>5. FirstPhase(op) \in {"read", "lock_check", "unlock_read"}
  BY <1>1, CallKinds
<1>6. envelope' = envelope /\ lock' = lock /\ [StoreNext]_storeVars
  BY <1>1 DEF Begin, keys, StoreNext
<1>7. wpc[w] = "idle" => ~ Holds(w) /\ ~ Unlocking(w) /\ ~ Willing(w)
  BY <1>2 DEF Holds, Unlocking, Willing, Executing, Busy, AcquirePhases
<1>8. \A k \in Jobs : Runnable(k)' <=> Runnable(k)
  BY <1>6 DEF Runnable
<1>9. phase'[w] # "raised"
  BY <1>2, <1>5
<1>10. Holds(w)' => task'[w] \in tokens'[w]
  <2>1. ASSUME Holds(w)' PROVE point \in {"starting", "storing_result", "storing_status"}
    BY <1>2, <1>3, <1>4, <2>1, <1>5 DEF Holds, Executing
  <2>2. ASSUME point \in {"starting", "storing_result", "storing_status"}
        PROVE  Holds(w) /\ task[w] = j /\ tokens' = tokens
    BY <1>4, <2>2 DEF Begin, Holds
  <2> QED BY <1>3, <2>1, <2>2 DEF Carries
<1>11. Settled(w)' => ~ Runnable(task[w])'
  <2>1. ASSUME Settled(w)' PROVE point = "releasing"
    BY <1>2, <1>3, <1>4, <2>1 DEF Settled, Unlocking
  <2> QED BY <1>3, <1>6, <2>1 DEF Runnable
<1>12. ASSUME NEW k \in Jobs, lock[k] = w PROVE task'[w] = k /\ (Holds(w)' \/ Unlocking(w)')
  <2>1. task[w] = k /\ wpc[w] # "idle" /\ k = j /\ Holds(w)
    BY <1>7, <1>12, LockOfWorker DEF Holds
  <2>2. CASE point = "releasing"
    <3>1. op.job \in tokens[w] /\ op.kind = "release_execution"
      BY <1>4, <2>1, <2>2 DEF Carries
    <3>2. phase'[w] = "unlock_read"
      BY <1>1, <3>1 DEF Begin, FirstPhase, ExecInv, StoreInv, StoreTypeOK
    <3> QED BY <1>3, <2>1, <3>2 DEF Unlocking
  <2>3. CASE point # "releasing"
    BY <1>3, <1>4, <2>1, <2>3 DEF Holds, Executing
  <2> QED BY <2>2, <2>3
<1>13. \A k \in Jobs : queue[k] > 0 => queue'[k] > 0 \/ (task'[w] = k /\ Willing(w)')
  <2>1. CASE wpc[w] = "idle"
    BY <1>2, <1>3, <1>4, <2>1 DEF Willing, AcquirePhases
  <2>2. CASE wpc[w] # "idle"
    BY <2>2
  <2> QED BY <2>1, <2>2
<1>14. ASSUME NEW k \in Jobs, task[w] = k, Willing(w), Runnable(k)'
       PROVE  task'[w] = k /\ Willing(w)'
  <2>1. wpc[w] # "idle" /\ k = j /\ point \in {"starting", "storing_result", "storing_status"}
    BY <1>4, <1>7, <1>8, <1>14
  <2> QED BY <1>3, <2>1 DEF Willing, Executing
<1> QED BY <1>2, <1>3, <1>6, <1>8, <1>9, <1>10, <1>11, <1>12, <1>13, <1>14, WorkerCarries

LEMMA TaskActsCarry ==
  ASSUME ExecInv, Carries, NEW w \in Workers,
         \/ \E j \in Jobs : Deliver(w, j)
         \/ StartTask(w)
         \/ \E r \in ResultStatus : RunReturns(w, r)
         \/ \E s \in {"expired", "failed"} : RunRaises(w, s)
         \/ ReleaseLock(w)
  PROVE  Carries'
<1>0. phase[w] # "raised" /\ queue \in [Jobs -> Nat]
  BY ProcessesAreClients DEF Carries, ExecInv, ExecTypeOK
<1>1. ASSUME wpc[w] # "idle"
      PROVE  task[w] \in Jobs /\ (UNCHANGED task => task' = [task EXCEPT ![w] = task[w]])
  BY <1>1 DEF ExecInv, WorkerFits, ExecTypeOK
<1>2. ASSUME NEW j \in Jobs, Deliver(w, j) PROVE Carries'
  <2>1. LockCall("acquire_execution", j) \in TaskCalls("acquiring", j)
    BY DEF TaskCalls
  <2>2. \A k \in Jobs \ {j} : queue'[k] = queue[k]
    BY <1>0, <1>2 DEF Deliver
  <2> QED BY <1>2, <2>1, <2>2, TaskBeginCarries DEF Deliver, WorkerPoints
<1>3. ASSUME StartTask(w) PROVE Carries'
  <2>1. UpdateCall(task[w], "running") \in TaskCalls("starting", task[w])
    BY DEF TaskCalls
  <2> QED BY <1>1, <1>3, <2>1, TaskBeginCarries DEF StartTask, WorkerPoints, Executing
<1>4. ASSUME NEW r \in ResultStatus, RunReturns(w, r) PROVE Carries'
  <2>1. ResultCall(task[w], r) \in TaskCalls("storing_result", task[w])
    BY DEF TaskCalls
  <2> QED BY <1>1, <1>4, <2>1, TaskBeginCarries DEF RunReturns, WorkerPoints, Executing
<1>5. ASSUME NEW s \in {"expired", "failed"}, RunRaises(w, s) PROVE Carries'
  <2>1. UpdateCall(task[w], s) \in TaskCalls("storing_status", task[w])
    BY DEF TaskCalls
  <2> QED BY <1>1, <1>5, <2>1, TaskBeginCarries DEF RunRaises, WorkerPoints, Executing
<1>6. ASSUME ReleaseLock(w) PROVE Carries'
  <2>1. LockCall("release_execution", task[w]) \in TaskCalls("releasing", task[w])
    BY DEF TaskCalls
  <2>2. Executing(w) /\ Settled(w)
    BY <1>0, <1>6 DEF ReleaseLock, Executing, Settled
  <2>3. ~ Runnable(task[w])
    BY <2>2 DEF Carries
  <2> QED BY <1>1, <1>6, <2>1, <2>2, <2>3, TaskBeginCarries DEF ReleaseLock, WorkerPoints
<1> QED BY <1>2, <1>3, <1>4, <1>5, <1>6

\* The task ends when it is refused or its lock is given back.
LEMMA TaskRestsCarry ==
  ASSUME ExecInv, Existing, Carries, NEW w \in Workers,
         SkipTask(w) \/ RunOrchestrator(w) \/ FinishTask(w) \/ Redeliver(w)
  PROVE  Carries'
<1>1. UNCHANGED <<storeVars, apc, ajob>> /\ w \in Clients
  BY ProcessesAreClients DEF SkipTask, RunOrchestrator, FinishTask, Redeliver
<1>2. /\ \A c \in Clients : Untouched(c)
      /\ envelope' = envelope /\ lock' = lock /\ phase' = phase /\ tokens' = tokens
      /\ granted' = granted /\ [StoreNext]_storeVars
  BY <1>1, NoCall DEF storeVars, keys, clientVars
<1>3. (\A j \in Jobs : Runnable(j)' <=> Runnable(j)) /\ (\A c \in Clients : phase'[c] # "raised")
  BY <1>2 DEF Runnable, Carries
<1>4. CASE SkipTask(w) \/ FinishTask(w)
  <2>1. /\ wpc'[w] = "idle" /\ queue' = queue
        /\ \A v \in Workers \ {w} : wpc'[v] = wpc[v] /\ task'[v] = task[v]
    BY <1>4 DEF SkipTask, FinishTask, Acknowledge, At, ExecInv, ExecTypeOK
  <2>2. ~ Holds(w) /\ ~ Unlocking(w) /\ ~ Willing(w)
    BY <1>1, <1>3, <1>4, <1>2
       DEF SkipTask, FinishTask, Holds, Unlocking, Willing, Executing, AcquirePhases
  <2>3. ~ Holds(w)' /\ ~ Settled(w)'
    BY <1>2, <2>1, <2>2 DEF Holds, Settled, Unlocking, Executing
  <2>4. \A j \in Jobs : lock[j] # w
    BY <2>2, LockOfWorker
  <2> QED BY <1>1, <1>2, <1>3, <2>1, <2>2, <2>3, <2>4, WorkerCarries
<1>5. CASE RunOrchestrator(w)
  <2>1. /\ wpc[w] = "starting" /\ wpc'[w] = "running" /\ task' = task /\ phase[w] = "done"
        /\ \A v \in Workers \ {w} : wpc'[v] = wpc[v]
        /\ queue' = queue
    BY <1>5 DEF RunOrchestrator, At, ExecInv, ExecTypeOK
  <2>2. Holds(w) /\ Holds(w)' /\ Willing(w)' /\ ~ Settled(w)'
    BY <1>2, <2>1 DEF Holds, Executing, Willing, Settled, Unlocking
  <2>3. \A j \in Jobs : lock[j] = w => task[w] = j
    BY LockOfWorker
  <2>4. task'[w] \in tokens'[w]
    BY <1>2, <2>1, <2>2 DEF Carries
  <2> QED BY <1>1, <1>2, <1>3, <2>1, <2>2, <2>3, <2>4, WorkerCarries
<1>6. CASE Redeliver(w)
  <2>1. UNCHANGED <<wpc, task>>
    BY <1>6 DEF Redeliver
  <2>2. \A j \in Jobs : queue[j] > 0 => queue'[j] > 0
    BY <1>6 DEF Redeliver, ExecInv, WorkerFits, ExecTypeOK
  <2>3. \A j \in Jobs : Created(j) => Created(j)'
    BY <1>1 DEF Created
  <2> QED BY <1>2, <1>3, <2>1, <2>2, <2>3, OthersCarry, ProcessesAreClients
<1> QED BY <1>4, <1>5, <1>6

\* A redis command of a mutation: no lock is touched, and a worker that is done
\* with it has stored an outcome or found one.
LEMMA MutationCarries ==
  ASSUME ExecInv, Carries, NEW w \in Workers, StoreStep(w), UNCHANGED execVars,
         wpc[w] \in {"starting", "storing_result", "storing_status"}
  PROVE  Carries'
<1>1. /\ UNCHANGED <<queue, wpc, task, apc, ajob>> /\ w \in Clients /\ [StoreNext]_storeVars
      /\ lock \in [Jobs -> Clients \cup {Null}]
  BY ProcessesAreClients DEF execVars, StoreNext, ExecInv, StoreInv, StoreTypeOK
<1>2. /\ Busy(w) /\ \A d \in Clients \ {w} : Untouched(d)
      /\ phase'[w] = "done" \/ GoesOn(w)
  BY <1>1, StoreStepMoves DEF ExecInv
<1>3. phase[w] \in {"read", "exec"} /\ task[w] \in Jobs /\ call[w].job = task[w]
  BY <1>2, LockPoints
<1>4. phase'[w] \in {"read", "exec", "done"} /\ lock' = lock /\ tokens' = tokens
  <2>1. lock' = lock
    BY <1>1, <1>3, HoldMoves DEF ExecInv
  <2>2. tokens' = tokens
    BY <1>3 DEF StoreStep, Read, ExecCommits, ExecRetries, LockCheck, LockSet, LockRecheck,
                UnlockRead, UnlockExec
  <2> QED BY <1>2, <1>3, <2>1, <2>2 DEF GoesOn, LockPhases
<1>5. \A j \in Jobs : Runnable(j)' => Runnable(j)
  <2>1. UNCHANGED <<envelope>> \/ ExecCommits(w)
    BY <1>3 DEF StoreStep, Read, ExecRetries, LockCheck, LockSet, LockRecheck,
                UnlockRead, UnlockExec, keys
  <2> QED BY <1>1, <2>1, RunnableBefore, CommitWrites DEF ExecInv, Create, Runnable, StoreInv, StoreTypeOK
<1>6. Holds(w) /\ Holds(w)' /\ Willing(w)'
  BY <1>1 DEF Holds, Executing, Willing
<1>7. task'[w] \in tokens'[w]
  BY <1>1, <1>4, <1>6 DEF Carries
<1>8. Settled(w)' => ~ Runnable(task[w])'
  <2> SUFFICES ASSUME Settled(w)' PROVE ~ Runnable(task[w])'
    OBVIOUS
  <2>1. wpc[w] \in {"storing_result", "storing_status"} /\ phase'[w] = "done"
    BY <1>1, <1>4 DEF Settled, Unlocking
  <2>2. call[w].kind \in {"update_status", "set_result"} /\ call[w].status \in Terminal
    <3>1. call[w] \in TaskCalls(wpc[w], task[w])
      BY <1>2 DEF ExecInv, WorkerFits
    <3>2. CASE wpc[w] = "storing_result"
      BY <3>1, <3>2 DEF TaskCalls, ResultCall, ResultStatus
    <3>3. CASE wpc[w] = "storing_status"
      BY <3>1, <3>3 DEF TaskCalls, UpdateCall, Terminal
    <3> QED BY <2>1, <3>2, <3>3
  <2>3. PICK j \in Jobs : j = task[w]
    BY <1>3
  <2>4. ~ Runnable(j)'
    BY <1>1, <1>3, <2>1, <2>2, <2>3, OutcomeStored DEF ExecInv
  <2> QED BY <1>1, <2>3, <2>4 DEF Runnable
<1>9. \A j \in Jobs : lock[j] = w => task'[w] = j
  BY <1>1, LockOfWorker
<1> QED BY <1>1, <1>2, <1>4, <1>5, <1>6, <1>7, <1>8, <1>9, WorkerCarries

\* A redis command of acquire_execution or release_execution.
LEMMA LockCommandCarries ==
  ASSUME ExecInv, LocksHeld, Carries, NEW w \in Workers, StoreStep(w), UNCHANGED execVars,
         wpc[w] \in {"acquiring", "releasing"}
  PROVE  Carries'
<1>1. /\ UNCHANGED <<queue, wpc, task, apc, ajob>> /\ w \in Clients /\ [StoreNext]_storeVars
      /\ lock \in [Jobs -> Clients \cup {Null}] /\ w # Null
      /\ phase \in [Clients -> Phases] /\ granted \in [Clients -> BOOLEAN]
      /\ tokens \in [Clients -> SUBSET Jobs]
  BY ProcessesAreClients, WorkersAreSomebody
     DEF execVars, StoreNext, ExecInv, StoreInv, StoreTypeOK
<1>2. /\ Busy(w) /\ ~ granted[w]
      /\ \A d \in Clients \ {w} : Untouched(d)
      /\ phase'[w] = "done" \/ GoesOn(w)
  BY <1>1, StoreStepMoves DEF ExecInv, GrantEnds, Busy
<1>3. /\ phase[w] \in LockPhases /\ task[w] \in Jobs /\ call[w].job = task[w]
      /\ phase[w] \in AcquirePhases => wpc[w] = "acquiring"
  <2>1. phase[w] \in LockPhases /\ task[w] \in Jobs /\ call[w].job = task[w]
    BY <1>2, LockPoints
  <2>2. wpc[w] = "releasing" => call[w].kind = "release_execution"
    <3>1. wpc[w] = "releasing" => call[w] = LockCall("release_execution", task[w])
      BY <1>2, LockPoints
    <3> QED BY <3>1 DEF LockCall
  <2> QED BY <1>1, <2>1, <2>2 DEF LocksHeld
<1>4. PICK j \in Jobs : j = task[w]
  BY <1>3
<1>5. envelope' = envelope /\ phase'[w] # "raised"
  <2>1. envelope' = envelope
    BY <1>3 DEF StoreStep, Read, ExecCommits, ExecRetries, LockCheck, LockSet, LockRecheck,
                UnlockRead, UnlockExec, keys, LockPhases
  <2>2. phase'[w] # "raised"
    BY <1>2, <1>3 DEF GoesOn, LockPhases
  <2> QED BY <2>1, <2>2
<1>6. \A k \in Jobs : Runnable(k)' <=> Runnable(k)
  BY <1>5 DEF Runnable
<1>7. Runnable(task[w])' <=> Runnable(j)
  BY <1>1, <1>4, <1>5 DEF Runnable
<1>8. wpc[w] = "releasing" => ~ Runnable(j)
  BY <1>4 DEF Carries, Settled
<1>9. \A k \in Jobs : lock[k] = w => task'[w] = k
  BY <1>1, LockOfWorker
<1>10. CASE LockCheck(w)
  <2>1. /\ lock' = lock /\ tokens' = tokens /\ granted' = granted /\ wpc[w] = "acquiring"
        /\ phase'[w] = IF Runnable(j) THEN "lock_set" ELSE "done"
    BY <1>1, <1>3, <1>4, <1>10 DEF AcquirePhases, LockCheck, Goto, End, keys
  <2>2. ~ Holds(w) /\ ~ Unlocking(w) /\ ~ Holds(w)' /\ ~ Settled(w)'
    BY <1>1, <1>2, <1>10, <2>1 DEF Holds, Unlocking, Executing, LockCheck, Settled
  <2>3. Runnable(j) => Willing(w)'
    BY <2>1 DEF Willing, AcquirePhases
  <2>4. \A k \in Jobs : lock[k] # w
    BY <2>2, LockOfWorker
  <2> QED BY <1>1, <1>2, <1>4, <1>5, <1>6, <2>1, <2>2, <2>3, <2>4, WorkerCarries
<1>11. CASE LockSet(w)
  <2>1. /\ granted' = granted /\ wpc[w] = "acquiring"
    BY <1>1, <1>3, <1>4, <1>11 DEF AcquirePhases, LockSet
  <2>2. ~ Holds(w) /\ ~ Unlocking(w)
    BY <1>1, <1>2, <1>11, <2>1 DEF Holds, Unlocking, Executing, LockSet
  <2>3. \A k \in Jobs : lock[k] # w
    BY <2>2, LockOfWorker
  <2>4. CASE lock[j] = Null
    <3>1. /\ phase'[w] = "lock_recheck" /\ lock' = [lock EXCEPT ![j] = w]
          /\ tokens'[w] = tokens[w] \cup {j}
      BY <1>1, <1>3, <1>4, <1>11, <2>4 DEF LockSet, Goto
    <3>2. Holds(w)' /\ Willing(w)' /\ ~ Settled(w)'
      BY <1>1, <2>1, <3>1 DEF Holds, Willing, AcquirePhases, Settled, Unlocking
    <3>3. \A k \in Jobs : lock'[k] = lock[k] \/ (lock'[k] = w /\ task'[w] = k)
      BY <1>1, <1>4, <3>1
    <3> QED BY <1>1, <1>2, <1>4, <1>5, <1>6, <2>3, <3>1, <3>2, <3>3, WorkerCarries
  <2>5. CASE lock[j] # Null
    <3>1. phase'[w] = "done" /\ lock' = lock /\ tokens' = tokens
      BY <1>1, <1>3, <1>4, <1>11, <2>5 DEF LockSet, End
    <3>2. ~ Holds(w)' /\ ~ Settled(w)'
      BY <1>1, <1>2, <2>1, <3>1 DEF Holds, Executing, Settled, Unlocking
    <3>3. PICK v \in Workers : lock[j] = v /\ task[v] = j /\ (Holds(v) \/ Unlocking(v))
      BY <2>5 DEF Carries
    <3>4. v # w
      BY <2>3, <3>3
    <3>5. Runnable(j) => Willing(v)
      BY <3>3 DEF Carries, Settled, Holds, Willing, AcquirePhases
    <3> QED BY <1>1, <1>2, <1>4, <1>5, <1>6, <2>3, <3>1, <3>2, <3>3, <3>4, <3>5, WorkerCarries
  <2> QED BY <2>4, <2>5
<1>12. CASE LockRecheck(w)
  <2>1. lock' = lock /\ wpc[w] = "acquiring"
    BY <1>1, <1>3, <1>4, <1>12 DEF AcquirePhases, LockRecheck, keys
  <2>2. CASE Runnable(j)
    <3>1. phase'[w] = "done" /\ granted'[w] /\ tokens' = tokens
      BY <1>1, <1>3, <1>4, <1>12, <2>2 DEF LockRecheck, End
    <3>2. Holds(w) /\ Holds(w)' /\ Willing(w)' /\ ~ Settled(w)'
      BY <1>1, <1>12, <2>1, <3>1
         DEF Holds, Executing, Willing, Settled, Unlocking, LockRecheck
    <3>3. task'[w] \in tokens'[w]
      BY <1>1, <3>1, <3>2 DEF Carries
    <3> QED BY <1>1, <1>2, <1>4, <1>5, <1>6, <1>9, <2>1, <3>1, <3>2, <3>3, WorkerCarries
  <2>3. CASE ~ Runnable(j)
    <3>1. phase'[w] = "unlock_read" /\ granted' = granted
      BY <1>1, <1>3, <1>4, <1>12, <2>3 DEF LockRecheck, Goto
    <3>2. ~ Holds(w)' /\ Unlocking(w)'
      BY <1>1, <1>2, <2>1, <3>1 DEF Holds, Executing, Unlocking
    <3> QED BY <1>1, <1>2, <1>4, <1>5, <1>6, <1>7, <1>9, <2>1, <2>3, <3>1, <3>2, WorkerCarries
  <2> QED BY <2>2, <2>3
<1>13. CASE UnlockRead(w) \/ UnlockExec(w)
  <2>1. /\ granted' = granted /\ tokens' = tokens /\ Unlocking(w) /\ ~ Runnable(j)
    BY <1>4, <1>13 DEF UnlockRead, UnlockExec, Unlocking, Carries, Settled
  <2>2. ~ Holds(w)'
    BY <1>1, <1>2, <1>3, <1>13, <2>1
       DEF UnlockRead, UnlockExec, Goto, End, Holds, Executing
  <2>3. \A k \in Jobs : lock'[k] = lock[k] \/ lock'[k] = Null
    BY <1>1, <1>13, <1>3, <1>4 DEF UnlockRead, UnlockExec, keys
  <2>4. ASSUME NEW k \in Jobs, lock[k] = w, lock'[k] = w PROVE Unlocking(w)'
    <3>1. k = j
      BY <1>1, <1>4, <1>9, <2>4
    <3> QED BY <1>1, <1>3, <1>4, <1>13, <2>4, <3>1
            DEF UnlockRead, UnlockExec, Goto, Unlocking
  <2> QED BY <1>1, <1>2, <1>4, <1>5, <1>6, <1>7, <1>9, <2>1, <2>2, <2>3, <2>4, WorkerCarries
<1> QED BY <1>3, <1>10, <1>11, <1>12, <1>13
        DEF StoreStep, Read, ExecCommits, ExecRetries, LockPhases

LEMMA StoreCommandCarries ==
  ASSUME ExecInv, Existing, LocksHeld, Carries, NEW c \in Clients, StoreCommand(c)
  PROVE  Carries'
<1>1. StoreStep(c) /\ UNCHANGED execVars /\ [StoreNext]_storeVars
  BY DEF StoreCommand, StoreNext
<1>2. /\ Busy(c) /\ \A d \in Clients \ {c} : Untouched(d)
      /\ phase'[c] = "done" \/ GoesOn(c)
  BY <1>1, StoreStepMoves DEF ExecInv
<1>3. CASE c \in Workers
  BY <1>1, <1>2, <1>3, LockPoints, MutationCarries, LockCommandCarries
     DEF ExecInv, ExecTypeOK, WorkerPoints
<1>4. CASE c \in Apis
  <2>1. call[c] \in MutationCalls
    BY <1>2, <1>4, HandlerCallsAreCalls DEF ExecInv, ApiFits, HandlerCalls
  <2>2. call[c] \notin LockCalls
    BY <2>1 DEF MutationCalls, UpdateCalls, ResultCalls, DecisionCalls, LockCalls
  <2>3. phase[c] \in {"read", "exec"}
    BY <1>2, <2>2 DEF ExecInv, StoreInv, StoreTypeOK, CallFits, Busy, Phases, LockPhases
  <2>4. call[c].job \in Jobs
    BY <2>1, CallKinds DEF MutationCalls, Calls
  <2>5. lock' = lock
    BY <1>1, <2>3, <2>4, HoldMoves DEF ExecInv
  <2>6. phase'[c] # "raised"
    BY <1>2, <2>3 DEF GoesOn, LockPhases
  <2>7. \A d \in Clients : phase'[d] # "raised"
    BY <1>2, <2>6 DEF Untouched, Carries
  <2>8. \A w \in Workers : Untouched(w)
    BY <1>2, <1>4, ProcessesAreClients
  <2>9. UNCHANGED <<envelope>> \/ ExecCommits(c)
    BY <1>1, <2>3 DEF StoreStep, Read, ExecRetries, LockCheck, LockSet, LockRecheck,
                      UnlockRead, UnlockExec, keys
  <2>10. \A j \in Jobs : Runnable(j)' => Runnable(j)
    BY <1>1, <2>9, RunnableBefore, CommitWrites
       DEF ExecInv, Create, Runnable, StoreInv, StoreTypeOK
  <2>11. UNCHANGED <<queue, wpc, task, apc, ajob>>
    BY <1>1 DEF execVars
  <2> QED BY <2>5, <2>7, <2>8, <2>10, <2>11, OthersCarry DEF Created
<1> QED BY <1>3, <1>4, ProcessAssumption

\* The handler of a request: it creates a job, dispatches one, or decides one.
LEMMA ApiActsCarry ==
  ASSUME ExecInv, Existing, Carries, NEW a \in Apis, ApiNext(a), Lossless'
  PROVE  Carries'
<1>1. /\ a \in Clients /\ a \notin Workers
      /\ queue \in [Jobs -> Nat] /\ apc \in [Apis -> ApiPoints] /\ ajob \in [Apis -> Jobs \cup {Null}]
      /\ envelope \in [Jobs -> Envelope \cup {Null}]
      /\ apc[a] # "idle" => ajob[a] \in Jobs
      /\ spent \in [{"death", "fault", "redelivery"} -> Nat]
  BY ProcessesAreClients DEF ExecInv, ExecTypeOK, StoreTypeOK, ApiFits
<1>2. ASSUME NEW j \in Jobs, CreateJob(a, j) PROVE Carries'
  <2>1. /\ UNCHANGED clientVars /\ lock' = lock /\ envelope[j] = Null
        /\ envelope' = [envelope EXCEPT ![j] = NewEnvelope]
        /\ UNCHANGED <<queue, wpc, task>>
        /\ apc[a] = "idle" /\ Serves(a, "created", j)
    BY <1>2 DEF CreateJob, Create
  <2>2. Created(j)' /\ \A k \in Jobs : Created(k) => Created(k)'
    BY <1>1, <2>1 DEF Created, Serves
  <2>3. \A k \in Jobs : Runnable(k)' => Runnable(k) \/ k = j
    BY <1>1, <2>1 DEF Runnable
  <2>4. \A c \in Clients : Untouched(c) /\ phase'[c] # "raised"
    BY <2>1, NoCall DEF clientVars, Carries
  <2> QED BY <2>1, <2>2, <2>3, <2>4, OthersCarry, ProcessesAreClients
<1>3. ASSUME DispatchJob(a) PROVE Carries'
  <2>1. /\ UNCHANGED storeVars /\ UNCHANGED <<wpc, task>>
        /\ apc[a] = "created" /\ Serves(a, "idle", Null)
        /\ queue' = [queue EXCEPT ![ajob[a]] = @ + 1]
    BY <1>3 DEF DispatchJob
  <2>2. /\ envelope' = envelope /\ lock' = lock
        /\ \A c \in Clients : Untouched(c) /\ phase'[c] # "raised"
    BY <2>1, NoCall DEF storeVars, keys, clientVars, Carries
  <2>3. \A j \in Jobs : Runnable(j)' => Runnable(j)
    BY <2>2 DEF Runnable
  <2>4. \A j \in Jobs : queue[j] > 0 => queue'[j] > 0
    BY <1>1, <2>1
  <2>5. queue'[ajob[a]] > 0
    BY <1>1, <2>1
  <2>6. \A j \in Jobs : Created(j) => Created(j)' \/ queue'[j] > 0
    BY <1>1, <2>1, <2>5 DEF Created, Serves
  <2> QED BY <2>1, <2>2, <2>3, <2>4, <2>6, OthersCarry, ProcessesAreClients
<1>4. ASSUME NEW j \in Jobs, NEW d \in DecisionRecord, RequestDecision(a, j, d) PROVE Carries'
  <2>1. /\ Begin(a, DecisionCall(j, d)) /\ UNCHANGED <<queue, wpc, task>>
        /\ apc[a] = "idle" /\ Serves(a, "deciding", j)
    BY <1>4 DEF RequestDecision
  <2>2. DecisionCall(j, d) \in Calls /\ FirstPhase(DecisionCall(j, d)) = "read"
    BY ConstructedCalls DEF Calls
  <2>3. /\ \A c \in Clients \ {a} : Untouched(c)
        /\ phase'[a] # "raised"
    BY <1>1, <2>1, <2>2, BeginMoves DEF ExecInv
  <2>4. \A c \in Clients : phase'[c] # "raised"
    BY <2>3 DEF Untouched, Carries
  <2>5. envelope' = envelope /\ lock' = lock
    BY <2>1 DEF Begin, keys
  <2>6. \A k \in Jobs : Runnable(k)' => Runnable(k)
    BY <2>5 DEF Runnable
  <2>7. \A k \in Jobs : Created(k) => Created(k)'
    BY <1>1, <2>1 DEF Created, Serves
  <2>8. \A w \in Workers : Untouched(w)
    BY <1>1, <2>3, ProcessesAreClients
  <2> QED BY <2>1, <2>4, <2>5, <2>6, <2>7, <2>8, OthersCarry
<1>5. ASSUME DispatchRaises(a) PROVE FALSE
  BY <1>1, <1>5 DEF DispatchRaises, Spend, Lossless
<1>6. ASSUME Answer(a) PROVE Carries'
  <2>1. /\ UNCHANGED storeVars /\ UNCHANGED <<queue, wpc, task>>
        /\ apc[a] # "created" /\ Serves(a, "idle", Null)
    BY <1>6 DEF Answer
  <2>2. /\ envelope' = envelope /\ lock' = lock
        /\ \A c \in Clients : Untouched(c) /\ phase'[c] # "raised"
    BY <2>1, NoCall DEF storeVars, keys, clientVars, Carries
  <2>3. \A j \in Jobs : Runnable(j)' => Runnable(j)
    BY <2>2 DEF Runnable
  <2>4. \A j \in Jobs : Created(j) => Created(j)'
    BY <1>1, <2>1 DEF Created, Serves
  <2> QED BY <2>1, <2>2, <2>3, <2>4, OthersCarry, ProcessesAreClients
<1> QED BY <1>2, <1>3, <1>4, <1>5, <1>6 DEF ApiNext

LEMMA CarriedNext ==
  ExecInv /\ Existing /\ LocksHeld /\ Carried /\ [ExecNext]_allVars => Carried'
<1> SUFFICES ASSUME ExecInv, Existing, LocksHeld, Carried, [ExecNext]_allVars, Lossless'
             PROVE  Carries'
  BY DEF Carried
<1>0. spent \in [{"death", "fault", "redelivery"} -> Nat]
  BY DEF ExecInv, ExecTypeOK
<1>1. ASSUME NEW w \in Workers, WorkerDies(w) PROVE FALSE
  BY <1>0, <1>1 DEF WorkerDies, Spend, Lossless
<1>2. ASSUME NEW a \in Apis, ApiDies(a) PROVE FALSE
  BY <1>0, <1>2 DEF ApiDies, Spend, Lossless
<1>3. ASSUME NEW c \in Clients, StoreRaises(c) PROVE FALSE
  BY <1>0, <1>3 DEF StoreRaises, Spend, Lossless
<1>4. ASSUME NEW a \in Apis, ApiNext(a) PROVE spent' = spent
  <2>1. ~ DispatchRaises(a)
    BY <1>0 DEF DispatchRaises, Spend, Lossless
  <2> QED BY <1>4, <2>1 DEF ApiNext, CreateJob, RequestDecision, DispatchJob, Answer
<1>5. ASSUME NEW w \in Workers, WorkerStep(w) \/ \E j \in Jobs : Deliver(w, j)
      PROVE  spent' = spent
  BY <1>5 DEF Deliver, WorkerStep, SkipTask, StartTask, RunOrchestrator, RunReturns,
              RunRaises, ReleaseLock, FinishTask
<1>6. ASSUME NEW w \in Workers, Redeliver(w)
      PROVE  spent'.death = spent.death /\ spent'.fault = spent.fault
  BY <1>0, <1>6 DEF Redeliver, Spend
<1>7. Carries
  <2>1. ASSUME spent' = spent PROVE Carries
    BY <2>1 DEF Lossless, Carried
  <2>2. ASSUME NEW w \in Workers, Redeliver(w) PROVE Carries
    BY <1>6, <2>2 DEF Lossless, Carried
  <2>3. ASSUME NEW c \in Clients, StoreCommand(c) PROVE spent' = spent
    BY <2>3 DEF StoreCommand, execVars
  <2>4. ASSUME NEW j \in Jobs, LockTimesOut(j) PROVE spent' = spent
    BY <2>4 DEF LockTimesOut
  <2>5. CASE UNCHANGED allVars
    BY <2>1, <2>5 DEF allVars, execVars
  <2> QED BY <1>1, <1>2, <1>3, <1>4, <1>5, <2>1, <2>2, <2>3, <2>4, <2>5 DEF ExecNext
<1>8. CASE UNCHANGED allVars
  <2>1. /\ UNCHANGED clientVars /\ envelope' = envelope /\ lock' = lock
        /\ UNCHANGED <<queue, wpc, task, apc, ajob>>
    BY <1>8 DEF allVars, execVars, storeVars, keys
  <2>2. \A c \in Clients : Untouched(c) /\ phase'[c] # "raised"
    BY <1>7, <2>1, NoCall DEF clientVars, Carries
  <2>3. \A j \in Jobs : (Runnable(j)' => Runnable(j)) /\ (Created(j) => Created(j)')
    BY <2>1 DEF Runnable, Created
  <2> QED BY <1>7, <2>1, <2>2, <2>3, OthersCarry, ProcessesAreClients
<1>9. ASSUME NEW a \in Apis, ApiNext(a) PROVE Carries'
  BY <1>7, <1>9, ApiActsCarry
<1>10. ASSUME NEW w \in Workers,
              (\E j \in Jobs : Deliver(w, j)) \/ WorkerStep(w) \/ Redeliver(w)
       PROVE  Carries'
  BY <1>7, <1>10, TaskActsCarry, TaskRestsCarry DEF WorkerStep
<1>11. ASSUME NEW c \in Clients, StoreCommand(c) PROVE Carries'
  BY <1>7, <1>11, StoreCommandCarries
<1>12. ASSUME NEW j \in Jobs, LockTimesOut(j) PROVE Carries'
  <2>1. /\ phase' = phase /\ call' = call /\ granted' = granted /\ tokens' = tokens
        /\ holder' = holder /\ reply' = reply /\ envelope' = envelope
        /\ lock' = [lock EXCEPT ![j] = Null]
        /\ UNCHANGED <<queue, wpc, task, apc, ajob>>
    BY <1>12 DEF LockTimesOut, LockExpires
  <2>2. \A c \in Clients : Untouched(c) /\ phase'[c] # "raised"
    BY <1>7, <2>1 DEF Untouched, Carries
  <2>3. \A k \in Jobs : /\ Runnable(k)' => Runnable(k)
                        /\ Created(k) => Created(k)'
                        /\ lock'[k] \in {lock[k], Null}
    BY <2>1 DEF Runnable, Created, ExecInv, StoreInv, StoreTypeOK
  <2> QED BY <1>7, <2>1, <2>2, <2>3, OthersCarry, ProcessesAreClients
<1> QED BY <1>1, <1>2, <1>3, <1>8, <1>9, <1>10, <1>11, <1>12 DEF ExecNext

LEMMA CarriedInvariant == ExecSpec => []Carried
<1>1. ExecInit => Carried
  <2> SUFFICES ASSUME ExecInit PROVE Carries
    BY DEF Carried
  <2>1. \A c \in Clients : phase[c] = "idle" /\ ~ granted[c]
    BY DEF ExecInit, StoreInit
  <2>2. \A w \in Workers : ~ Holds(w) /\ ~ Settled(w)
    BY <2>1, ProcessesAreClients
       DEF ExecInit, Holds, Executing, Settled, Unlocking
  <2> QED BY <2>1, <2>2 DEF ExecInit, StoreInit, Carries, Runnable
<1>2. ExecInv /\ Existing /\ LocksHeld /\ Carried /\ [ExecNext]_allVars => Carried'
  BY CarriedNext
<1> QED BY <1>1, <1>2, ExecInvariant, ExistingInvariant, LocksInvariant, PTL DEF ExecSpec

\* As long as no process died and no call raised, a job that is not terminal is
\* being dispatched, waits in the queue or is with a worker: a duplicate delivery
\* that is refused, an expired lock or a redelivery never drops the last task of a
\* job that still needs one.
THEOREM LiveJobsAreCarried == ExecSpec => []LiveJobIsCarried
<1>1. Carried => LiveJobIsCarried
  BY DEF Carried, Lossless, Carries, Created, LiveJobIsCarried
<1> QED BY <1>1, CarriedInvariant, PTL

=============================================================================
