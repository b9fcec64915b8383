---------------------------- MODULE RedisJobStore ----------------------------
(***************************************************************************)
(* RedisJobStore (redis_job_store.py): the job store shared by the API and *)
(* worker processes.  A client executes one store call at a time; between  *)
(* two redis commands of a call every other client may run.                *)
(*                                                                         *)
(* A mutation is an optimistic transaction: WATCH the envelope and the     *)
(* sequence, read them, compute the update, and EXEC; EXEC fails and the   *)
(* transaction is retried when a watched key was written in between.  An   *)
(* execution lock is one key set with NX and a time to live, deleted by a  *)
(* transaction that first checks that the key still holds the own token.   *)
(***************************************************************************)
EXTENDS JobRecord

CONSTANT Clients   \* processes that use the store

\* Every process draws a token of its own; an absent lock is nobody's.
ASSUME ClientAssumption == Null \notin Clients

VARIABLES
    \* the keys of redis
    envelope,   \* envelope[j]: key "job:j", Null when absent
    sequence,   \* sequence[j]: key "job:j:event-sequence"
    events,     \* events[j]: list "job:j:events"
    lock,       \* lock[j]: key "job:j:execution-lock", the holder's token
    \* the call a client executes
    phase,      \* phase[c]: the command the client is about to send
    call,       \* call[c]: the operation and its arguments
    clean,      \* clean[c]: no key watched by c was written since its WATCH
    seen,       \* seen[c]: the envelope the update was computed from
    seenSeq,    \* seenSeq[c]: the sequence read with it
    holder,     \* holder[c]: record_holder[0] of record_operator_decision
    reply,      \* reply[c]: the record a finished decision call returned
    granted,    \* granted[c]: acquire_execution returned True
    tokens      \* tokens[c]: the jobs with an entry in _execution_tokens

keys       == <<envelope, sequence, events, lock>>
clientVars == <<phase, call, clean, seen, seenSeq, holder, reply,
                granted, tokens>>
storeVars  == <<keys, clientVars>>

-----------------------------------------------------------------------------
\* The calls.

UpdateCalls ==
    [kind : {"update_status"}, job : Jobs, status : SettableStatus, record : {Null}]

ResultCalls ==
    [kind : {"set_result"}, job : Jobs, status : ResultStatus, record : {Null}]

DecisionCalls ==
    [kind : {"record_operator_decision"}, job : Jobs, status : {Null},
     record : DecisionRecord]

LockCalls ==
    [kind : {"acquire_execution", "release_execution"}, job : Jobs,
     status : {Null}, record : {Null}]

Calls == UpdateCalls \cup ResultCalls \cup DecisionCalls \cup LockCalls

Phases == {"idle", "done", "raised",
           "read", "exec",
           "lock_check", "lock_set", "lock_recheck", "unlock_read", "unlock_exec"}

\* The command a call starts with, after the WATCH of a mutation.
FirstPhase(op) ==
    CASE op.kind = "acquire_execution" -> "lock_check"
      [] op.kind = "release_execution" -> "unlock_read"
      [] OTHER                         -> "read"

\* Defect: a status update overwrites a terminal status.
RefusesOnlySameStatus(op, e) ==
    \/ op.kind = "update_status" /\ e.status = op.status
    \/ op.kind = "set_result" /\ IsTerminal(e)
    \/ op.kind = "record_operator_decision" /\ (~ IsTerminal(e) \/ e.decision # Null)

\* Defect: a result overwrites the outcome of another executor.
RefusesNoLateResult(op, e) ==
    \/ op.kind = "update_status" /\ (e.status = op.status \/ IsTerminal(e))
    \/ op.kind = "record_operator_decision" /\ (~ IsTerminal(e) \/ e.decision # Null)

\* Defect: a result is only taken from a job that is still queued.
RefusesResultOfRunning(op, e) ==
    \/ op.kind = "update_status" /\ (e.status = op.status \/ IsTerminal(e))
    \/ op.kind = "set_result" /\ e.status # "queued"
    \/ op.kind = "record_operator_decision" /\ (~ IsTerminal(e) \/ e.decision # Null)

\* The update closure of the call returns None: nothing is written.
Refuses(op, e) ==
    \/ op.kind = "update_status" /\ (e.status = op.status \/ IsTerminal(e))
    \/ op.kind = "set_result" /\ IsTerminal(e)
    \/ op.kind = "record_operator_decision" /\ (~ IsTerminal(e) \/ e.decision # Null)

\* Defect: every closure writes the status of its call, a decision too.
UpdatesEveryStatus(op, e) ==
    [status   |-> op.status,
     result   |-> IF op.kind = "set_result" THEN op.status ELSE e.result,
     decision |-> IF op.kind = "record_operator_decision" THEN op.record ELSE e.decision]

\* The envelope the update closure returns otherwise.
Updated(op, e) ==
    [status   |-> IF op.kind = "record_operator_decision" THEN e.status ELSE op.status,
     result   |-> IF op.kind = "set_result" THEN op.status ELSE e.result,
     decision |-> IF op.kind = "record_operator_decision" THEN op.record ELSE e.decision]

EventName(op) ==
    CASE op.kind = "update_status" -> "status"
      [] op.kind = "set_result"    -> "result"
      [] OTHER                     -> "operator_decision"

\* Defect: the record of the request is returned, whoever decided first.
HolderIsOwnRecord(op, e, held) ==
    IF op.kind = "record_operator_decision" /\ IsTerminal(e) THEN op.record ELSE held

\* record_holder[0] after the closure ran on e: the list is only ever appended
\* to, so the first record it received stays in front.
HolderAfter(op, e, held) ==
    IF op.kind # "record_operator_decision" \/ ~ IsTerminal(e) \/ held # Null
    THEN held
    ELSE IF e.decision # Null THEN e.decision ELSE op.record

-----------------------------------------------------------------------------
StoreInit ==
    /\ envelope = [j \in Jobs |-> Null]
    /\ sequence = [j \in Jobs |-> 0]
    /\ events   = [j \in Jobs |-> <<>>]
    /\ lock     = [j \in Jobs |-> Null]
    /\ phase    = [c \in Clients |-> "idle"]
    /\ call     = [c \in Clients |-> Null]
    /\ clean    = [c \in Clients |-> FALSE]
    /\ seen     = [c \in Clients |-> Null]
    /\ seenSeq  = [c \in Clients |-> 0]
    /\ holder   = [c \in Clients |-> Null]
    /\ reply    = [c \in Clients |-> Null]
    /\ granted  = [c \in Clients |-> FALSE]
    /\ tokens   = [c \in Clients |-> {}]

\* Defect: the keys of a mutation are not watched.
WatchesNothing(c, j) == FALSE

\* c has sent WATCH for the envelope and the sequence of j.
WatchesJob(c, j) == phase[c] \in {"read", "exec"} /\ call[c].job = j

WatchesLock(c, j) == phase[c] = "unlock_exec" /\ call[c].job = j

\* A write to the lock of j dooms every transaction that watches it.
DirtyLock(j) == clean' = [d \in Clients |-> clean[d] /\ ~ WatchesLock(d, j)]

\* The call of c goes on with command p.
Goto(c, p) == phase' = [phase EXCEPT ![c] = p] /\ UNCHANGED call

\* The call of c is over: it returned ("done") or raised ("raised").
End(c, p) ==
    /\ phase' = [phase EXCEPT ![c] = p]
    /\ call'  = [call EXCEPT ![c] = Null]

\* The transaction of c has no value read.
Forget(c) ==
    /\ seen'    = [seen EXCEPT ![c] = Null]
    /\ seenSeq' = [seenSeq EXCEPT ![c] = 0]

\* The mutation of c ends and returns r.
Return(c, r) ==
    /\ End(c, "done")
    /\ reply'  = [reply EXCEPT ![c] = r]
    /\ holder' = [holder EXCEPT ![c] = Null]
    /\ Forget(c)

\* Defect: create leaves the sequence key out of its transaction.
CreateWithoutSequence(j) ==
    /\ envelope[j] = Null
    /\ envelope' = [envelope EXCEPT ![j] = NewEnvelope]
    /\ events'   = [events EXCEPT ![j] = <<CreatedEvent>>]
    /\ UNCHANGED <<sequence, lock, clientVars>>

\* create: one MULTI writes envelope, sequence and first event.  The id is a
\* fresh uuid, so the keys do not exist and nobody watches them.
Create(j) ==
    /\ envelope[j] = Null
    /\ envelope' = [envelope EXCEPT ![j] = NewEnvelope]
    /\ sequence' = [sequence EXCEPT ![j] = 1]
    /\ events'   = [events EXCEPT ![j] = <<CreatedEvent>>]
    /\ UNCHANGED <<lock, clientVars>>

\* A client between two calls makes the next one.  release_execution pops the
\* token of the job first, and does nothing when it has none.
Begin(c, op) ==
    /\ phase[c] \in {"idle", "done", "raised"}
    /\ reply' = [reply EXCEPT ![c] = Null]
    /\ granted' = [granted EXCEPT ![c] = FALSE]
    /\ clean' = [clean EXCEPT ![c] = FirstPhase(op) = "read"]
    /\ IF op.kind = "release_execution"
       THEN tokens' = [tokens EXCEPT ![c] = @ \ {op.job}]
       ELSE UNCHANGED tokens
    /\ IF op.kind = "release_execution" /\ op.job \notin tokens[c]
       THEN End(c, "done")
       ELSE /\ phase' = [phase EXCEPT ![c] = FirstPhase(op)]
            /\ call'  = [call EXCEPT ![c] = op]
    /\ UNCHANGED <<keys, seen, seenSeq, holder>>

\* GET the envelope and the sequence after WATCH, and run the update closure.
Read(c) ==
    /\ phase[c] = "read"
    /\ LET op == call[c]
           e  == envelope[op.job]
       IN  IF e = Null
           THEN /\ Return(c, Null)
                /\ clean' = [clean EXCEPT ![c] = FALSE]
           ELSE IF Refuses(op, e)
           THEN /\ Return(c, HolderAfter(op, e, holder[c]))
                /\ clean' = [clean EXCEPT ![c] = FALSE]
           ELSE /\ Goto(c, "exec")
                /\ seen'    = [seen EXCEPT ![c] = e]
                /\ seenSeq' = [seenSeq EXCEPT ![c] = sequence[op.job]]
                /\ holder'  = [holder EXCEPT ![c] = HolderAfter(op, e, holder[c])]
                /\ UNCHANGED <<clean, reply>>
    /\ UNCHANGED <<keys, granted, tokens>>

\* The event _mutate builds from the sequence it read.
NextEvent(c) ==
    [id     |-> seenSeq[c] + 1,
     event  |-> EventName(call[c]),
     status |-> Updated(call[c], seen[c]).status,
     record |-> holder[c]]

\* EXEC with every watched key unchanged.
ExecCommits(c) ==
    /\ phase[c] = "exec"
    /\ clean[c]
    /\ LET j == call[c].job
       IN  /\ envelope' = [envelope EXCEPT ![j] = Updated(call[c], seen[c])]
           /\ sequence' = [sequence EXCEPT ![j] = seenSeq[c] + 1]
           /\ events'   = [events EXCEPT ![j] = Append(@, NextEvent(c))]
           /\ clean' = [d \in Clients |->
                          d # c /\ clean[d] /\ ~ WatchesJob(d, j)]
    /\ Return(c, holder[c])
    /\ UNCHANGED <<lock, granted, tokens>>

\* Defect: after a WatchError the same update is sent again, not recomputed.
ExecRetriesStale(c) ==
    /\ phase[c] = "exec"
    /\ ~ clean[c]
    /\ clean' = [clean EXCEPT ![c] = TRUE]
    /\ UNCHANGED <<keys, phase, call, seen, seenSeq, holder, reply, granted, tokens>>

\* EXEC raises WatchError; _mutate starts over with a new WATCH.
ExecRetries(c) ==
    /\ phase[c] = "exec"
    /\ ~ clean[c]
    /\ Goto(c, "read")
    /\ clean'   = [clean EXCEPT ![c] = TRUE]
    /\ Forget(c)
    /\ UNCHANGED <<keys, holder, reply, granted, tokens>>

-----------------------------------------------------------------------------
\* The execution lock.

Runnable(j) == envelope[j] # Null /\ ~ IsTerminal(envelope[j])

LockCheck(c) ==
    /\ phase[c] = "lock_check"
    /\ IF Runnable(call[c].job) THEN Goto(c, "lock_set") ELSE End(c, "done")
    /\ UNCHANGED <<keys, clean, seen, seenSeq, holder, reply, granted, tokens>>

\* Defect: SET without NX takes a lock that is held.
LockSetAlways(c) ==
    /\ phase[c] = "lock_set"
    /\ LET j == call[c].job
       IN  /\ lock'   = [lock EXCEPT ![j] = c]
           /\ tokens' = [tokens EXCEPT ![c] = @ \cup {j}]
           /\ DirtyLock(j)
    /\ Goto(c, "lock_recheck")
    /\ UNCHANGED <<envelope, sequence, events, seen, seenSeq, holder,
                   reply, granted>>

\* SET NX EX: takes the lock only when the key is absent.
LockSet(c) ==
    /\ phase[c] = "lock_set"
    /\ LET j == call[c].job
       IN  IF lock[j] = Null
           THEN /\ lock'   = [lock EXCEPT ![j] = c]
                /\ tokens' = [tokens EXCEPT ![c] = @ \cup {j}]
                /\ DirtyLock(j)
                /\ Goto(c, "lock_recheck")
           ELSE /\ End(c, "done")
                /\ UNCHANGED <<lock, tokens, clean>>
    /\ UNCHANGED <<envelope, sequence, events, seen, seenSeq, holder,
                   reply, granted>>

\* The job may have become terminal since the first check: give the lock back.
LockRecheck(c) ==
    /\ phase[c] = "lock_recheck"
    /\ LET j == call[c].job
       IN  IF Runnable(j)
           THEN /\ End(c, "done")
                /\ granted' = [granted EXCEPT ![c] = TRUE]
                /\ UNCHANGED tokens
           ELSE /\ Goto(c, "unlock_read")
                /\ tokens' = [tokens EXCEPT ![c] = @ \ {j}]
                /\ UNCHANGED granted
    /\ UNCHANGED <<keys, clean, seen, seenSeq, holder, reply>>

\* Defect: the lock is deleted whoever holds it.
UnlockReadAnyHolder(c) ==
    /\ phase[c] = "unlock_read"
    /\ Goto(c, "unlock_exec")
    /\ clean' = [clean EXCEPT ![c] = TRUE]
    /\ UNCHANGED <<keys, seen, seenSeq, holder, reply, granted, tokens>>

\* WATCH and GET the lock: done when another token (or none) is there.
UnlockRead(c) ==
    /\ phase[c] = "unlock_read"
    /\ IF lock[call[c].job] = c
       THEN Goto(c, "unlock_exec") /\ clean' = [clean EXCEPT ![c] = TRUE]
       ELSE End(c, "done") /\ UNCHANGED clean
    /\ UNCHANGED <<keys, seen, seenSeq, holder, reply, granted, tokens>>

UnlockExec(c) ==
    /\ phase[c] = "unlock_exec"
    /\ IF clean[c]
       THEN /\ lock' = [lock EXCEPT ![call[c].job] = Null]
            /\ DirtyLock(call[c].job)
            /\ End(c, "done")
       ELSE /\ Goto(c, "unlock_read")
            /\ UNCHANGED <<lock, clean>>
    /\ UNCHANGED <<envelope, sequence, events, seen, seenSeq, holder,
                   reply, granted, tokens>>

\* The time to live of the lock runs out (external: redis key expiry).
LockExpires(j) ==
    /\ lock[j] # Null
    /\ lock' = [lock EXCEPT ![j] = Null]
    /\ DirtyLock(j)
    /\ UNCHANGED <<envelope, sequence, events, phase, call, seen, seenSeq,
                   holder, reply, granted, tokens>>

-----------------------------------------------------------------------------
\* What may go wrong with a client.

\* The process dies: whatever it was doing, and its token map, are gone.
ClientDies(c) ==
    /\ phase[c] # "idle" \/ tokens[c] # {}
    /\ End(c, "idle")
    /\ Forget(c)
    /\ clean'   = [clean EXCEPT ![c] = FALSE]
    /\ holder'  = [holder EXCEPT ![c] = Null]
    /\ reply'   = [reply EXCEPT ![c] = Null]
    /\ granted' = [granted EXCEPT ![c] = FALSE]
    /\ tokens'  = [tokens EXCEPT ![c] = {}]
    /\ UNCHANGED keys

\* A redis command raises a connection error out of the call.  In "done" the
\* last command was executed by redis and only its answer was lost.
ConnectionFails(c) ==
    /\ phase[c] \notin {"idle", "raised"}
    /\ End(c, "raised")
    /\ Forget(c)
    /\ clean'   = [clean EXCEPT ![c] = FALSE]
    /\ holder'  = [holder EXCEPT ![c] = Null]
    /\ reply'   = [reply EXCEPT ![c] = Null]
    /\ granted' = [granted EXCEPT ![c] = FALSE]
    /\ UNCHANGED <<keys, tokens>>

\* One redis command of the call of c.
StoreStep(c) ==
    \/ Read(c) \/ ExecCommits(c) \/ ExecRetries(c)
    \/ LockCheck(c) \/ LockSet(c) \/ LockRecheck(c)
    \/ UnlockRead(c) \/ UnlockExec(c)

StoreNext ==
    \/ \E j \in Jobs : Create(j) \/ LockExpires(j)
    \/ \E c \in Clients :
          \/ \E op \in Calls : Begin(c, op)
          \/ StoreStep(c)
          \/ ClientDies(c)
          \/ ConnectionFails(c)

StoreSpec == StoreInit /\ [][StoreNext]_storeVars

-----------------------------------------------------------------------------
\* Whatever the clients' commands interleave to, the store behaves as if each
\* call were one atomic operation (or none): it implements JobContract.
Contract == INSTANCE JobContract WITH job <- envelope, log <- events
ContractSpec == Contract!Spec

StoreTypeOK ==
    /\ envelope \in [Jobs -> Envelope \cup {Null}]
    /\ sequence \in [Jobs -> Nat]
    /\ events   \in [Jobs -> Seq(Event)]
    /\ lock     \in [Jobs -> Clients \cup {Null}]
    /\ phase    \in [Clients -> Phases]
    /\ call     \in [Clients -> Calls \cup {Null}]
    /\ clean    \in [Clients -> BOOLEAN]
    /\ seen     \in [Clients -> Envelope \cup {Null}]
    /\ seenSeq  \in [Clients -> Nat]
    /\ holder   \in [Clients -> DecisionRecord \cup {Null}]
    /\ reply    \in [Clients -> DecisionRecord \cup {Null}]
    /\ granted  \in [Clients -> BOOLEAN]
    /\ tokens   \in [Clients -> SUBSET Jobs]

\* The sequence key counts the events of the list, and the list numbers them
\* 1..n: no id is given twice or skipped, whatever transactions collide.
SequenceNumbersLog ==
    /\ Contract!LogIsNumbered
    /\ \A j \in Jobs : sequence[j] = Len(events[j])

\* The last event in redis carries the status of the envelope in redis.
LogIsCurrent == Contract!LogIsCurrent

\* The log tells how a job ended: after the event of a terminal status nothing but
\* the decision is appended, and the stored decision and result are those of the
\* one decision event and the result event, whatever commands collided.
LogTellsOutcome ==
    /\ Contract!TerminalEventIsLast
    /\ Contract!DecisionIsLogged
    /\ Contract!ResultIsLogged

\* Late status updates, late results and second decisions change nothing.
OutcomeIsFinal == Contract!OutcomeIsFinal

\* The heart of the optimistic lock: a transaction whose EXEC will succeed
\* computed its update from the envelope and the sequence that are there now.
CleanReadIsCurrent ==
    \A c \in Clients : phase[c] = "exec" /\ clean[c] =>
        /\ seen[c] = envelope[call[c].job]
        /\ seenSeq[c] = sequence[call[c].job]

\* An unlock whose EXEC will succeed deletes the client's own lock, never the
\* lock another worker took after the own one expired.
UnlockIsOwn ==
    \A c \in Clients : phase[c] = "unlock_exec" /\ clean[c] =>
        lock[call[c].job] = c

=============================================================================
