------------------------- MODULE RedisJobStore_proofs -------------------------
(***************************************************************************)
(* Proofs about RedisJobStore, for any set of jobs, operators and clients. *)
(* StoreInv is inductive: besides the types it says what a transaction in  *)
(* flight knows (its call, the envelope it read, the record it will        *)
(* return), that a transaction whose EXEC will succeed read the current    *)
(* values, and that the sequence counts the events.  With it every command *)
(* of a client is an atomic operation of JobContract or a stutter.         *)
(***************************************************************************)
EXTENDS RedisJobStore, JobLog_proofs

MutationCalls == UpdateCalls \cup ResultCalls \cup DecisionCalls

LockPhases == {"lock_check", "lock_set", "lock_recheck", "unlock_read", "unlock_exec"}

\* The client executes a call of the right kind for the command it will send.
CallFits(c) ==
    /\ phase[c] \in {"read", "exec"} => call[c] \in MutationCalls
    /\ phase[c] \in LockPhases => call[c] \in LockCalls

\* The record a decision call holds is its own: a stored decision of somebody
\* else ends the call at once.
HolderFits(c) ==
    /\ phase[c] \notin {"read", "exec"} => holder[c] = Null
    /\ phase[c] = "read" => holder[c] \in {Null, call[c].record}
    /\ phase[c] = "exec" => holder[c] = call[c].record

\* An update about to be executed was accepted by the closure.
ReadFits(c) ==
    phase[c] = "exec" => seen[c] \in Envelope /\ ~ Refuses(call[c], seen[c])

SequenceCounts == \A j \in Jobs : sequence[j] = Len(events[j])

StoreInv ==
    /\ StoreTypeOK
    /\ \A c \in Clients : CallFits(c) /\ HolderFits(c) /\ ReadFits(c)
    /\ CleanReadIsCurrent
    /\ UnlockIsOwn
    /\ SequenceCounts

-----------------------------------------------------------------------------
\* The update closures.

LEMMA NullIsNoRecord == Null \notin DecisionRecord /\ Null \notin Envelope
BY NullAssumption

\* Calls are distinguished by their kind, and only decisions carry a record.
LEMMA CallKinds ==
  ASSUME NEW op \in Calls
  PROVE  /\ op.job \in Jobs
         /\ op.record \in DecisionRecord \cup {Null}
         /\ op \in UpdateCalls => op.kind = "update_status" /\ op.status \in SettableStatus
         /\ op \in ResultCalls => op.kind = "set_result" /\ op.status \in ResultStatus
         /\ op \in DecisionCalls => op.kind = "record_operator_decision"
                                    /\ op.record \in DecisionRecord
         /\ op \in LockCalls => op.kind \in {"acquire_execution", "release_execution"}
         /\ op \notin DecisionCalls => op.record = Null
         /\ FirstPhase(op) = "read" => op \in MutationCalls
         /\ FirstPhase(op) # "read" => op \in LockCalls
         /\ FirstPhase(op) \in {"read", "lock_check", "unlock_read"}
BY DEF Calls, UpdateCalls, ResultCalls, DecisionCalls, LockCalls, MutationCalls, FirstPhase

\* The closure makes an envelope of an envelope.
LEMMA UpdatedEnvelope ==
  ASSUME NEW op \in MutationCalls, NEW e \in Envelope
  PROVE  Updated(op, e) \in Envelope
<1>1. CASE op \in UpdateCalls
  BY <1>1 DEF UpdateCalls, Updated, Envelope, SettableStatus, JobStatus, Terminal
<1>2. CASE op \in ResultCalls
  BY <1>2 DEF ResultCalls, Updated, Envelope, ResultStatus, JobStatus
<1>3. CASE op \in DecisionCalls
  BY <1>3 DEF DecisionCalls, Updated, Envelope
<1> QED BY <1>1, <1>2, <1>3 DEF MutationCalls

\* A call that is not refused goes on with its own record, however often it was
\* retried before.
LEMMA HolderIsRecord ==
  ASSUME NEW op \in MutationCalls, NEW e \in Envelope, NEW held \in {Null, op.record}
  PROVE  /\ HolderAfter(op, e, held) \in DecisionRecord \cup {Null}
         /\ ~ Refuses(op, e) => HolderAfter(op, e, held) = op.record
<1>1. CASE op \in UpdateCalls \cup ResultCalls
  BY <1>1 DEF UpdateCalls, ResultCalls, HolderAfter
<1>2. CASE op \in DecisionCalls
  BY <1>2 DEF DecisionCalls, HolderAfter, Refuses, Envelope
<1> QED BY <1>1, <1>2 DEF MutationCalls

-----------------------------------------------------------------------------
LEMMA StoreInvInit == StoreInit => StoreInv
BY DEF StoreInit, StoreInv, StoreTypeOK, Phases, CallFits, HolderFits, ReadFits,
       CleanReadIsCurrent, UnlockIsOwn, SequenceCounts, LockPhases


LEMMA CreateInv ==
  ASSUME StoreInv, NEW j \in Jobs, Create(j)
  PROVE  StoreInv'
<1>1. NewEnvelope \in Envelope /\ CreatedEvent \in Event
  BY DEF NewEnvelope, Envelope, CreatedEvent, Event, JobStatus
<1>2. StoreTypeOK'
  BY <1>1 DEF StoreInv, StoreTypeOK, Create, clientVars
<1>3. \A c \in Clients : CallFits(c)' /\ HolderFits(c)' /\ ReadFits(c)'
  BY DEF StoreInv, Create, clientVars, CallFits, HolderFits, ReadFits
<1>4. CleanReadIsCurrent'
  <2> SUFFICES ASSUME NEW c \in Clients, phase[c] = "exec", clean[c]
               PROVE  /\ seen[c] = envelope'[call[c].job]
                      /\ seenSeq[c] = sequence'[call[c].job]
    BY DEF CleanReadIsCurrent, Create, clientVars
  <2>1. seen[c] \in Envelope /\ seen[c] = envelope[call[c].job]
    BY DEF StoreInv, ReadFits, CleanReadIsCurrent
  <2>2. call[c].job # j
    BY <2>1, NullIsNoRecord DEF Create
  <2>3. call[c].job \in Jobs
    BY CallKinds DEF StoreInv, CallFits, MutationCalls, Calls
  <2> QED BY <2>2, <2>3 DEF StoreInv, StoreTypeOK, CleanReadIsCurrent, Create
<1>5. UnlockIsOwn'
  BY DEF StoreInv, UnlockIsOwn, Create, clientVars
<1>6. SequenceCounts'
  BY <1>1 DEF StoreInv, StoreTypeOK, SequenceCounts, Create
<1> QED BY <1>2, <1>3, <1>4, <1>5, <1>6 DEF StoreInv

LEMMA BeginInv ==
  ASSUME StoreInv, NEW c \in Clients, NEW op \in Calls, Begin(c, op)
  PROVE  StoreInv'
<1>1. /\ FirstPhase(op) = "read" => op \in MutationCalls
      /\ FirstPhase(op) # "read" => op \in LockCalls
      /\ FirstPhase(op) \in {"read", "lock_check", "unlock_read"}
  BY CallKinds
<1>2. /\ phase[c] \in {"idle", "done", "raised"}
      /\ (phase'[c] = FirstPhase(op) /\ call'[c] = op) \/ phase'[c] = "done"
      /\ \A d \in Clients \ {c} : phase'[d] = phase[d] /\ call'[d] = call[d]
                                  /\ clean'[d] = clean[d]
      /\ UNCHANGED <<keys, seen, seenSeq, holder>>
  BY DEF StoreInv, StoreTypeOK, Begin, End
<1>3. StoreTypeOK'
  <2>1. /\ phase' \in [Clients -> Phases] /\ call' \in [Clients -> Calls \cup {Null}]
        /\ reply' \in [Clients -> DecisionRecord \cup {Null}]
        /\ granted' \in [Clients -> BOOLEAN]
    BY <1>1 DEF StoreInv, StoreTypeOK, Begin, End, Phases
  <2>2. clean' \in [Clients -> BOOLEAN]
    <3> DEFINE b == FirstPhase(op) = "read"
    <3>1. b \in BOOLEAN
      OBVIOUS
    <3>2. clean' = [clean EXCEPT ![c] = b]
      BY DEF Begin
    <3> HIDE DEF b
    <3> QED BY <3>1, <3>2 DEF StoreInv, StoreTypeOK
  <2>3. tokens' \in [Clients -> SUBSET Jobs]
    <3>1. tokens' = tokens \/ tokens' = [tokens EXCEPT ![c] = @ \ {op.job}]
      BY DEF Begin
    <3>2. tokens[c] \ {op.job} \in SUBSET Jobs
      BY DEF StoreInv, StoreTypeOK
    <3> QED BY <3>1, <3>2 DEF StoreInv, StoreTypeOK
  <2> QED BY <1>2, <2>1, <2>2, <2>3 DEF StoreInv, StoreTypeOK, keys
<1>4. \A d \in Clients : CallFits(d)' /\ HolderFits(d)' /\ ReadFits(d)'
  BY <1>1, <1>2 DEF StoreInv, CallFits, HolderFits, ReadFits, LockPhases
<1>5. CleanReadIsCurrent' /\ UnlockIsOwn'
  BY <1>1, <1>2 DEF StoreInv, CleanReadIsCurrent, UnlockIsOwn, keys
<1>6. SequenceCounts'
  BY <1>2 DEF StoreInv, SequenceCounts, keys
<1> QED BY <1>3, <1>4, <1>5, <1>6 DEF StoreInv

LEMMA ReadInv ==
  ASSUME StoreInv, NEW c \in Clients, Read(c)
  PROVE  StoreInv'
<1> DEFINE op == call[c]
           e  == envelope[op.job]
<1>1. /\ phase[c] = "read" /\ op \in MutationCalls /\ op \in Calls /\ op.job \in Jobs
      /\ holder[c] \in {Null, op.record}
  BY CallKinds DEF StoreInv, CallFits, HolderFits, Read, MutationCalls, Calls
<1>2. UNCHANGED keys /\ granted' = granted /\ tokens' = tokens
  BY DEF Read
<1>3. e \in Envelope \cup {Null}
  BY <1>1 DEF StoreInv, StoreTypeOK
<1>4. \/ /\ e \in Envelope /\ ~ Refuses(op, e)
         /\ Goto(c, "exec")
         /\ seen'    = [seen EXCEPT ![c] = e]
         /\ seenSeq' = [seenSeq EXCEPT ![c] = sequence[op.job]]
         /\ holder'  = [holder EXCEPT ![c] = op.record]
         /\ UNCHANGED <<clean, reply>>
      \/ \E r \in DecisionRecord \cup {Null} :
            Return(c, r) /\ clean' = [clean EXCEPT ![c] = FALSE]
  <2>1. CASE e = Null
    BY <2>1 DEF Read
  <2>2. CASE e # Null
    <3>1. e \in Envelope
      BY <1>3, <2>2
    <3>2. /\ HolderAfter(op, e, holder[c]) \in DecisionRecord \cup {Null}
          /\ ~ Refuses(op, e) => HolderAfter(op, e, holder[c]) = op.record
      BY <1>1, <3>1, HolderIsRecord
    <3> QED BY <2>2, <3>1, <3>2 DEF Read
  <2> QED BY <2>1, <2>2
<1>5. CASE /\ e \in Envelope /\ ~ Refuses(op, e)
           /\ Goto(c, "exec")
           /\ seen'    = [seen EXCEPT ![c] = e]
           /\ seenSeq' = [seenSeq EXCEPT ![c] = sequence[op.job]]
           /\ holder'  = [holder EXCEPT ![c] = op.record]
           /\ UNCHANGED <<clean, reply>>
  <2>1. op.record \in DecisionRecord \cup {Null}
    BY <1>1, CallKinds
  <2>2. StoreTypeOK'
    BY <1>1, <1>2, <1>5, <2>1 DEF StoreInv, StoreTypeOK, Goto, keys, Phases
  <2>3. \A d \in Clients : CallFits(d)' /\ HolderFits(d)' /\ ReadFits(d)'
    BY <1>1, <1>5
       DEF StoreInv, StoreTypeOK, CallFits, HolderFits, ReadFits, Goto, LockPhases
  <2>4. CleanReadIsCurrent' /\ UnlockIsOwn'
    BY <1>1, <1>2, <1>5
       DEF StoreInv, StoreTypeOK, CleanReadIsCurrent, UnlockIsOwn, Goto, keys
  <2>5. SequenceCounts'
    BY <1>2 DEF StoreInv, SequenceCounts, keys
  <2> QED BY <2>2, <2>3, <2>4, <2>5 DEF StoreInv
<1>6. ASSUME NEW r \in DecisionRecord \cup {Null},
             Return(c, r), clean' = [clean EXCEPT ![c] = FALSE]
      PROVE  StoreInv'
  <2>1. StoreTypeOK'
    BY <1>2, <1>6 DEF StoreInv, StoreTypeOK, Return, End, Forget, keys, Phases
  <2>2. \A d \in Clients : CallFits(d)' /\ HolderFits(d)' /\ ReadFits(d)'
    BY <1>6 DEF StoreInv, StoreTypeOK, CallFits, HolderFits, ReadFits,
                Return, End, Forget, LockPhases
  <2>3. CleanReadIsCurrent' /\ UnlockIsOwn'
    BY <1>2, <1>6 DEF StoreInv, StoreTypeOK, CleanReadIsCurrent, UnlockIsOwn,
                      Return, End, Forget, keys
  <2>4. SequenceCounts'
    BY <1>2 DEF StoreInv, SequenceCounts, keys
  <2> QED BY <2>1, <2>2, <2>3, <2>4 DEF StoreInv
<1> QED BY <1>4, <1>5, <1>6

LEMMA ExecCommitsInv ==
  ASSUME StoreInv, NEW c \in Clients, ExecCommits(c)
  PROVE  StoreInv'
<1> DEFINE op == call[c]
           j  == op.job
           f  == Updated(op, seen[c])
           v  == [id |-> seenSeq[c] + 1, event |-> EventName(op),
                  status |-> f.status, record |-> holder[c]]
<1>1. /\ phase[c] = "exec" /\ clean[c] /\ op \in MutationCalls /\ op \in Calls
      /\ j \in Jobs /\ seen[c] \in Envelope /\ seenSeq[c] = sequence[j]
      /\ sequence[j] = Len(events[j])
  BY CallKinds DEF StoreInv, CallFits, ReadFits, CleanReadIsCurrent, SequenceCounts,
                   ExecCommits, MutationCalls, Calls
<1>2. f \in Envelope
  BY <1>1, UpdatedEnvelope
<1>3. v \in Event
  <2>1. EventName(op) \in {"status", "result", "operator_decision"}
    BY DEF EventName
  <2>2. f.status \in JobStatus /\ seenSeq[c] + 1 \in Nat
        /\ holder[c] \in DecisionRecord \cup {Null}
    BY <1>1, <1>2 DEF StoreInv, StoreTypeOK, Envelope
  <2> QED BY <2>1, <2>2 DEF Event
<1>4. /\ envelope' = [envelope EXCEPT ![j] = f]
      /\ sequence' = [sequence EXCEPT ![j] = seenSeq[c] + 1]
      /\ events'   = [events EXCEPT ![j] = Append(@, v)]
      /\ clean' = [d \in Clients |-> d # c /\ clean[d] /\ ~ WatchesJob(d, j)]
      /\ phase' = [phase EXCEPT ![c] = "done"]
      /\ call'  = [call EXCEPT ![c] = Null]
      /\ reply'  = [reply EXCEPT ![c] = holder[c]]
      /\ holder' = [holder EXCEPT ![c] = Null]
      /\ seen'    = [seen EXCEPT ![c] = Null]
      /\ seenSeq' = [seenSeq EXCEPT ![c] = 0]
      /\ lock' = lock /\ granted' = granted /\ tokens' = tokens
  BY DEF ExecCommits, NextEvent, Return, End, Forget
<1>5. StoreTypeOK'
  <2>1. /\ envelope' \in [Jobs -> Envelope \cup {Null}]
        /\ sequence' \in [Jobs -> Nat] /\ events' \in [Jobs -> Seq(Event)]
    BY <1>1, <1>2, <1>3, <1>4 DEF StoreInv, StoreTypeOK
  <2>2. clean' \in [Clients -> BOOLEAN]
    BY <1>4 DEF StoreInv, StoreTypeOK, WatchesJob
  <2> QED BY <1>4, <2>1, <2>2 DEF StoreInv, StoreTypeOK, Phases
<1>6. \A d \in Clients : CallFits(d)' /\ HolderFits(d)' /\ ReadFits(d)'
  BY <1>4 DEF StoreInv, StoreTypeOK, CallFits, HolderFits, ReadFits, LockPhases
<1>7. CleanReadIsCurrent'
  <2> SUFFICES ASSUME NEW d \in Clients, phase'[d] = "exec", clean'[d]
               PROVE  /\ seen'[d] = envelope'[call'[d].job]
                      /\ seenSeq'[d] = sequence'[call'[d].job]
    BY DEF CleanReadIsCurrent
  <2>1. d # c /\ phase[d] = "exec" /\ clean[d] /\ call[d].job # j
    BY <1>4 DEF StoreInv, StoreTypeOK, WatchesJob
  <2>2. call[d].job \in Jobs
    BY <2>1, CallKinds DEF StoreInv, CallFits, MutationCalls, Calls
  <2> QED BY <1>4, <2>1, <2>2 DEF StoreInv, StoreTypeOK, CleanReadIsCurrent
<1>8. UnlockIsOwn'
  BY <1>4 DEF StoreInv, StoreTypeOK, UnlockIsOwn
<1>9. SequenceCounts'
  <2> SUFFICES ASSUME NEW k \in Jobs PROVE sequence'[k] = Len(events'[k])
    BY DEF SequenceCounts
  <2>1. CASE k = j
    BY <1>1, <1>3, <1>4, <2>1 DEF StoreInv, StoreTypeOK
  <2>2. CASE k # j
    BY <1>4, <2>2 DEF StoreInv, StoreTypeOK, SequenceCounts
  <2> QED BY <2>1, <2>2
<1> QED BY <1>5, <1>6, <1>7, <1>8, <1>9 DEF StoreInv

LEMMA ExecRetriesInv ==
  ASSUME StoreInv, NEW c \in Clients, ExecRetries(c)
  PROVE  StoreInv'
<1>1. StoreTypeOK'
  BY DEF StoreInv, StoreTypeOK, ExecRetries, Goto, Forget, keys, Phases
<1>2. \A d \in Clients : CallFits(d)' /\ HolderFits(d)' /\ ReadFits(d)'
  BY DEF StoreInv, StoreTypeOK, CallFits, HolderFits, ReadFits,
         ExecRetries, Goto, Forget, LockPhases
<1>3. CleanReadIsCurrent' /\ UnlockIsOwn'
  BY DEF StoreInv, StoreTypeOK, CleanReadIsCurrent, UnlockIsOwn,
         ExecRetries, Goto, Forget, keys
<1>4. SequenceCounts'
  BY DEF StoreInv, SequenceCounts, ExecRetries, keys
<1> QED BY <1>1, <1>2, <1>3, <1>4 DEF StoreInv

-----------------------------------------------------------------------------
\* The execution lock.

\* A step that ends the call of c, moves it on or leaves it, and does nothing
\* else to the transactions, the keys but the lock, or the kind of its call.
LockStep(c) ==
    /\ \/ phase' = phase /\ call' = call
       \/ /\ phase[c] \in LockPhases
          /\ \E p \in LockPhases : Goto(c, p)
       \/ End(c, "done") /\ phase[c] \in LockPhases
    /\ UNCHANGED <<envelope, sequence, events, seen, seenSeq, holder>>

LEMMA LockStepFits ==
  ASSUME StoreInv, NEW c \in Clients, LockStep(c)
  PROVE  /\ \A d \in Clients : CallFits(d)' /\ HolderFits(d)' /\ ReadFits(d)'
         /\ SequenceCounts'
         /\ phase' \in [Clients -> Phases] /\ call' \in [Clients -> Calls \cup {Null}]
         /\ \A d \in Clients : phase'[d] \in {"read", "exec"} =>
               phase[d] = phase'[d] /\ call'[d] = call[d]
<1>1. \A d \in Clients : CallFits(d)' /\ HolderFits(d)' /\ ReadFits(d)'
  BY DEF StoreInv, StoreTypeOK, CallFits, HolderFits, ReadFits, LockStep, Goto, End,
         LockPhases
<1>2. SequenceCounts'
  BY DEF StoreInv, SequenceCounts, LockStep
<1>3. /\ phase' \in [Clients -> Phases] /\ call' \in [Clients -> Calls \cup {Null}]
      /\ \A d \in Clients : phase'[d] \in {"read", "exec"} =>
            phase[d] = phase'[d] /\ call'[d] = call[d]
  BY DEF StoreInv, StoreTypeOK, LockStep, Goto, End, LockPhases, Phases
<1> QED BY <1>1, <1>2, <1>3

\* A lock step that makes no watched read clean again keeps them current.
LEMMA LockStepCurrent ==
  ASSUME StoreInv, NEW c \in Clients, LockStep(c),
         \A d \in Clients : phase[d] \in {"read", "exec"} /\ clean'[d] => clean[d]
  PROVE  CleanReadIsCurrent'
BY LockStepFits DEF StoreInv, CleanReadIsCurrent, LockStep

LEMMA LockCheckInv ==
  ASSUME StoreInv, NEW c \in Clients, LockCheck(c)
  PROVE  StoreInv'
<1>1. LockStep(c)
  BY DEF LockCheck, LockStep, LockPhases, keys
<1>2. StoreTypeOK'
  BY <1>1, LockStepFits DEF StoreInv, StoreTypeOK, LockCheck, keys
<1>3. CleanReadIsCurrent'
  BY <1>1, LockStepCurrent DEF LockCheck
<1>4. UnlockIsOwn'
  BY DEF StoreInv, StoreTypeOK, UnlockIsOwn, LockCheck, Goto, End, keys
<1> QED BY <1>1, <1>2, <1>3, <1>4, LockStepFits DEF StoreInv

LEMMA LockSetInv ==
  ASSUME StoreInv, NEW c \in Clients, LockSet(c)
  PROVE  StoreInv'
<1> DEFINE j == call[c].job
<1>1. phase[c] = "lock_set" /\ j \in Jobs
  BY CallKinds DEF LockSet, StoreInv, CallFits, LockPhases, Calls
<1>2. LockStep(c)
  BY DEF LockSet, LockStep, LockPhases
<1>3. CASE lock[j] = Null
  <2>1. /\ lock'   = [lock EXCEPT ![j] = c]
        /\ tokens' = [tokens EXCEPT ![c] = @ \cup {j}]
        /\ clean' = [d \in Clients |-> clean[d] /\ ~ WatchesLock(d, j)]
        /\ phase' = [phase EXCEPT ![c] = "lock_recheck"] /\ call' = call
        /\ UNCHANGED <<envelope, sequence, events, seen, seenSeq, holder, reply, granted>>
    BY <1>3 DEF LockSet, DirtyLock, Goto
  <2>2. clean' \in [Clients -> BOOLEAN]
    BY <2>1
  <2>3. StoreTypeOK'
    BY <1>1, <1>2, <2>1, <2>2, LockStepFits DEF StoreInv, StoreTypeOK
  <2>4. CleanReadIsCurrent'
    BY <1>2, <2>1, LockStepCurrent
  <2>5. UnlockIsOwn'
    <3> SUFFICES ASSUME NEW d \in Clients, phase'[d] = "unlock_exec", clean'[d]
                 PROVE  lock'[call'[d].job] = d
      BY DEF UnlockIsOwn
    <3>1. phase[d] = "unlock_exec" /\ clean[d] /\ call[d].job # j
      BY <2>1 DEF WatchesLock, StoreInv, StoreTypeOK
    <3> QED BY <2>1, <3>1 DEF StoreInv, StoreTypeOK, UnlockIsOwn
  <2> QED BY <1>2, <2>3, <2>4, <2>5, LockStepFits DEF StoreInv
<1>4. CASE lock[j] # Null
  <2>1. End(c, "done") /\ UNCHANGED <<keys, tokens, clean, reply, granted>>
    BY <1>4 DEF LockSet, keys
  <2>2. StoreTypeOK'
    BY <1>2, <2>1, LockStepFits DEF StoreInv, StoreTypeOK, LockStep, keys
  <2>3. CleanReadIsCurrent'
    BY <1>2, <2>1, LockStepCurrent
  <2>4. UnlockIsOwn'
    BY <2>1 DEF StoreInv, StoreTypeOK, UnlockIsOwn, End, keys
  <2> QED BY <1>2, <2>2, <2>3, <2>4, LockStepFits DEF StoreInv
<1> QED BY <1>3, <1>4

LEMMA LockRecheckInv ==
  ASSUME StoreInv, NEW c \in Clients, LockRecheck(c)
  PROVE  StoreInv'
<1>1. LockStep(c)
  BY DEF LockRecheck, LockStep, LockPhases, keys
<1>2. /\ UNCHANGED <<keys, clean, reply>>
      /\ granted' = granted \/ granted' = [granted EXCEPT ![c] = TRUE]
      /\ \/ tokens' = tokens
         \/ tokens' = [tokens EXCEPT ![c] = @ \ {call[c].job}]
      /\ phase' = [phase EXCEPT ![c] = "done"] \/ phase' = [phase EXCEPT ![c] = "unlock_read"]
      /\ \A d \in Clients \ {c} : call'[d] = call[d]
  BY DEF LockRecheck, Goto, End, StoreInv, StoreTypeOK
<1>3. StoreTypeOK'
  <2>1. tokens[c] \ {call[c].job} \in SUBSET Jobs
    BY DEF StoreInv, StoreTypeOK
  <2>2. tokens' \in [Clients -> SUBSET Jobs] /\ granted' \in [Clients -> BOOLEAN]
    <3>1. tokens' \in [Clients -> SUBSET Jobs]
      BY <1>2, <2>1 DEF StoreInv, StoreTypeOK
    <3>2. granted' \in [Clients -> BOOLEAN]
      BY <1>2 DEF StoreInv, StoreTypeOK
    <3> QED BY <3>1, <3>2
  <2> QED BY <1>1, <1>2, <2>2, LockStepFits DEF StoreInv, StoreTypeOK, LockStep, keys
<1>4. CleanReadIsCurrent'
  BY <1>1, <1>2, LockStepCurrent
<1>5. UnlockIsOwn'
  BY <1>2 DEF StoreInv, StoreTypeOK, UnlockIsOwn, keys
<1> QED BY <1>1, <1>3, <1>4, <1>5, LockStepFits DEF StoreInv

LEMMA UnlockReadInv ==
  ASSUME StoreInv, NEW c \in Clients, UnlockRead(c)
  PROVE  StoreInv'
<1>1. LockStep(c)
  BY DEF UnlockRead, LockStep, LockPhases, keys
<1>2. StoreTypeOK'
  BY <1>1, LockStepFits DEF StoreInv, StoreTypeOK, UnlockRead, LockStep, keys
<1>3. CleanReadIsCurrent'
  BY <1>1, LockStepCurrent DEF UnlockRead, StoreInv, StoreTypeOK
<1>4. UnlockIsOwn'
  <2>1. lock' = lock
    BY DEF UnlockRead, keys
  <2>2. CASE lock[call[c].job] = c
    <3>1. phase' = [phase EXCEPT ![c] = "unlock_exec"] /\ call' = call
          /\ clean' = [clean EXCEPT ![c] = TRUE]
      BY <2>2 DEF UnlockRead, Goto
    <3> SUFFICES ASSUME NEW d \in Clients, phase'[d] = "unlock_exec", clean'[d]
                 PROVE  lock[call[d].job] = d
      BY <2>1, <3>1 DEF UnlockIsOwn
    <3>2. CASE d = c
      BY <2>2, <3>2
    <3>3. CASE d # c
      <4>1. phase[d] = "unlock_exec" /\ clean[d]
        BY <3>1, <3>3 DEF StoreInv, StoreTypeOK
      <4> QED BY <4>1 DEF StoreInv, UnlockIsOwn
    <3> QED BY <3>2, <3>3
  <2>3. CASE lock[call[c].job] # c
    BY <2>1, <2>3 DEF StoreInv, StoreTypeOK, UnlockIsOwn, UnlockRead, End
  <2> QED BY <2>2, <2>3
<1> QED BY <1>1, <1>2, <1>3, <1>4, LockStepFits DEF StoreInv

\* Writing the lock of j dooms every unlock of j that is about to execute.
LEMMA DirtyUnlock ==
  ASSUME StoreInv, NEW j \in Jobs, NEW x, DirtyLock(j), lock' = [lock EXCEPT ![j] = x],
         \A d \in Clients : phase'[d] = "unlock_exec" =>
            phase[d] = phase'[d] /\ call'[d] = call[d]
  PROVE  UnlockIsOwn'
<1> SUFFICES ASSUME NEW d \in Clients, phase'[d] = "unlock_exec", clean'[d]
             PROVE  lock'[call'[d].job] = d
  BY DEF UnlockIsOwn
<1>1. phase[d] = "unlock_exec" /\ clean[d] /\ call[d].job # j /\ call'[d] = call[d]
  BY DEF WatchesLock, DirtyLock
<1> QED BY <1>1 DEF StoreInv, StoreTypeOK, UnlockIsOwn

LEMMA UnlockExecInv ==
  ASSUME StoreInv, NEW c \in Clients, UnlockExec(c)
  PROVE  StoreInv'
<1> DEFINE j == call[c].job
<1>1. phase[c] = "unlock_exec" /\ j \in Jobs
  BY CallKinds DEF UnlockExec, StoreInv, CallFits, LockPhases, Calls
<1>2. LockStep(c)
  BY DEF UnlockExec, LockStep, LockPhases
<1>3. CASE clean[c]
  <2>1. /\ lock' = [lock EXCEPT ![j] = Null] /\ DirtyLock(j) /\ End(c, "done")
        /\ UNCHANGED <<envelope, sequence, events, seen, seenSeq, holder,
                       reply, granted, tokens>>
    BY <1>3 DEF UnlockExec
  <2>2. clean' \in [Clients -> BOOLEAN]
    BY <2>1 DEF DirtyLock
  <2>3. StoreTypeOK'
    BY <1>1, <1>2, <2>1, <2>2, LockStepFits DEF StoreInv, StoreTypeOK
  <2>4. CleanReadIsCurrent'
    BY <1>2, <2>1, LockStepCurrent DEF DirtyLock
  <2>5. UnlockIsOwn'
    BY <1>1, <2>1, DirtyUnlock DEF End, StoreInv, StoreTypeOK
  <2> QED BY <1>2, <2>3, <2>4, <2>5, LockStepFits DEF StoreInv
<1>4. CASE ~ clean[c]
  <2>1. Goto(c, "unlock_read") /\ UNCHANGED <<keys, clean, reply, granted, tokens>>
    BY <1>4 DEF UnlockExec, keys
  <2>2. StoreTypeOK'
    BY <1>2, <2>1, LockStepFits DEF StoreInv, StoreTypeOK, LockStep, keys
  <2>3. CleanReadIsCurrent'
    BY <1>2, <2>1, LockStepCurrent
  <2>4. UnlockIsOwn'
    BY <2>1 DEF StoreInv, StoreTypeOK, UnlockIsOwn, Goto, keys
  <2> QED BY <1>2, <2>2, <2>3, <2>4, LockStepFits DEF StoreInv
<1> QED BY <1>3, <1>4

LEMMA LockExpiresInv ==
  ASSUME StoreInv, NEW j \in Jobs, LockExpires(j)
  PROVE  StoreInv'
<1>1. clean' \in [Clients -> BOOLEAN]
  BY DEF LockExpires, DirtyLock
<1>2. StoreTypeOK'
  BY <1>1 DEF StoreInv, StoreTypeOK, LockExpires
<1>3. \A d \in Clients : CallFits(d)' /\ HolderFits(d)' /\ ReadFits(d)'
  BY DEF StoreInv, CallFits, HolderFits, ReadFits, LockExpires
<1>4. CleanReadIsCurrent'
  BY DEF StoreInv, CleanReadIsCurrent, LockExpires, DirtyLock
<1>5. UnlockIsOwn'
  BY DirtyUnlock DEF LockExpires
<1>6. SequenceCounts'
  BY DEF StoreInv, SequenceCounts, LockExpires
<1> QED BY <1>2, <1>3, <1>4, <1>5, <1>6 DEF StoreInv

-----------------------------------------------------------------------------
\* A client that dies or whose connection fails forgets its transaction.

LEMMA ClientDiesInv ==
  ASSUME StoreInv, NEW c \in Clients, ClientDies(c)
  PROVE  StoreInv'
<1>1. StoreTypeOK'
  BY DEF StoreInv, StoreTypeOK, ClientDies, End, Forget, keys, Phases
<1>2. \A d \in Clients : CallFits(d)' /\ HolderFits(d)' /\ ReadFits(d)'
  BY DEF StoreInv, StoreTypeOK, CallFits, HolderFits, ReadFits,
         ClientDies, End, Forget, LockPhases
<1>3. CleanReadIsCurrent' /\ UnlockIsOwn'
  BY DEF StoreInv, StoreTypeOK, CleanReadIsCurrent, UnlockIsOwn,
         ClientDies, End, Forget, keys
<1>4. SequenceCounts'
  BY DEF StoreInv, SequenceCounts, ClientDies, keys
<1> QED BY <1>1, <1>2, <1>3, <1>4 DEF StoreInv

LEMMA ConnectionFailsInv ==
  ASSUME StoreInv, NEW c \in Clients, ConnectionFails(c)
  PROVE  StoreInv'
<1>1. StoreTypeOK'
  BY DEF StoreInv, StoreTypeOK, ConnectionFails, End, Forget, keys, Phases
<1>2. \A d \in Clients : CallFits(d)' /\ HolderFits(d)' /\ ReadFits(d)'
  BY DEF StoreInv, StoreTypeOK, CallFits, HolderFits, ReadFits,
         ConnectionFails, End, Forget, LockPhases
<1>3. CleanReadIsCurrent' /\ UnlockIsOwn'
  BY DEF StoreInv, StoreTypeOK, CleanReadIsCurrent, UnlockIsOwn,
         ConnectionFails, End, Forget, keys
<1>4. SequenceCounts'
  BY DEF StoreInv, SequenceCounts, ConnectionFails, keys
<1> QED BY <1>1, <1>2, <1>3, <1>4 DEF StoreInv

LEMMA StutterInv == StoreInv /\ UNCHANGED storeVars => StoreInv'
<1> SUFFICES ASSUME StoreInv, UNCHANGED storeVars PROVE StoreInv'
  OBVIOUS
<1>1. StoreTypeOK'
  BY DEF StoreInv, StoreTypeOK, storeVars, keys, clientVars
<1>2. \A d \in Clients : CallFits(d)' /\ HolderFits(d)' /\ ReadFits(d)'
  BY DEF StoreInv, CallFits, HolderFits, ReadFits, storeVars, clientVars
<1>3. CleanReadIsCurrent' /\ UnlockIsOwn' /\ SequenceCounts'
  BY DEF StoreInv, CleanReadIsCurrent, UnlockIsOwn, SequenceCounts,
         storeVars, keys, clientVars
<1> QED BY <1>1, <1>2, <1>3 DEF StoreInv

LEMMA StoreInvNext == StoreInv /\ [StoreNext]_storeVars => StoreInv'
<1> SUFFICES ASSUME StoreInv, [StoreNext]_storeVars PROVE StoreInv'
  OBVIOUS
<1>1. ASSUME NEW j \in Jobs, Create(j) \/ LockExpires(j) PROVE StoreInv'
  BY <1>1, CreateInv, LockExpiresInv
<1>2. ASSUME NEW c \in Clients, NEW op \in Calls, Begin(c, op) PROVE StoreInv'
  BY <1>2, BeginInv
<1>3. ASSUME NEW c \in Clients, StoreStep(c) PROVE StoreInv'
  BY <1>3, ReadInv, ExecCommitsInv, ExecRetriesInv, LockCheckInv, LockSetInv,
     LockRecheckInv, UnlockReadInv, UnlockExecInv DEF StoreStep
<1>4. ASSUME NEW c \in Clients, ClientDies(c) \/ ConnectionFails(c) PROVE StoreInv'
  BY <1>4, ClientDiesInv, ConnectionFailsInv
<1>5. CASE UNCHANGED storeVars
  BY <1>5, StutterInv
<1> QED BY <1>1, <1>2, <1>3, <1>4, <1>5 DEF StoreNext

\* Every reachable state of the store satisfies the inductive invariant.
THEOREM StoreInvariant == StoreSpec => []StoreInv
<1>1. StoreInit => StoreInv
  BY StoreInvInit
<1>2. StoreInv /\ [StoreNext]_storeVars => StoreInv'
  BY StoreInvNext
<1> QED BY <1>1, <1>2, PTL DEF StoreSpec

\* Type correctness of the keys and of the clients' local state.
THEOREM StoreTypeCorrect == StoreSpec => []StoreTypeOK
<1>1. StoreInv => StoreTypeOK
  BY DEF StoreInv
<1> QED BY <1>1, StoreInvariant, PTL

\* Optimistic locking works: an EXEC that succeeds writes an update that was
\* computed from the values it replaces.
THEOREM CleanReadsAreCurrent == StoreSpec => []CleanReadIsCurrent
<1>1. StoreInv => CleanReadIsCurrent
  BY DEF StoreInv
<1> QED BY <1>1, StoreInvariant, PTL

\* A release never deletes the lock of another client.
THEOREM UnlocksAreOwn == StoreSpec => []UnlockIsOwn
<1>1. StoreInv => UnlockIsOwn
  BY DEF StoreInv
<1> QED BY <1>1, StoreInvariant, PTL

-----------------------------------------------------------------------------
\* The store implements JobContract.

LEMMA TwoFields ==
  ASSUME NEW e \in Envelope, NEW r \in ResultStatus
  PROVE  [status |-> r, result |-> r, decision |-> e.decision]
           = [e EXCEPT !.status = r, !.result = r]
<1>1. PICK f : f = [e EXCEPT !.status = r, !.result = r]
  OBVIOUS
<1>2. f = [status |-> r, result |-> r, decision |-> e.decision]
  BY <1>1 DEF Envelope
<1> QED BY <1>1, <1>2

LEMMA InitImplements == StoreInit => Contract!Init
BY DEF StoreInit, Contract!Init

LEMMA CreateImplements ==
  ASSUME NEW j \in Jobs, Create(j) PROVE Contract!Create(j)
BY DEF Create, Contract!Create, Contract!Exists, NewEnvelope, Contract!NewEnvelope,
       CreatedEvent, Contract!CreatedEvent

\* An EXEC that succeeds is one operation of the contract: the update was
\* computed from the current envelope, and its event gets the next number.
LEMMA CommitImplements ==
  ASSUME StoreInv, NEW c \in Clients, ExecCommits(c) PROVE Contract!Next
<1> DEFINE op == call[c]
           j  == op.job
           e  == envelope[j]
<1>1. /\ phase[c] = "exec" /\ clean[c] /\ op \in MutationCalls /\ op \in Calls
      /\ j \in Jobs /\ seen[c] = e /\ e \in Envelope /\ ~ Refuses(op, e)
      /\ seenSeq[c] = Len(events[j]) /\ holder[c] = op.record
  BY CallKinds DEF StoreInv, CallFits, ReadFits, HolderFits, CleanReadIsCurrent,
                   SequenceCounts, ExecCommits, MutationCalls, Calls
<1>2. /\ envelope' = [envelope EXCEPT ![j] = Updated(op, e)]
      /\ events' = [events EXCEPT ![j] =
                      Append(@, [id     |-> Len(events[j]) + 1,
                                 event  |-> EventName(op),
                                 status |-> Updated(op, e).status,
                                 record |-> op.record])]
  BY <1>1 DEF ExecCommits, NextEvent
<1>3. Contract!Exists(j) /\ IsTerminal(e) = Contract!IsTerminal(e)
  BY <1>1, NullIsNoRecord
     DEF Contract!Exists, IsTerminal, Contract!IsTerminal, Terminal, Contract!Terminal
<1>4. CASE op \in UpdateCalls
  <2>1. op.kind = "update_status" /\ op.status \in SettableStatus /\ op.record = Null
    BY <1>4 DEF UpdateCalls
  <2>2. Updated(op, e) = [e EXCEPT !.status = op.status] /\ EventName(op) = "status"
    BY <1>1, <2>1 DEF Updated, EventName, Envelope
  <2>3. ~ IsTerminal(e) /\ e.status # op.status
    BY <1>1, <2>1 DEF Refuses
  <2>4. Contract!UpdateStatus(j, op.status)
    BY <1>2, <1>3, <2>1, <2>2, <2>3 DEF Contract!UpdateStatus, Contract!Commit
  <2> QED BY <1>1, <2>1, <2>4
          DEF Contract!Next, SettableStatus, Contract!SettableStatus
<1>5. CASE op \in ResultCalls
  <2>1. op.kind = "set_result" /\ op.status \in ResultStatus /\ op.record = Null
    BY <1>5 DEF ResultCalls
  <2>2. /\ Updated(op, e) = [e EXCEPT !.status = op.status, !.result = op.status]
        /\ EventName(op) = "result"
    <3>1. Updated(op, e) = [status |-> op.status, result |-> op.status,
                            decision |-> e.decision]
      BY <2>1 DEF Updated
    <3>2. [e EXCEPT !.status = op.status, !.result = op.status]
            = [status |-> op.status, result |-> op.status, decision |-> e.decision]
      BY <1>1, <2>1, TwoFields
    <3>3. EventName(op) = "result"
      BY <2>1 DEF EventName
    <3> QED BY <3>1, <3>2, <3>3
  <2>3. ~ IsTerminal(e)
    BY <1>1, <2>1 DEF Refuses
  <2>4. Contract!SetResult(j, op.status)
    BY <1>2, <1>3, <2>1, <2>2, <2>3 DEF Contract!SetResult, Contract!Commit
  <2> QED BY <1>1, <2>1, <2>4
          DEF Contract!Next, ResultStatus, Contract!ResultStatus, Terminal, Contract!Terminal
<1>6. CASE op \in DecisionCalls
  <2>1. op.kind = "record_operator_decision" /\ op.record \in DecisionRecord
    BY <1>6 DEF DecisionCalls
  <2>2. /\ Updated(op, e) = [e EXCEPT !.decision = op.record]
        /\ EventName(op) = "operator_decision"
    BY <1>1, <2>1 DEF Updated, EventName, Envelope
  <2>3. IsTerminal(e) /\ e.decision = Null
    BY <1>1, <2>1 DEF Refuses
  <2>4. Contract!RecordDecision(j, op.record)
    BY <1>2, <1>3, <2>1, <2>2, <2>3 DEF Contract!RecordDecision, Contract!Commit
  <2> QED BY <1>1, <2>1, <2>4
          DEF Contract!Next, DecisionRecord, Contract!DecisionRecord,
              DecisionKinds, Contract!DecisionKinds
<1> QED BY <1>1, <1>4, <1>5, <1>6 DEF MutationCalls

\* Only create and a successful EXEC write an envelope or an event.
LEMMA StepWrites ==
  ASSUME [StoreNext]_storeVars
  PROVE  \/ \E j \in Jobs : Create(j)
         \/ \E c \in Clients : ExecCommits(c)
         \/ UNCHANGED <<envelope, events>>
<1>1. ASSUME NEW j \in Jobs, LockExpires(j) PROVE UNCHANGED <<envelope, events>>
  BY <1>1 DEF LockExpires
<1>2. ASSUME NEW c \in Clients, NEW op \in Calls, Begin(c, op)
      PROVE  UNCHANGED <<envelope, events>>
  BY <1>2 DEF Begin, keys
<1>3. ASSUME NEW c \in Clients, StoreStep(c), ~ ExecCommits(c)
      PROVE  UNCHANGED <<envelope, events>>
  BY <1>3 DEF StoreStep, Read, ExecRetries, LockCheck, LockSet, LockRecheck,
              UnlockRead, UnlockExec, keys
<1>4. ASSUME NEW c \in Clients, ClientDies(c) \/ ConnectionFails(c)
      PROVE  UNCHANGED <<envelope, events>>
  BY <1>4 DEF ClientDies, ConnectionFails, keys
<1>5. CASE UNCHANGED storeVars
  BY <1>5 DEF storeVars, keys
<1> QED BY <1>1, <1>2, <1>3, <1>4, <1>5 DEF StoreNext

LEMMA StepImplements ==
  StoreInv /\ [StoreNext]_storeVars => [Contract!Next]_(Contract!vars)
<1> SUFFICES ASSUME StoreInv, [StoreNext]_storeVars
             PROVE  Contract!Next \/ UNCHANGED <<envelope, events>>
  BY DEF Contract!vars
<1>1. ASSUME NEW j \in Jobs, Create(j) PROVE Contract!Next
  BY <1>1, CreateImplements DEF Contract!Next
<1>2. ASSUME NEW c \in Clients, ExecCommits(c) PROVE Contract!Next
  BY <1>2, CommitImplements
<1> QED BY <1>1, <1>2, StepWrites

\* The redis store implements the store with atomic operations.
THEOREM StoreImplementsContract == StoreSpec => ContractSpec
<1>1. StoreInit => Contract!Init
  BY InitImplements
<1>2. StoreInv /\ [StoreNext]_storeVars => [Contract!Next]_(Contract!vars)
  BY StepImplements
<1> QED BY <1>1, <1>2, StoreInvariant, PTL DEF StoreSpec, ContractSpec, Contract!Spec

-----------------------------------------------------------------------------
\* The log in redis tells the job in redis.

LogInv ==
    \A j \in Jobs : IF envelope[j] = Null THEN events[j] = <<>>
                                           ELSE Consistent(envelope[j], events[j])

\* What an EXEC that succeeds writes is a mutation of what was there.
LEMMA CommitMutates ==
  ASSUME StoreInv, LogInv, NEW c \in Clients, ExecCommits(c)
  PROVE  \E j \in Jobs : \E f, v :
            /\ envelope[j] # Null
            /\ envelope' = [envelope EXCEPT ![j] = f]
            /\ events' = [events EXCEPT ![j] = Append(@, v)]
            /\ Consistent(f, Append(events[j], v))
            /\ KeepsOutcome(envelope[j], f)
<1> DEFINE op == call[c]
           j  == op.job
           e  == envelope[j]
           f  == Updated(op, e)
           v  == [id |-> Len(events[j]) + 1, event |-> EventName(op),
                  status |-> f.status, record |-> op.record]
<1>1. /\ clean[c] /\ op \in MutationCalls /\ op \in Calls
      /\ j \in Jobs /\ seen[c] = e /\ e \in Envelope /\ ~ Refuses(op, e)
      /\ seenSeq[c] = Len(events[j]) /\ holder[c] = op.record
  BY CallKinds DEF StoreInv, CallFits, ReadFits, HolderFits, CleanReadIsCurrent,
                   SequenceCounts, ExecCommits, MutationCalls, Calls
<1>2. envelope' = [envelope EXCEPT ![j] = f] /\ events' = [events EXCEPT ![j] = Append(@, v)]
  BY <1>1 DEF ExecCommits, NextEvent
<1>3. e # Null /\ Consistent(e, events[j])
  BY <1>1, NullIsNoRecord DEF LogInv
<1>4. ASSUME op \in UpdateCalls
      PROVE  Consistent(f, Append(events[j], v)) /\ KeepsOutcome(e, f)
  <2>1. op.kind = "update_status" /\ op.status \in SettableStatus /\ op.record = Null
    BY <1>4 DEF UpdateCalls
  <2>2. f = [e EXCEPT !.status = op.status] /\ EventName(op) = "status" /\ ~ IsTerminal(e)
    BY <1>1, <2>1 DEF Updated, EventName, Envelope, Refuses
  <2>3. StatusMutation(e, f, v, Len(events[j]) + 1)
    BY <2>1, <2>2 DEF StatusMutation
  <2> QED BY <1>1, <1>3, <2>3, StatusConsistent, MutationKeepsOutcome
<1>5. ASSUME op \in ResultCalls
      PROVE  Consistent(f, Append(events[j], v)) /\ KeepsOutcome(e, f)
  <2>1. op.kind = "set_result" /\ op.status \in ResultStatus /\ op.record = Null
    BY <1>5 DEF ResultCalls
  <2>2. EventName(op) = "result" /\ ~ IsTerminal(e)
    BY <1>1, <2>1 DEF EventName, Refuses
  <2>3. f = [status |-> op.status, result |-> op.status, decision |-> e.decision]
    BY <2>1 DEF Updated
  <2>4. f = [e EXCEPT !.status = op.status, !.result = op.status]
    BY <1>1, <2>1, <2>3, TwoFields
  <2>5. ResultMutation(e, f, v, Len(events[j]) + 1)
    BY <2>1, <2>2, <2>4 DEF ResultMutation
  <2> QED BY <1>1, <1>3, <2>5, ResultConsistent, MutationKeepsOutcome
<1>6. ASSUME op \in DecisionCalls
      PROVE  Consistent(f, Append(events[j], v)) /\ KeepsOutcome(e, f)
  <2>1. op.kind = "record_operator_decision" /\ op.record \in DecisionRecord
    BY <1>6 DEF DecisionCalls
  <2>2. /\ f = [e EXCEPT !.decision = op.record] /\ EventName(op) = "operator_decision"
        /\ IsTerminal(e) /\ e.decision = Null
    BY <1>1, <2>1 DEF Updated, EventName, Envelope, Refuses
  <2>3. DecisionMutation(e, f, v, Len(events[j]) + 1)
    BY <2>1, <2>2 DEF DecisionMutation
  <2> QED BY <1>1, <1>3, <2>3, DecisionConsistent, MutationKeepsOutcome
<1>7. Consistent(f, Append(events[j], v)) /\ KeepsOutcome(e, f)
  BY <1>1, <1>4, <1>5, <1>6 DEF MutationCalls
<1> HIDE DEF f, v
<1> QED BY <1>1, <1>2, <1>3, <1>7

LEMMA LogInvNext == StoreInv /\ LogInv /\ [StoreNext]_storeVars => LogInv'
<1> SUFFICES ASSUME StoreInv, LogInv, [StoreNext]_storeVars, NEW k \in Jobs
             PROVE  IF envelope'[k] = Null THEN events'[k] = <<>>
                                            ELSE Consistent(envelope'[k], events'[k])
  BY DEF LogInv
<1>1. ASSUME NEW j \in Jobs, Create(j)
      PROVE  IF envelope'[k] = Null THEN events'[k] = <<>>
                                     ELSE Consistent(envelope'[k], events'[k])
  <2>1. CASE k = j
    <3>1. envelope'[k] = NewEnvelope /\ events'[k] = <<CreatedEvent>>
      BY <1>1, <2>1 DEF Create, StoreInv, StoreTypeOK
    <3>2. NewEnvelope # Null
      BY NewJobConsistent, NullIsNoRecord DEF Consistent
    <3> QED BY <3>1, <3>2, NewJobConsistent
  <2>2. CASE k # j
    <3>1. envelope'[k] = envelope[k] /\ events'[k] = events[k]
      BY <1>1, <2>2 DEF Create, StoreInv, StoreTypeOK
    <3> QED BY <3>1 DEF LogInv
  <2> QED BY <2>1, <2>2
<1>2. ASSUME NEW c \in Clients, ExecCommits(c)
      PROVE  IF envelope'[k] = Null THEN events'[k] = <<>>
                                     ELSE Consistent(envelope'[k], events'[k])
  <2>0. PICK j \in Jobs : \E f, v :
           /\ envelope[j] # Null
           /\ envelope' = [envelope EXCEPT ![j] = f]
           /\ events' = [events EXCEPT ![j] = Append(@, v)]
           /\ Consistent(f, Append(events[j], v))
    BY <1>2, CommitMutates
  <2>1. PICK f, v :
           /\ envelope[j] # Null
           /\ envelope' = [envelope EXCEPT ![j] = f]
           /\ events' = [events EXCEPT ![j] = Append(@, v)]
           /\ Consistent(f, Append(events[j], v))
    BY <2>0
  <2>2. CASE k = j
    <3>1. envelope'[k] = f /\ events'[k] = Append(events[k], v) /\ f # Null
      BY <2>1, <2>2, NullIsNoRecord DEF StoreInv, StoreTypeOK, Consistent
    <3> QED BY <2>1, <2>2, <3>1
  <2>3. CASE k # j
    <3>1. envelope'[k] = envelope[k] /\ events'[k] = events[k]
      BY <2>1, <2>3 DEF StoreInv, StoreTypeOK
    <3> QED BY <3>1 DEF LogInv
  <2> QED BY <2>2, <2>3
<1>3. CASE UNCHANGED <<envelope, events>>
  BY <1>3 DEF LogInv
<1> QED BY <1>1, <1>2, <1>3, StepWrites

LEMMA LogInvariant == StoreSpec => [](StoreInv /\ LogInv)
<1>1. StoreInit => LogInv
  BY DEF StoreInit, LogInv
<1>2. StoreInv /\ LogInv /\ [StoreNext]_storeVars => LogInv'
  BY LogInvNext
<1> QED BY <1>1, <1>2, StoreInvariant, PTL DEF StoreSpec

\* Event ids are 1, 2, 3, ... in every job, and the sequence key counts them.
THEOREM SequenceNumbers == StoreSpec => []SequenceNumbersLog
<1>1. StoreInv /\ LogInv => SequenceNumbersLog
  <2> SUFFICES ASSUME StoreInv, LogInv PROVE SequenceNumbersLog
    OBVIOUS
  <2>1. ASSUME NEW j \in Jobs, NEW i \in 1..Len(events[j]) PROVE events[j][i].id = i
    <3>1. events[j] # <<>>
      OBVIOUS
    <3> QED BY <3>1 DEF LogInv, Consistent, Numbered
  <2> QED BY <2>1 DEF SequenceNumbersLog, Contract!LogIsNumbered, StoreInv, SequenceCounts
<1> QED BY <1>1, LogInvariant, PTL

\* What a log that is consistent with its envelope says of it.
LEMMA LogInvTells ==
  ASSUME LogInv
  PROVE  LogIsCurrent /\ LogTellsOutcome
<1>1. \A j \in Jobs : envelope[j] = Null => events[j] = <<>>
  BY DEF LogInv
<1>2. \A j \in Jobs : envelope[j] # Null => Consistent(envelope[j], events[j])
  BY DEF LogInv
<1>3. LogIsCurrent
  BY <1>1, <1>2 DEF LogIsCurrent, Contract!LogIsCurrent, Consistent, Current
<1>4. Contract!Terminal = Terminal
  BY DEF Contract!Terminal, Terminal
<1>5. Contract!TerminalEventIsLast
  BY <1>1, <1>2, <1>4
     DEF Contract!TerminalEventIsLast, Consistent, TerminalLast
<1>6. Contract!DecisionIsLogged
  BY <1>2, <1>4 DEF Contract!DecisionIsLogged, Contract!IsTerminal,
                    IsTerminal, Consistent, DecisionLogged
<1>7. Contract!ResultIsLogged
  BY <1>2 DEF Contract!ResultIsLogged, Consistent, ResultLogged
<1> QED BY <1>3, <1>5, <1>6, <1>7 DEF LogTellsOutcome

\* The log of a job in redis ends with the status of the job's envelope.
THEOREM LogTellsEnvelope == StoreSpec => []LogIsCurrent
<1>1. LogInv => LogIsCurrent
  BY LogInvTells
<1> QED BY <1>1, LogInvariant, PTL

\* The log of a job in redis has nothing but a decision after a terminal event,
\* and reports a result and a decision exactly when the envelope has them.
THEOREM LogTellsTheOutcome == StoreSpec => []LogTellsOutcome
<1>1. LogInv => LogTellsOutcome
  BY LogInvTells
<1> QED BY <1>1, LogInvariant, PTL

\* A terminal status, its result and the first decision are never replaced,
\* whatever transactions, retries, late workers and crashes follow.
THEOREM OutcomeFinalInStore == StoreSpec => OutcomeIsFinal
<1> DEFINE Final(k) ==
      envelope[k] # Null =>
          /\ envelope'[k] # Null
          /\ Contract!IsTerminal(envelope[k]) =>
                /\ envelope'[k].status = envelope[k].status
                /\ envelope'[k].result = envelope[k].result
          /\ envelope[k].decision # Null => envelope'[k].decision = envelope[k].decision
<1>1. ASSUME StoreInv, LogInv, [StoreNext]_storeVars, NEW k \in Jobs PROVE Final(k)
  <2> SUFFICES ASSUME envelope[k] # Null PROVE Final(k)
    OBVIOUS
  <2>1. ASSUME envelope'[k] = envelope[k] PROVE Final(k)
    BY <2>1
  <2>2. ASSUME NEW j \in Jobs, Create(j) PROVE envelope'[k] = envelope[k]
    BY <1>1, <2>2 DEF Create, StoreInv, StoreTypeOK
  <2>3. ASSUME NEW c \in Clients, ExecCommits(c) PROVE Final(k)
    <3>0. PICK j \in Jobs : \E f, v :
             /\ envelope' = [envelope EXCEPT ![j] = f]
             /\ Consistent(f, Append(events[j], v))
             /\ KeepsOutcome(envelope[j], f)
      BY <1>1, <2>3, CommitMutates
    <3>1. PICK f, v :
             /\ envelope' = [envelope EXCEPT ![j] = f]
             /\ Consistent(f, Append(events[j], v))
             /\ KeepsOutcome(envelope[j], f)
      BY <3>0
    <3>2. CASE k # j
      BY <1>1, <2>1, <3>1, <3>2 DEF StoreInv, StoreTypeOK
    <3>3. CASE k = j
      <4>1. envelope'[k] = f /\ f # Null
        BY <1>1, <3>1, <3>3, NullIsNoRecord DEF StoreInv, StoreTypeOK, Consistent
      <4> QED BY <3>1, <3>3, <4>1
              DEF KeepsOutcome, IsTerminal, Terminal, Contract!IsTerminal, Contract!Terminal
    <3> QED BY <3>2, <3>3
  <2>4. CASE UNCHANGED <<envelope, events>>
    BY <2>1, <2>4
  <2> QED BY <1>1, <2>1, <2>2, <2>3, <2>4, StepWrites
<1>2. StoreInv /\ LogInv /\ [StoreNext]_storeVars => [\A j \in Jobs : Final(j)]_<<envelope, events>>
  BY <1>1
<1>3. StoreSpec => [][\A j \in Jobs : Final(j)]_<<envelope, events>>
  BY <1>2, LogInvariant, PTL DEF StoreSpec
<1> QED BY <1>3 DEF OutcomeIsFinal, Contract!OutcomeIsFinal, Contract!vars

=============================================================================
