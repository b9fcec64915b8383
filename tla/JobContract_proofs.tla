-------------------------- MODULE JobContract_proofs --------------------------
(***************************************************************************)
(* Proofs about JobContract, for any set of jobs and operators.  The       *)
(* inductive invariant JobInv says that every job that exists is           *)
(* consistent with its log (JobLog_proofs).                                *)
(***************************************************************************)
EXTENDS JobContract, JobLog_proofs

JobInv ==
    /\ job \in [Jobs -> Envelope \cup {Null}]
    /\ log \in [Jobs -> Seq(Event)]
    /\ \A j \in Jobs : IF job[j] = Null THEN log[j] = <<>>
                                         ELSE Consistent(job[j], log[j])

-----------------------------------------------------------------------------
\* The invariant.

LEMMA JobInvInit == Init => JobInv
BY DEF Init, JobInv

\* A step that writes one existing job by a mutation of its envelope.
LEMMA CommitJobInv ==
  ASSUME JobInv, NEW j \in Jobs, job[j] # Null, NEW f, NEW v,
         Consistent(f, Append(log[j], v)),
         job' = [job EXCEPT ![j] = f],
         log' = [log EXCEPT ![j] = Append(@, v)]
  PROVE  JobInv'
<1>1. f \in Envelope /\ Append(log[j], v) \in Seq(Event) /\ f # Null
  BY NullAssumption DEF Consistent
<1>2. job' \in [Jobs -> Envelope \cup {Null}] /\ log' \in [Jobs -> Seq(Event)]
  BY <1>1 DEF JobInv
<1>3. ASSUME NEW k \in Jobs
      PROVE  IF job'[k] = Null THEN log'[k] = <<>> ELSE Consistent(job'[k], log'[k])
  <2>1. CASE k = j
    <3>1. job'[j] = f /\ log'[j] = Append(log[j], v)
      BY DEF JobInv
    <3> QED BY <1>1, <2>1, <3>1
  <2>2. CASE k # j
    <3>1. job'[k] = job[k] /\ log'[k] = log[k]
      BY <2>2 DEF JobInv
    <3> QED BY <3>1 DEF JobInv
  <2> QED BY <2>1, <2>2
<1> QED BY <1>2, <1>3 DEF JobInv

\* No operation breaks the invariant.
LEMMA JobInvNext == JobInv /\ [Next]_vars => JobInv'
<1> SUFFICES ASSUME JobInv, [Next]_vars PROVE JobInv'
  OBVIOUS
<1>1. ASSUME NEW j \in Jobs, Create(j) PROVE JobInv'
  <2>1. NewEnvelope \in Envelope /\ <<CreatedEvent>> \in Seq(Event) /\ NewEnvelope # Null
    BY NewJobConsistent, NullAssumption DEF Consistent
  <2>2. job' \in [Jobs -> Envelope \cup {Null}] /\ log' \in [Jobs -> Seq(Event)]
    BY <1>1, <2>1 DEF JobInv, Create
  <2>3. ASSUME NEW k \in Jobs
        PROVE  IF job'[k] = Null THEN log'[k] = <<>> ELSE Consistent(job'[k], log'[k])
    <3>1. CASE k = j
      BY <1>1, <2>1, <3>1, NewJobConsistent DEF JobInv, Create
    <3>2. CASE k # j
      BY <1>1, <3>2 DEF JobInv, Create
    <3> QED BY <3>1, <3>2
  <2> QED BY <2>2, <2>3 DEF JobInv
<1>2. ASSUME NEW j \in Jobs, NEW s \in SettableStatus, UpdateStatus(j, s)
      PROVE  JobInv'
  <2> DEFINE f == [job[j] EXCEPT !.status = s]
             v == [id |-> Len(log[j]) + 1, event |-> "status",
                   status |-> f.status, record |-> Null]
  <2>1. job[j] # Null /\ Consistent(job[j], log[j])
    BY <1>2 DEF UpdateStatus, Exists, JobInv
  <2>2. StatusMutation(job[j], f, v, Len(log[j]) + 1)
    BY <1>2 DEF UpdateStatus, StatusMutation
  <2>3. Consistent(f, Append(log[j], v))
    BY <2>1, <2>2, StatusConsistent
  <2>4. job' = [job EXCEPT ![j] = f] /\ log' = [log EXCEPT ![j] = Append(@, v)]
    BY <1>2 DEF UpdateStatus, Commit
  <2> QED BY <2>1, <2>3, <2>4, CommitJobInv
<1>3. ASSUME NEW j \in Jobs, NEW r \in ResultStatus, SetResult(j, r)
      PROVE  JobInv'
  <2> DEFINE f == [job[j] EXCEPT !.status = r, !.result = r]
             v == [id |-> Len(log[j]) + 1, event |-> "result",
                   status |-> f.status, record |-> Null]
  <2>1. job[j] # Null /\ Consistent(job[j], log[j])
    BY <1>3 DEF SetResult, Exists, JobInv
  <2>2. ResultMutation(job[j], f, v, Len(log[j]) + 1)
    BY <1>3 DEF SetResult, ResultMutation
  <2>3. Consistent(f, Append(log[j], v))
    BY <2>1, <2>2, ResultConsistent
  <2>4. job' = [job EXCEPT ![j] = f] /\ log' = [log EXCEPT ![j] = Append(@, v)]
    BY <1>3 DEF SetResult, Commit
  <2> QED BY <2>1, <2>3, <2>4, CommitJobInv
<1>4. ASSUME NEW j \in Jobs, NEW d \in DecisionRecord, RecordDecision(j, d)
      PROVE  JobInv'
  <2> DEFINE f == [job[j] EXCEPT !.decision = d]
             v == [id |-> Len(log[j]) + 1, event |-> "operator_decision",
                   status |-> f.status, record |-> d]
  <2>1. job[j] # Null /\ Consistent(job[j], log[j])
    BY <1>4 DEF RecordDecision, Exists, JobInv
  <2>2. DecisionMutation(job[j], f, v, Len(log[j]) + 1)
    BY <1>4 DEF RecordDecision, DecisionMutation
  <2>3. Consistent(f, Append(log[j], v))
    BY <2>1, <2>2, DecisionConsistent
  <2>4. job' = [job EXCEPT ![j] = f] /\ log' = [log EXCEPT ![j] = Append(@, v)]
    BY <1>4 DEF RecordDecision, Commit
  <2> QED BY <2>1, <2>3, <2>4, CommitJobInv
<1>5. CASE UNCHANGED vars
  BY <1>5 DEF vars, JobInv
<1> QED BY <1>1, <1>2, <1>3, <1>4, <1>5 DEF Next

\* Every reachable state satisfies the invariant.
THEOREM JobInvariant == Spec => []JobInv
<1>1. Init => JobInv
  BY JobInvInit
<1>2. JobInv /\ [Next]_vars => JobInv'
  BY JobInvNext
<1> QED BY <1>1, <1>2, PTL DEF Spec

\* What the invariant says about the named properties.
LEMMA JobInvImplies ==
  JobInv => /\ TypeOK /\ LogIsNumbered /\ LogIsCurrent
            /\ TerminalEventIsLast /\ DecisionIsLogged /\ ResultIsLogged
<1> SUFFICES ASSUME JobInv
             PROVE  /\ TypeOK /\ LogIsNumbered /\ LogIsCurrent
                    /\ TerminalEventIsLast /\ DecisionIsLogged /\ ResultIsLogged
  OBVIOUS
<1>1. TypeOK
  BY DEF JobInv, TypeOK
<1>2. \A j \in Jobs : job[j] = Null => log[j] = <<>>
  BY DEF JobInv
<1>3. \A j \in Jobs : job[j] # Null => Consistent(job[j], log[j])
  BY DEF JobInv
<1>4. LogIsNumbered
  BY <1>2, <1>3 DEF LogIsNumbered, Consistent, Numbered
<1>5. LogIsCurrent
  BY <1>2, <1>3 DEF LogIsCurrent, Consistent, Current
<1>6. TerminalEventIsLast
  BY <1>2, <1>3 DEF TerminalEventIsLast, Consistent, TerminalLast
<1>7. DecisionIsLogged
  BY <1>3 DEF DecisionIsLogged, Consistent, DecisionLogged
<1>8. ResultIsLogged
  BY <1>3 DEF ResultIsLogged, Consistent, ResultLogged
<1> QED BY <1>1, <1>4, <1>5, <1>6, <1>7, <1>8

\* The log of every job is numbered 1, 2, 3, ... and ends with the status of
\* the job; nothing but a decision follows a terminal event; decision and result
\* are stored exactly when the log reports them.
THEOREM LogTellsTheJob ==
  Spec => [](/\ TypeOK /\ LogIsNumbered /\ LogIsCurrent
             /\ TerminalEventIsLast /\ DecisionIsLogged /\ ResultIsLogged)
BY JobInvariant, JobInvImplies, PTL

\* No operation replaces the outcome of a job.
LEMMA StepKeepsOutcome ==
  ASSUME JobInv, [Next]_vars, NEW j \in Jobs, job[j] # Null
  PROVE  job'[j] # Null /\ KeepsOutcome(job[j], job'[j])
<1>1. Consistent(job[j], log[j]) /\ job[j] \in Envelope
  BY DEF JobInv, Consistent
<1>2. CASE UNCHANGED vars
  BY <1>2 DEF vars, KeepsOutcome
<1>3. ASSUME NEW k \in Jobs,
             \/ Create(k)
             \/ \E s \in SettableStatus : UpdateStatus(k, s)
             \/ \E r \in ResultStatus : SetResult(k, r)
             \/ \E d \in DecisionRecord : RecordDecision(k, d)
      PROVE  job'[j] # Null /\ KeepsOutcome(job[j], job'[j])
  <2>1. CASE k # j
    <3>1. job'[j] = job[j]
      BY <1>3, <2>1 DEF JobInv, Create, UpdateStatus, SetResult, RecordDecision, Commit
    <3> QED BY <3>1 DEF KeepsOutcome
  <2>2. CASE k = j
    <3>1. ~ Create(j)
      BY DEF Create, Exists
    <3>2. ASSUME NEW s \in SettableStatus, UpdateStatus(j, s)
          PROVE  job'[j] # Null /\ KeepsOutcome(job[j], job'[j])
      <4>1. ~ IsTerminal(job[j]) /\ job'[j] = [job[j] EXCEPT !.status = s]
        BY <3>2 DEF JobInv, UpdateStatus, Commit
      <4>2. job'[j] \in Envelope /\ job'[j].decision = job[j].decision
        BY <1>1, <4>1 DEF Envelope, SettableStatus, JobStatus, Terminal
      <4> QED BY <4>1, <4>2, NullAssumption DEF KeepsOutcome
    <3>3. ASSUME NEW r \in ResultStatus, SetResult(j, r)
          PROVE  job'[j] # Null /\ KeepsOutcome(job[j], job'[j])
      <4>1. ~ IsTerminal(job[j]) /\ job'[j] = [job[j] EXCEPT !.status = r, !.result = r]
        BY <3>3 DEF JobInv, SetResult, Commit
      <4>2. job'[j] \in Envelope /\ job'[j].decision = job[j].decision
        BY <1>1, <4>1 DEF Envelope, ResultStatus, JobStatus
      <4> QED BY <4>1, <4>2, NullAssumption DEF KeepsOutcome
    <3>4. ASSUME NEW d \in DecisionRecord, RecordDecision(j, d)
          PROVE  job'[j] # Null /\ KeepsOutcome(job[j], job'[j])
      <4>1. job[j].decision = Null /\ job'[j] = [job[j] EXCEPT !.decision = d]
        BY <3>4 DEF JobInv, RecordDecision, Commit
      <4>2. /\ job'[j] \in Envelope
            /\ job'[j].status = job[j].status /\ job'[j].result = job[j].result
        BY <1>1, <4>1 DEF Envelope
      <4> QED BY <4>1, <4>2, NullAssumption DEF KeepsOutcome
    <3> QED BY <1>3, <2>2, <3>1, <3>2, <3>3, <3>4
  <2> QED BY <2>1, <2>2
<1> QED BY <1>2, <1>3 DEF Next

\* The outcome of a job is final: a terminal status, its result and the first
\* decision are never replaced.
THEOREM OutcomeFinal == Spec => OutcomeIsFinal
<1> DEFINE Final(j) ==
      job[j] # Null =>
          /\ job'[j] # Null
          /\ IsTerminal(job[j]) =>
                /\ job'[j].status = job[j].status
                /\ job'[j].result = job[j].result
          /\ job[j].decision # Null => job'[j].decision = job[j].decision
<1>1. JobInv /\ [Next]_vars => [\A j \in Jobs : Final(j)]_vars
  BY StepKeepsOutcome DEF KeepsOutcome
<1>2. Spec => [][\A j \in Jobs : Final(j)]_vars
  BY <1>1, JobInvariant, PTL DEF Spec
<1> QED BY <1>2 DEF OutcomeIsFinal

=============================================================================
