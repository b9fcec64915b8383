----------------------------- MODULE JobContract -----------------------------
(***************************************************************************)
(* What a job store promises, with every operation atomic: a job is created*)
(* queued, leaves a terminal status never again, takes a result and an     *)
(* operator decision at most once each, and explains every change by one   *)
(* event of an append-only log numbered 1, 2, 3, ...                       *)
(*                                                                         *)
(* The redis store (RedisJobStore) implements this with WATCH/MULTI/EXEC   *)
(* transactions of several clients.  The in-memory store of the local mode *)
(* has a weaker decision operation and does not.                           *)
(***************************************************************************)
EXTENDS JobRecord

VARIABLES
    job,    \* job[j]: the stored envelope, Null before create
    log     \* log[j]: the events of j in the order they were appended

vars == <<job, log>>

Init ==
    /\ job = [j \in Jobs |-> Null]
    /\ log = [j \in Jobs |-> <<>>]

Exists(j) == job[j] # Null

\* One mutation of the envelope together with the event that reports it.
Commit(j, envelope, name, record) ==
    /\ job' = [job EXCEPT ![j] = envelope]
    /\ log' = [log EXCEPT ![j] =
                 Append(@, [id     |-> Len(log[j]) + 1,
                            event  |-> name,
                            status |-> envelope.status,
                            record |-> record])]

Create(j) ==
    /\ ~ Exists(j)
    /\ job' = [job EXCEPT ![j] = NewEnvelope]
    /\ log' = [log EXCEPT ![j] = <<CreatedEvent>>]

UpdateStatus(j, s) ==
    /\ Exists(j)
    /\ ~ IsTerminal(job[j])
    /\ job[j].status # s
    /\ Commit(j, [job[j] EXCEPT !.status = s], "status", Null)

SetResult(j, r) ==
    /\ Exists(j)
    /\ ~ IsTerminal(job[j])
    /\ Commit(j, [job[j] EXCEPT !.status = r, !.result = r], "result", Null)

RecordDecision(j, d) ==
    /\ Exists(j)
    /\ IsTerminal(job[j])
    /\ job[j].decision = Null
    /\ Commit(j, [job[j] EXCEPT !.decision = d], "operator_decision", d)

Next ==
    \E j \in Jobs :
        \/ Create(j)
        \/ \E s \in SettableStatus : UpdateStatus(j, s)
        \/ \E r \in ResultStatus : SetResult(j, r)
        \/ \E d \in DecisionRecord : RecordDecision(j, d)

Spec == Init /\ [][Next]_vars

-----------------------------------------------------------------------------
\* What the code keeps true of every job.

TypeOK ==
    /\ job \in [Jobs -> Envelope \cup {Null}]
    /\ log \in [Jobs -> Seq(Event)]

\* Event ids of a job are 1..n without gap or repetition: the SSE cursor
\* (Last-Event-ID) relies on it.
LogIsNumbered ==
    \A j \in Jobs : \A i \in 1..Len(log[j]) : log[j][i].id = i

\* A job exists exactly when its log does, and the last event carries the
\* status the envelope has: a reader of the log is never left behind.
LogIsCurrent ==
    \A j \in Jobs :
        IF job[j] = Null
        THEN log[j] = <<>>
        ELSE /\ log[j] # <<>>
             /\ log[j][Len(log[j])].status = job[j].status

\* Nothing but the operator decision follows the event that reports a
\* terminal status, and it repeats that status.
TerminalEventIsLast ==
    \A j \in Jobs : \A i, k \in 1..Len(log[j]) :
        i < k /\ log[j][i].status \in Terminal =>
            /\ log[j][k].event = "operator_decision"
            /\ log[j][k].status = log[j][i].status

\* A decision is only stored about a job in a terminal status, and then the
\* last event of the log, and no other, reports it with its operator.
DecisionIsLogged ==
    \A j \in Jobs : job[j] # Null =>
        /\ job[j].decision # Null =>
              /\ IsTerminal(job[j])
              /\ log[j][Len(log[j])].event = "operator_decision"
        /\ \A i \in 1..Len(log[j]) : log[j][i].event = "operator_decision" =>
              /\ i = Len(log[j])
              /\ job[j].decision # Null
              /\ log[j][i].record = job[j].decision

\* There is a stored result exactly when an event reports one, and the job has
\* the status of its result.
ResultIsLogged ==
    \A j \in Jobs : job[j] # Null =>
        /\ job[j].result # Null => job[j].status = job[j].result
        /\ job[j].result # Null <=>
              \E i \in 1..Len(log[j]) : log[j][i].event = "result"

\* Status and result of a job in a terminal status never change again, and the
\* first decision recorded about it is the only one.
OutcomeIsFinal ==
    [][\A j \in Jobs : job[j] # Null =>
          /\ job'[j] # Null
          /\ IsTerminal(job[j]) =>
                /\ job'[j].status = job[j].status
                /\ job'[j].result = job[j].result
          /\ job[j].decision # Null => job'[j].decision = job[j].decision]_vars

=============================================================================
