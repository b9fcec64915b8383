---------------------------- MODULE JobLog_proofs ----------------------------
(***************************************************************************)
(* Lemmas about one job and its event log, without any state: what makes   *)
(* an envelope and a log consistent, and that creating a job and each of   *)
(* the three mutations of a store keep them so.  The proofs of JobContract *)
(* and of RedisJobStore rest on them.                                      *)
(***************************************************************************)
EXTENDS JobRecord, TLAPS

\* What holds of a job that exists and of its log.  Each part is a property of
\* JobContract restricted to one job.
Numbered(e, l) == \A i \in 1..Len(l) : l[i].id = i

Current(e, l) == l # <<>> /\ l[Len(l)].status = e.status

TerminalLast(e, l) ==
    \A i, k \in 1..Len(l) : i < k /\ l[i].status \in Terminal =>
        l[k].event = "operator_decision" /\ l[k].status = l[i].status

\* Before the last event of an undecided job nothing is terminal: this is what
\* makes TerminalLast inductive.
OpenBeforeLast(e, l) ==
    e.decision = Null => \A i \in 1..Len(l) - 1 : l[i].status \notin Terminal

DecisionLogged(e, l) ==
    /\ e.decision # Null =>
          IsTerminal(e) /\ l[Len(l)].event = "operator_decision"
    /\ \A i \in 1..Len(l) : l[i].event = "operator_decision" =>
          i = Len(l) /\ e.decision # Null /\ l[i].record = e.decision

ResultLogged(e, l) ==
    /\ e.result # Null => e.status = e.result
    /\ e.result # Null <=> \E i \in 1..Len(l) : l[i].event = "result"

Consistent(e, l) ==
    /\ e \in Envelope
    /\ l \in Seq(Event)
    /\ Numbered(e, l)
    /\ Current(e, l)
    /\ TerminalLast(e, l)
    /\ OpenBeforeLast(e, l)
    /\ DecisionLogged(e, l)
    /\ ResultLogged(e, l)

-----------------------------------------------------------------------------
\* A new job and its log of one event.
LEMMA NewJobConsistent == Consistent(NewEnvelope, <<CreatedEvent>>)
<1> DEFINE l == <<CreatedEvent>>
<1>1. NewEnvelope \in Envelope /\ CreatedEvent \in Event
  BY DEF NewEnvelope, Envelope, CreatedEvent, Event, JobStatus
<1>2. l \in Seq(Event) /\ Len(l) = 1 /\ l[1] = CreatedEvent
  BY <1>1
<1>3. Numbered(NewEnvelope, l) /\ Current(NewEnvelope, l) /\ TerminalLast(NewEnvelope, l)
  BY <1>2 DEF Numbered, Current, TerminalLast, CreatedEvent, NewEnvelope
<1>4. OpenBeforeLast(NewEnvelope, l) /\ DecisionLogged(NewEnvelope, l)
  BY <1>2 DEF OpenBeforeLast, DecisionLogged, CreatedEvent, NewEnvelope
<1>5. ResultLogged(NewEnvelope, l)
  BY <1>2 DEF ResultLogged, CreatedEvent, NewEnvelope
<1> QED BY <1>1, <1>2, <1>3, <1>4, <1>5 DEF Consistent

\* A mutation of a job: the new envelope f, and the event v, number n of the
\* log, that reports it.
StatusMutation(e, f, v, n) ==
    /\ ~ IsTerminal(e)
    /\ \E s \in SettableStatus : f = [e EXCEPT !.status = s]
    /\ v = [id |-> n, event |-> "status", status |-> f.status, record |-> Null]

ResultMutation(e, f, v, n) ==
    /\ ~ IsTerminal(e)
    /\ \E r \in ResultStatus : f = [e EXCEPT !.status = r, !.result = r]
    /\ v = [id |-> n, event |-> "result", status |-> f.status, record |-> Null]

DecisionMutation(e, f, v, n) ==
    /\ IsTerminal(e)
    /\ e.decision = Null
    /\ \E d \in DecisionRecord :
          /\ f = [e EXCEPT !.decision = d]
          /\ v = [id |-> n, event |-> "operator_decision",
                  status |-> f.status, record |-> d]

\* What an event with the next number, appended to a log, leaves as it was.
LEMMA Appended ==
  ASSUME NEW e, NEW l, Consistent(e, l), NEW v \in Event
  PROVE  /\ Append(l, v) \in Seq(Event)
         /\ Len(l) \in Nat /\ Len(l) > 0
         /\ Len(Append(l, v)) = Len(l) + 1
         /\ Append(l, v)[Len(l) + 1] = v
         /\ \A i \in 1..Len(l) : Append(l, v)[i] = l[i]
<1>1. l \in Seq(Event) /\ l # <<>>
  BY DEF Consistent, Current
<1> QED BY <1>1

\* Before a mutation of a job that is not terminal, nothing in the log is.
LEMMA NothingTerminal ==
  ASSUME NEW e, NEW l, Consistent(e, l), ~ IsTerminal(e)
  PROVE  /\ e.decision = Null /\ e.result = Null
         /\ \A i \in 1..Len(l) :
               /\ l[i].status \notin Terminal
               /\ l[i].event \notin {"operator_decision", "result"}
<1>1. l \in Seq(Event) /\ Len(l) > 0
  BY DEF Consistent, Current
<1>2. e.decision = Null
  BY DEF Consistent, DecisionLogged
<1>3. e.result = Null
  BY NullAssumption DEF Consistent, ResultLogged, Envelope, IsTerminal, ResultStatus
<1>4. \A i \in 1..Len(l) : l[i].status \notin Terminal
  BY <1>1, <1>2 DEF Consistent, OpenBeforeLast, Current, IsTerminal
<1>5. \A i \in 1..Len(l) : l[i].event \notin {"operator_decision", "result"}
  BY <1>2, <1>3 DEF Consistent, DecisionLogged, ResultLogged
<1> QED BY <1>2, <1>3, <1>4, <1>5

LEMMA StatusConsistent ==
  ASSUME NEW e, NEW l, Consistent(e, l),
         NEW f, NEW v, StatusMutation(e, f, v, Len(l) + 1)
  PROVE  Consistent(f, Append(l, v))
<1>1. e \in Envelope
  BY DEF Consistent
<1>2. PICK s \in SettableStatus : f = [e EXCEPT !.status = s]
  BY DEF StatusMutation
<1>3. f = [status |-> s, result |-> e.result, decision |-> e.decision]
  BY <1>1, <1>2 DEF Envelope
<1>4. v = [id |-> Len(l) + 1, event |-> "status", status |-> s, record |-> Null]
  BY <1>3 DEF StatusMutation
<1>5. Len(l) \in Nat
  BY DEF Consistent
<1>6. f \in Envelope /\ v \in Event
  BY <1>1, <1>3, <1>4, <1>5 DEF Envelope, Event, JobStatus, SettableStatus, Terminal
<1>7. /\ Append(l, v) \in Seq(Event)
      /\ Len(l) \in Nat /\ Len(l) > 0
      /\ Len(Append(l, v)) = Len(l) + 1
      /\ Append(l, v)[Len(l) + 1] = v
      /\ \A i \in 1..Len(l) : Append(l, v)[i] = l[i]
  BY <1>6, Appended
<1>8. /\ e.decision = Null /\ e.result = Null
      /\ \A i \in 1..Len(l) :
            /\ l[i].status \notin Terminal
            /\ l[i].event \notin {"operator_decision", "result"}
  BY NothingTerminal DEF StatusMutation
<1>9. Numbered(f, Append(l, v)) /\ Current(f, Append(l, v))
  <2>1. Numbered(e, l)
    BY DEF Consistent
  <2>2. v.id = Len(l) + 1 /\ v.status = f.status
    BY <1>3, <1>4
  <2> QED BY <1>7, <2>1, <2>2 DEF Numbered, Current
<1>10. TerminalLast(f, Append(l, v)) /\ OpenBeforeLast(f, Append(l, v))
  BY <1>7, <1>8 DEF TerminalLast, OpenBeforeLast
<1>11. DecisionLogged(f, Append(l, v)) /\ ResultLogged(f, Append(l, v))
  BY <1>3, <1>4, <1>7, <1>8 DEF DecisionLogged, ResultLogged
<1> QED BY <1>6, <1>7, <1>9, <1>10, <1>11 DEF Consistent

LEMMA ResultConsistent ==
  ASSUME NEW e, NEW l, Consistent(e, l),
         NEW f, NEW v, ResultMutation(e, f, v, Len(l) + 1)
  PROVE  Consistent(f, Append(l, v))
<1>1. e \in Envelope
  BY DEF Consistent
<1>2. PICK r \in ResultStatus : f = [e EXCEPT !.status = r, !.result = r]
  BY DEF ResultMutation
<1>3. f = [status |-> r, result |-> r, decision |-> e.decision] /\ r # Null
  BY <1>1, <1>2, NullAssumption DEF Envelope
<1>4. v = [id |-> Len(l) + 1, event |-> "result", status |-> r, record |-> Null]
  BY <1>3 DEF ResultMutation
<1>5. Len(l) \in Nat
  BY DEF Consistent
<1>6. f \in Envelope /\ v \in Event
  BY <1>1, <1>2, <1>3, <1>4, <1>5 DEF Envelope, Event, JobStatus, ResultStatus
<1>7. /\ Append(l, v) \in Seq(Event)
      /\ Len(l) \in Nat /\ Len(l) > 0
      /\ Len(Append(l, v)) = Len(l) + 1
      /\ Append(l, v)[Len(l) + 1] = v
      /\ \A i \in 1..Len(l) : Append(l, v)[i] = l[i]
  BY <1>6, Appended
<1>8. /\ e.decision = Null /\ e.result = Null
      /\ \A i \in 1..Len(l) :
            /\ l[i].status \notin Terminal
            /\ l[i].event \notin {"operator_decision", "result"}
  BY NothingTerminal DEF ResultMutation
<1>9. Numbered(f, Append(l, v)) /\ Current(f, Append(l, v))
  <2>1. Numbered(e, l)
    BY DEF Consistent
  <2>2. v.id = Len(l) + 1 /\ v.status = f.status
    BY <1>3, <1>4
  <2> QED BY <1>7, <2>1, <2>2 DEF Numbered, Current
<1>10. TerminalLast(f, Append(l, v)) /\ OpenBeforeLast(f, Append(l, v))
  BY <1>7, <1>8 DEF TerminalLast, OpenBeforeLast
<1>11. DecisionLogged(f, Append(l, v)) /\ ResultLogged(f, Append(l, v))
  BY <1>3, <1>4, <1>7, <1>8 DEF DecisionLogged, ResultLogged
<1> QED BY <1>6, <1>7, <1>9, <1>10, <1>11 DEF Consistent

LEMMA DecisionConsistent ==
  ASSUME NEW e, NEW l, Consistent(e, l),
         NEW f, NEW v, DecisionMutation(e, f, v, Len(l) + 1)
  PROVE  Consistent(f, Append(l, v))
<1>1. e \in Envelope /\ IsTerminal(e) /\ e.decision = Null
  BY DEF Consistent, DecisionMutation
<1>2. PICK d \in DecisionRecord :
        /\ f = [e EXCEPT !.decision = d]
        /\ v = [id |-> Len(l) + 1, event |-> "operator_decision",
                status |-> f.status, record |-> d]
  BY DEF DecisionMutation
<1>3. f = [status |-> e.status, result |-> e.result, decision |-> d] /\ d # Null
  BY <1>1, <1>2, NullAssumption DEF Envelope
<1>4. v = [id |-> Len(l) + 1, event |-> "operator_decision",
           status |-> e.status, record |-> d]
  BY <1>2, <1>3
<1>5. Len(l) \in Nat
  BY DEF Consistent
<1>6. f \in Envelope /\ v \in Event
  BY <1>1, <1>2, <1>3, <1>4, <1>5 DEF Envelope, Event
<1>7. /\ Append(l, v) \in Seq(Event)
      /\ Len(l) \in Nat /\ Len(l) > 0
      /\ Len(Append(l, v)) = Len(l) + 1
      /\ Append(l, v)[Len(l) + 1] = v
      /\ \A i \in 1..Len(l) : Append(l, v)[i] = l[i]
  BY <1>6, Appended
<1>8. /\ l[Len(l)].status = e.status
      /\ \A i \in 1..Len(l) - 1 : l[i].status \notin Terminal
      /\ \A i \in 1..Len(l) : l[i].event # "operator_decision"
  BY <1>1 DEF Consistent, Current, OpenBeforeLast, DecisionLogged
<1>9. Numbered(f, Append(l, v)) /\ Current(f, Append(l, v))
  <2>1. Numbered(e, l)
    BY DEF Consistent
  <2>2. v.id = Len(l) + 1 /\ v.status = f.status
    BY <1>3, <1>4
  <2> QED BY <1>7, <2>1, <2>2 DEF Numbered, Current
<1>10. TerminalLast(f, Append(l, v)) /\ OpenBeforeLast(f, Append(l, v))
  BY <1>3, <1>4, <1>7, <1>8 DEF TerminalLast, OpenBeforeLast
<1>11. DecisionLogged(f, Append(l, v))
  BY <1>1, <1>3, <1>4, <1>7, <1>8 DEF DecisionLogged, IsTerminal
<1>12. ResultLogged(f, Append(l, v))
  BY <1>3, <1>4, <1>7 DEF Consistent, ResultLogged
<1> QED BY <1>6, <1>7, <1>9, <1>10, <1>11, <1>12 DEF Consistent

-----------------------------------------------------------------------------
\* The outcome in e is still there in f.
KeepsOutcome(e, f) ==
    /\ IsTerminal(e) => f.status = e.status /\ f.result = e.result
    /\ e.decision # Null => f.decision = e.decision

\* No mutation touches an outcome.
LEMMA MutationKeepsOutcome ==
  ASSUME NEW e \in Envelope, NEW f, NEW v, NEW n,
         \/ StatusMutation(e, f, v, n)
         \/ ResultMutation(e, f, v, n)
         \/ DecisionMutation(e, f, v, n)
  PROVE  KeepsOutcome(e, f)
<1>1. CASE StatusMutation(e, f, v, n)
  <2>1. PICK s \in SettableStatus : f = [e EXCEPT !.status = s]
    BY <1>1 DEF StatusMutation
  <2>2. ~ IsTerminal(e) /\ f.decision = e.decision
    BY <1>1, <2>1 DEF StatusMutation, Envelope
  <2> QED BY <2>2 DEF KeepsOutcome
<1>2. CASE ResultMutation(e, f, v, n)
  <2>1. PICK r \in ResultStatus : f = [e EXCEPT !.status = r, !.result = r]
    BY <1>2 DEF ResultMutation
  <2>2. ~ IsTerminal(e) /\ f.decision = e.decision
    BY <1>2, <2>1 DEF ResultMutation, Envelope
  <2> QED BY <2>2 DEF KeepsOutcome
<1>3. CASE DecisionMutation(e, f, v, n)
  <2>1. PICK d \in DecisionRecord : f = [e EXCEPT !.decision = d]
    BY <1>3 DEF DecisionMutation
  <2>2. e.decision = Null /\ f.status = e.status /\ f.result = e.result
    BY <1>3, <2>1 DEF DecisionMutation, Envelope
  <2> QED BY <2>2 DEF KeepsOutcome
<1> QED BY <1>1, <1>2, <1>3

=============================================================================
