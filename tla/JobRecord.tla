------------------------------ MODULE JobRecord ------------------------------
(***************************************************************************)
(* The vocabulary of a what-if job: the statuses a job goes through, what  *)
(* the store keeps about it (JobEnvelope, contracts.py) and what it        *)
(* appends to the job's event log for the SSE stream (JobEvent).  Payloads *)
(* that no property tells apart (request, timestamps, trace ids, messages) *)
(* are left out; the result of a run is represented by its status.         *)
(***************************************************************************)
EXTENDS Naturals, Sequences

CONSTANTS
    Jobs,       \* job ids
    Operators,  \* human operators who may record a decision
    Null        \* "nothing here": no such key, no result, no decision, no lock

\* TERMINAL_STATUSES
Terminal == {"succeeded", "needs_review", "failed", "expired"}

JobStatus == Terminal \cup {"queued", "running"}

\* The statuses the callers of update_status pass.
SettableStatus == {"running", "failed", "expired"}

\* The statuses a WhatIfJobResult can carry.
ResultStatus == Terminal

DecisionKinds == {"approved", "rejected", "request_changes"}

DecisionRecord == [operator : Operators, decision : DecisionKinds]

Envelope ==
    [status   : JobStatus,
     result   : ResultStatus \cup {Null},
     decision : DecisionRecord \cup {Null}]

NewEnvelope == [status |-> "queued", result |-> Null, decision |-> Null]

Event ==
    [id     : Nat,
     event  : {"status", "result", "operator_decision"},
     status : JobStatus,
     record : DecisionRecord \cup {Null}]

CreatedEvent ==
    [id |-> 1, event |-> "status", status |-> "queued", record |-> Null]

IsTerminal(envelope) == envelope.status \in Terminal

\* Null is different from everything it stands in for.
ASSUME NullAssumption ==
    /\ Null \notin Envelope
    /\ Null \notin DecisionRecord
    /\ Null \notin ResultStatus

=============================================================================
