----------------------------- MODULE EventStream -----------------------------
(***************************************************************************)
(* The SSE stream of a job (_event_generator and stream_events, api.py) and*)
(* the browser's EventSource at its other end.  The generator polls the    *)
(* store: it reads the envelope, then the events after its cursor, sends   *)
(* them one by one, and ends when the envelope it read was terminal and no *)
(* further event has appeared.  The store is shared: jobs change between   *)
(* any two of these steps, as JobContract says.  A connection may break at *)
(* any time and lose what is in flight; the browser reconnects and names   *)
(* the last event it received (Last-Event-ID).  A page that is loaded again *)
(* starts from the beginning: it is another viewer.                        *)
(***************************************************************************)
EXTENDS JobContract, FiniteSets

CONSTANTS
    Viewers,     \* browser pages that watch a job
    MaxCuts      \* bound: connections that break

ASSUME MaxCutsAssumption == MaxCuts \in Nat

\* A page that has not opened a stream watches no job: Null is no job id.
ASSUME TargetAssumption == Null \notin Jobs

VARIABLES
    target,    \* target[v]: the job the page watches, Null before it opens
    gen,       \* gen[v]: where the generator of v's connection is
    final,     \* final[v]: the envelope the generator read was terminal
    cursor,    \* cursor[v]: id of the last event the generator took
    batch,     \* batch[v]: events read from the store and not yet sent
    wire,      \* wire[v]: events sent and not yet received
    received,  \* received[v]: ids in the order the page received them
    cuts       \* connections broken so far

streamVars == <<target, gen, final, cursor, batch, wire, received, cuts>>
viewVars    == <<vars, streamVars>>

\* "closed": no connection; "ended": the generator returned after the terminal
\* event; "expired": it returned because its time window was over; "left": the
\* page has closed its EventSource.
GenPoints == {"closed", "poll", "fetch", "send", "check", "sleep",
              "ended", "expired", "left"}

StreamInit ==
    /\ Init
    /\ target   = [v \in Viewers |-> Null]
    /\ gen      = [v \in Viewers |-> "closed"]
    /\ final    = [v \in Viewers |-> FALSE]
    /\ cursor   = [v \in Viewers |-> 0]
    /\ batch    = [v \in Viewers |-> <<>>]
    /\ wire     = [v \in Viewers |-> <<>>]
    /\ received = [v \in Viewers |-> <<>>]
    /\ cuts     = 0

Step(v, from, to) == gen[v] = from /\ gen' = [gen EXCEPT ![v] = to]

\* events_since: the events of the job with an id greater than n, in the order
\* of the log.
EventsSince(j, n) ==
    LET later   == {i \in 1..Len(log[j]) : log[j][i].id > n}
        Rank(i) == Cardinality({h \in later : h <= i})
    IN  [k \in 1..Cardinality(later) |-> log[j][CHOOSE i \in later : Rank(i) = k]]

\* What the browser sends as Last-Event-ID, 0 standing for no header.
LastEventId(v) == IF received[v] = <<>> THEN 0 ELSE received[v][Len(received[v])]

-----------------------------------------------------------------------------
\* The page.

\* A page opens a stream for an existing job (404 otherwise).
Open(v, j) ==
    /\ target[v] = Null
    /\ Exists(j)
    /\ target' = [target EXCEPT ![v] = j]
    /\ Step(v, "closed", "poll")
    /\ UNCHANGED <<vars, final, cursor, batch, wire, received, cuts>>

\* Defect: the server goes on from where its generator was.
ReconnectAtOldCursor(v) ==
    /\ target[v] # Null
    /\ Step(v, "closed", "poll")
    /\ UNCHANGED <<vars, target, cursor, final, batch, wire, received, cuts>>

\* Defect: the server skips the event after the last one received.
ReconnectPastLast(v) ==
    /\ target[v] # Null
    /\ Step(v, "closed", "poll")
    /\ cursor' = [cursor EXCEPT ![v] = LastEventId(v) + 1]
    /\ UNCHANGED <<vars, target, final, batch, wire, received, cuts>>

\* The EventSource opens the connection again after it broke or the server
\* closed it, for whatever reason.
Reconnect(v) ==
    /\ target[v] # Null
    /\ Step(v, "closed", "poll")
    /\ cursor' = [cursor EXCEPT ![v] = LastEventId(v)]
    /\ UNCHANGED <<vars, target, final, batch, wire, received, cuts>>

Receive(v) ==
    /\ wire[v] # <<>>
    /\ wire'     = [wire EXCEPT ![v] = Tail(@)]
    /\ received' = [received EXCEPT ![v] = Append(@, Head(wire[v]).id)]
    /\ UNCHANGED <<vars, target, gen, final, cursor, batch, cuts>>

\* The server closed the connection and everything it sent has arrived.
SeeClosed(v) ==
    /\ wire[v] = <<>>
    /\ Step(v, "ended", "closed") \/ Step(v, "expired", "closed")
    /\ UNCHANGED <<vars, target, final, cursor, batch, wire, received, cuts>>

\* The page received an event with a terminal status.
SeesTheEnd(v) ==
    \E i \in 1..Len(received[v]) : log[target[v]][received[v][i]].status \in Terminal

\* The page closes the stream, once it has seen the end of the job.
Leave(v) ==
    /\ target[v] # Null /\ SeesTheEnd(v)
    /\ gen[v] # "left"
    /\ gen'   = [gen EXCEPT ![v] = "left"]
    /\ final' = [final EXCEPT ![v] = FALSE]
    /\ batch' = [batch EXCEPT ![v] = <<>>]
    /\ wire'  = [wire EXCEPT ![v] = <<>>]
    /\ UNCHANGED <<vars, target, cursor, received, cuts>>

\* The connection breaks: the generator is cancelled, what is in flight is lost.
Cut(v) ==
    /\ cuts < MaxCuts
    /\ cuts' = cuts + 1
    /\ gen[v] \notin {"closed", "left"}
    /\ gen'   = [gen EXCEPT ![v] = "closed"]
    /\ final' = [final EXCEPT ![v] = FALSE]
    /\ batch' = [batch EXCEPT ![v] = <<>>]
    /\ wire'  = [wire EXCEPT ![v] = <<>>]
    /\ UNCHANGED <<vars, target, cursor, received>>

-----------------------------------------------------------------------------
\* The generator.

\* envelope = store.get(job_id): jobs are never deleted, so it is found.
PollEnvelope(v) ==
    /\ Step(v, "poll", "fetch")
    /\ final' = [final EXCEPT ![v] = IsTerminal(job[target[v]])]
    /\ UNCHANGED <<vars, target, cursor, batch, wire, received, cuts>>

FetchEvents(v) ==
    /\ Step(v, "fetch", "send")
    /\ batch' = [batch EXCEPT ![v] = EventsSince(target[v], cursor[v])]
    /\ UNCHANGED <<vars, target, final, cursor, wire, received, cuts>>

SendEvent(v) ==
    /\ gen[v] = "send"
    /\ batch[v] # <<>>
    /\ cursor' = [cursor EXCEPT ![v] = Head(batch[v]).id]
    /\ wire'   = [wire EXCEPT ![v] = Append(@, Head(batch[v]))]
    /\ batch'  = [batch EXCEPT ![v] = Tail(@)]
    /\ UNCHANGED <<vars, target, gen, final, received, cuts>>

BatchSent(v) ==
    /\ batch[v] = <<>>
    /\ Step(v, "send", "check")
    /\ UNCHANGED <<vars, target, final, cursor, batch, wire, received, cuts>>

\* Defect: the generator looks at the status after it fetched the events.
CheckEndLate(v) ==
    /\ Step(v, "check", IF IsTerminal(job[target[v]]) THEN "ended" ELSE "sleep")
    /\ final' = [final EXCEPT ![v] = FALSE]
    /\ UNCHANGED <<vars, target, cursor, batch, wire, received, cuts>>

\* Return when the envelope was terminal and events_since is empty now.
CheckEnd(v) ==
    /\ LET over == final[v] /\ EventsSince(target[v], cursor[v]) = <<>>
       IN  Step(v, "check", IF over THEN "ended" ELSE "sleep")
    /\ final' = [final EXCEPT ![v] = FALSE]
    /\ UNCHANGED <<vars, target, cursor, batch, wire, received, cuts>>

\* After the sleep the generator polls again, or its 180 s are over.
Wake(v) ==
    /\ \/ Step(v, "sleep", "poll")
       \/ Step(v, "sleep", "expired")
    /\ UNCHANGED <<vars, target, final, cursor, batch, wire, received, cuts>>

-----------------------------------------------------------------------------
GenStep(v) ==
    \/ PollEnvelope(v) \/ FetchEvents(v) \/ SendEvent(v)
    \/ BatchSent(v) \/ CheckEnd(v) \/ Wake(v)

PageStep(v) == Reconnect(v) \/ Receive(v) \/ SeeClosed(v) \/ Leave(v)

JobStep == Next /\ UNCHANGED streamVars

StreamNext ==
    \/ JobStep
    \/ \E v \in Viewers :
          \/ \E j \in Jobs : Open(v, j)
          \/ PageStep(v)
          \/ GenStep(v)
          \/ Cut(v)

StreamSpec == StreamInit /\ [][StreamNext]_viewVars

\* The server runs the generators, the network delivers, the browser reconnects.
StreamFairness ==
    \A v \in Viewers :
        WF_viewVars(GenStep(v)) /\ WF_viewVars(Reconnect(v))
        /\ WF_viewVars(Receive(v)) /\ WF_viewVars(SeeClosed(v))

FairStreamSpec == StreamSpec /\ StreamFairness

-----------------------------------------------------------------------------
StreamTypeOK ==
    /\ TypeOK
    /\ target   \in [Viewers -> Jobs \cup {Null}]
    /\ gen      \in [Viewers -> GenPoints]
    /\ final    \in [Viewers -> BOOLEAN]
    /\ cursor   \in [Viewers -> Nat]
    /\ batch    \in [Viewers -> Seq(Event)]
    /\ wire     \in [Viewers -> Seq(Event)]
    /\ received \in [Viewers -> Seq(Nat)]
    /\ cuts     \in Nat

\* Over all its connections a page receives the events of its job in order,
\* each exactly once: nothing is skipped or repeated by a reconnect.
\* What is on its way continues what was received, up to where the generator stands.
EachEventOnce ==
    \A v \in Viewers :
        /\ \A i \in 1..Len(received[v]) : received[v][i] = i
        /\ gen[v] \notin {"closed", "left"} =>
              /\ Len(received[v]) + Len(wire[v]) = cursor[v]
              /\ \A i \in 1..Len(wire[v]) : wire[v][i].id = Len(received[v]) + i

\* The generator ends a stream for good only after the event that reports the
\* terminal status was sent, although it reads the status and the events at
\* different times.
EndedAfterTerminalEvent ==
    \A v \in Viewers : gen[v] = "ended" =>
        \E i \in 1..cursor[v] : log[target[v]][i].status \in Terminal

\* A page that watches a job receives the event that says it is over, however
\* often the connection breaks or the server ends it.
EndIsSeen ==
    \A v \in Viewers :
        (target[v] # Null /\ IsTerminal(job[target[v]])) ~> SeesTheEnd(v)

=============================================================================
