------------------------------ MODULE Dashboard ------------------------------
(***************************************************************************)
(* The operator's page (dashboard.js with dashboard-api.js and the reducer *)
(* of dashboard-state.js).  It submits a scenario, follows the job over an *)
(* EventSource, falls back to polling when the stream fails, resumes the   *)
(* job it had saved when it is loaded again, and records a decision.       *)
(*                                                                         *)
(* JavaScript runs one callback at a time: an action is one callback up to *)
(* its next await.  A request is answered from a snapshot of the store and *)
(* the page handles the answer later, so that answers arrive late, out of  *)
(* order, or after the user went on.  The store is that of JobContract, the*)
(* stream delivers the events of the log in order (EventStream).           *)
(*                                                                         *)
(* A new operation (operationEpoch) starts with clearMonitoring, and a job *)
(* id belongs to one operation per page load, so comparing job ids stands  *)
(* for comparing job id and epoch.                                         *)
(***************************************************************************)
EXTENDS JobContract, FiniteSets

CONSTANTS
    Me,          \* the operator of this page
    Results,     \* results the runs of this instance end with
    Decisions,   \* decisions the operators of this instance make
    MaxStarts,   \* bound: scenarios the user submits and pages he loads again
    MaxFaults,   \* bound: requests that fail
    MaxBreaks    \* bound: stream connections that fail

ASSUME DashboardAssumption ==
    /\ Me \in Operators /\ Null \notin Jobs
    /\ Results \subseteq ResultStatus /\ Decisions \subseteq DecisionKinds
    /\ {MaxStarts, MaxFaults, MaxBreaks} \subseteq Nat

VARIABLES
    page,      \* the reducer's state
    saved,     \* sessionStorage: the job to resume, or Null
    stream,    \* the EventSource, or Null when closed
    timer,     \* the job fallbackTimer will poll, or Null
    poll,      \* the poll loop whose controller is pollingController
    asleep,    \* aborted poll loops that sleep until they notice
    polling,   \* pollingActive
    requests,  \* requests without a handled answer
    starts, faults, breaks   \* counters of the bounds

monitor  == <<stream, timer, poll, asleep, polling>>
budgets  == <<starts, faults, breaks>>
dashVars == <<page, saved, monitor, requests, budgets>>
allVars  == <<vars, dashVars>>

RequestKinds == {"create", "resume", "event", "poll", "decide", "reconcile"}

\* n is the event that caused the request, wants what a decision asks for, body the
\* envelope it is answered with; heard is FALSE once the page has aborted it.
NewRequest(kind, j) == [kind |-> kind, job |-> j, n |-> 0, wants |-> Null,
                        state |-> "sent", body |-> Null, heard |-> TRUE]

InitialPage == [id |-> Null, status |-> Null, decision |-> Null,
                creation |-> "idle", transport |-> "online",
                deciding |-> "unavailable"]

\* What reduceDashboardState makes of a page p: a job is submitted, accepted, or to be
\* resumed; an envelope, or a change of the transport or of a decision, is reported.
Submitting(p) ==
    [InitialPage EXCEPT !.creation = "submitting", !.transport = p.transport]

Accepted(p, j) == [InitialPage EXCEPT !.id = j, !.status = "queued",
                                      !.creation = "accepted", !.transport = p.transport]

Resuming(j) == [InitialPage EXCEPT !.id = j, !.creation = "resuming"]

WithEnvelope(p, envelope) ==
    [p EXCEPT !.status = envelope.status, !.decision = envelope.decision]

OnTransport(p, phase) == [p EXCEPT !.transport = phase]

WithDecision(p, phase) == [p EXCEPT !.deciding = phase]

NewStream(j) == [job |-> j, link |-> "connecting", got |-> 0]

DashInit ==
    /\ Init
    /\ page = InitialPage
    /\ saved = Null
    /\ stream = Null /\ timer = Null
    /\ poll = "none" /\ asleep = 0 /\ polling = FALSE
    /\ requests = {}
    /\ starts = 0 /\ faults = 0 /\ breaks = 0

CurrentOperation(j) == j # Null /\ page.id = j

PageIsTerminal == page.status \in Terminal

-----------------------------------------------------------------------------
\* Pieces of the handlers.

\* Aborted requests: what was sent may still reach the server, whose answer
\* nobody waits for.
Abandoned ==
    {[r EXCEPT !.heard = FALSE] :
        r \in {q \in requests : q.state = "sent" /\ q.kind \in {"create", "decide"}}}

\* pollingController.abort(): a loop that waits for an answer ends at once and
\* its finally clause resets pollingActive; one that sleeps notices when it wakes.
AbortPoll ==
    /\ poll' = "none"
    /\ asleep' = IF poll = "asleep" THEN asleep + 1 ELSE asleep
    /\ polling' = (polling /\ poll # "waiting")

WithoutPoll(rs) == {r \in rs : r.kind # "poll"}

\* clearMonitoring.
ClearMonitoring ==
    /\ stream' = Null /\ timer' = Null
    /\ poll' = "none" /\ polling' = FALSE
    /\ asleep' = IF poll = "asleep" THEN asleep + 1 ELSE asleep

\* acceptEnvelope of an unfinished job: p is the page it starts from.
AcceptLive(p, envelope) == page' = WithEnvelope(p, envelope)

\* Defect: a terminal envelope does not stop the other channels.
AcceptKeepsMonitoring(p, j, envelope, rest) ==
    IF CurrentOperation(j)
    THEN /\ page' = WithEnvelope(p, envelope)
         /\ saved' = Null
         /\ requests' = rest
         /\ UNCHANGED monitor
    ELSE /\ page' = p /\ requests' = rest
         /\ UNCHANGED <<saved, monitor>>

\* acceptEnvelope of a finished job closes every channel; rest are the requests
\* that remain.
AcceptTerminal(p, j, envelope, rest) ==
    IF CurrentOperation(j)
    THEN /\ page' = OnTransport(WithEnvelope(p, envelope),
                       IF p.transport = "protocol_error" THEN p.transport ELSE "online")
         /\ stream' = Null /\ timer' = Null /\ saved' = Null
         /\ AbortPoll
         /\ requests' = WithoutPoll(rest)
    ELSE /\ page' = p /\ requests' = rest
         /\ UNCHANGED <<saved, monitor>>

\* startPollingFallback.  A loop that is replaced while it waits resets the flag
\* after the new one has set it.
StartPollingFallback(j) ==
    IF polling \/ ~ CurrentOperation(j)
    THEN UNCHANGED <<page, poll, asleep, polling, requests>>
    ELSE /\ page' = OnTransport(page, "polling_fallback")
         /\ poll' = "waiting"
         /\ asleep' = IF poll = "asleep" THEN asleep + 1 ELSE asleep
         /\ polling' = (poll # "waiting")
         /\ requests' = WithoutPoll(requests) \cup {NewRequest("poll", j)}

-----------------------------------------------------------------------------
\* The user.

\* submitScenario, up to the request.  The button is disabled while submitting.
Submit ==
    /\ page.creation # "submitting" /\ starts < MaxStarts
    /\ ClearMonitoring
    /\ page' = Submitting(page)
    /\ requests' = Abandoned \cup {NewRequest("create", Null)}
    /\ starts' = starts + 1
    /\ UNCHANGED <<vars, saved, faults, breaks>>

\* The page is loaded again: only sessionStorage survives.  bootstrap resumes
\* the saved job.
Reload ==
    /\ starts < MaxStarts
    /\ starts' = starts + 1
    /\ stream' = Null /\ timer' = Null
    /\ poll' = "none" /\ asleep' = 0 /\ polling' = FALSE
    /\ \/ /\ saved = Null
          /\ page' = InitialPage
          /\ requests' = Abandoned
       \/ /\ saved # Null
          /\ page' = Resuming(saved)
          /\ requests' = Abandoned \cup {NewRequest("resume", saved)}
    /\ UNCHANGED <<vars, saved, faults, breaks>>

\* deriveDecisionPolicy for an operator, with complete evidence.
MayDecide(d) ==
    /\ page.decision = Null
    /\ CASE d = "approved" -> page.status = "succeeded"
                              /\ page.transport # "protocol_error"
         [] d = "rejected" -> PageIsTerminal
         [] OTHER          -> page.status \in {"succeeded", "needs_review"}

\* submitDecision, up to the request.  Nothing stops a second submission.
Decide(d) ==
    /\ MayDecide(d)
    /\ page' = WithDecision(page, "submitting")
    /\ requests' = requests \cup {[NewRequest("decide", page.id) EXCEPT !.wants = d]}
    /\ UNCHANGED <<vars, saved, monitor, budgets>>

-----------------------------------------------------------------------------
\* The server.

\* r has been handled and leaves answer behind, if the page still waits.
Served(r, answer) ==
    /\ requests' = (requests \ {r}) \cup
                   (IF r.heard THEN {[answer EXCEPT !.state = "served"]} ELSE {})
    /\ UNCHANGED <<page, saved, monitor, budgets>>

\* A fresh id.
NewJob == CHOOSE j \in Jobs : ~ Exists(j)

\* create_job ignores the Idempotency-Key: every request makes a job.
ServeCreate(r) ==
    /\ r.kind = "create" /\ r.state = "sent"
    /\ \E j \in Jobs : ~ Exists(j)
    /\ Create(NewJob)
    /\ Served(r, [r EXCEPT !.job = NewJob])

\* get_job: the answer is a snapshot.
ServeGet(r) ==
    /\ r.kind \in {"resume", "event", "poll", "reconcile"} /\ r.state = "sent"
    /\ Served(r, [r EXCEPT !.body = job[r.job]])
    /\ UNCHANGED vars

\* The operator-decision handler answers with the decision that is stored.
ServeDecide(r) ==
    /\ r.kind = "decide" /\ r.state = "sent"
    /\ \/ /\ RecordDecision(r.job, [operator |-> Me, decision |-> r.wants])
          /\ Served(r, [r EXCEPT !.body = job'[r.job]])
       \/ /\ job[r.job].decision # Null
          /\ Served(r, [r EXCEPT !.body = job[r.job]])
          /\ UNCHANGED vars

\* A request is lost before the server or its answer after it, or times out.
Fail(r) ==
    /\ r.state # "failed" /\ r.heard
    /\ faults < MaxFaults
    /\ faults' = faults + 1
    /\ requests' = (requests \ {r}) \cup {[r EXCEPT !.state = "failed", !.body = Null]}
    /\ UNCHANGED <<vars, page, saved, monitor, starts, breaks>>

\* A run takes the job further (JobExecution).
Progress(j) ==
    /\ Exists(j)
    /\ \/ job[j].status = "queued" /\ UpdateStatus(j, "running")
       \/ \E r \in Results : SetResult(j, r)
    /\ UNCHANGED dashVars

\* Another operator decides.
OtherDecides(j) ==
    /\ \E d \in DecisionRecord :
          d.operator # Me /\ d.decision \in Decisions /\ RecordDecision(j, d)
    /\ UNCHANGED dashVars

-----------------------------------------------------------------------------
\* Answers the page waits for.

Answered(r, kind) == r.kind = kind /\ r.heard /\ r.state = "served"
Failed(r, kind)   == r.kind = kind /\ r.heard /\ r.state = "failed"

\* Defect: the accepted job is not persisted.
CreateAnsweredUnsaved(r) ==
    /\ Answered(r, "create")
    /\ page' = Accepted(page, r.job)
    /\ stream' = NewStream(r.job)
    /\ requests' = requests \ {r}
    /\ UNCHANGED <<vars, saved, timer, poll, asleep, polling, budgets>>

\* The job is followed from here on.
CreateAnswered(r) ==
    /\ Answered(r, "create")
    /\ page' = Accepted(page, r.job)
    /\ saved' = r.job
    /\ stream' = NewStream(r.job)
    /\ requests' = requests \ {r}
    /\ UNCHANGED <<vars, timer, poll, asleep, polling, budgets>>

\* A failed creation leaves creation.phase at submitting, and with it the button
\* disabled.
RequestFails(r) ==
    /\ \E kind \in {"create", "resume", "event"} : Failed(r, kind)
    /\ page' = OnTransport(page, "offline")
    /\ requests' = requests \ {r}
    /\ UNCHANGED <<vars, saved, monitor, budgets>>

\* resumeActiveJob: a live job is monitored again.
ResumeAnswered(r) ==
    /\ Answered(r, "resume")
    /\ IF IsTerminal(r.body)
       THEN AcceptTerminal(page, r.job, r.body, requests \ {r})
       ELSE /\ AcceptLive(page, r.body)
            /\ stream' = NewStream(r.job)
            /\ requests' = requests \ {r}
            /\ UNCHANGED <<saved, timer, poll, asleep, polling>>
    /\ UNCHANGED <<vars, budgets>>

\* The envelope fetched after a terminal event.
EventAnswered(r) ==
    /\ Answered(r, "event")
    /\ AcceptTerminal(page, r.job, r.body, requests \ {r})
    /\ UNCHANGED <<vars, budgets>>

\* One turn of pollJob.
PollAnswered(r) ==
    /\ Answered(r, "poll")
    /\ IF IsTerminal(r.body)
       THEN AcceptTerminal(page, r.job, r.body, requests \ {r})
       ELSE /\ AcceptLive(page, r.body)
            /\ poll' = "asleep"
            /\ requests' = requests \ {r}
            /\ UNCHANGED <<saved, stream, timer, asleep, polling>>
    /\ UNCHANGED <<vars, budgets>>

\* One failed request ends the loop.
PollFails(r) ==
    /\ Failed(r, "poll")
    /\ page' = OnTransport(page, "offline")
    /\ poll' = "none" /\ polling' = FALSE
    /\ requests' = requests \ {r}
    /\ UNCHANGED <<vars, saved, stream, timer, asleep, budgets>>

\* Defect: the record in the answer is not compared with what was sent.
DecideAnsweredBlindly(r) ==
    /\ Answered(r, "decide")
    /\ requests' = (requests \ {r}) \cup {NewRequest("reconcile", r.job)}
    /\ UNCHANGED <<vars, page, saved, monitor, budgets>>

\* submitDecision goes on: the answer must be the decision that was sent.
DecideAnswered(r) ==
    /\ Answered(r, "decide")
    /\ IF r.body.decision = [operator |-> Me, decision |-> r.wants]
       THEN /\ requests' = (requests \ {r}) \cup {NewRequest("reconcile", r.job)}
            /\ UNCHANGED page
       ELSE /\ requests' = requests \ {r}
            /\ page' = OnTransport(page, "protocol_error")
    /\ UNCHANGED <<vars, saved, monitor, budgets>>

\* reconcileDecision, and decision/recorded.
ReconcileAnswered(r) ==
    /\ Answered(r, "reconcile")
    /\ r.body.decision # Null
    /\ AcceptTerminal(WithDecision(page, "recorded"), r.job, r.body,
                      requests \ {r})
    /\ UNCHANGED <<vars, budgets>>

DecisionFails(r) ==
    /\ \E kind \in {"decide", "reconcile"} : Failed(r, kind)
    /\ page' = WithDecision(page, "error")
    /\ requests' = requests \ {r}
    /\ UNCHANGED <<vars, saved, monitor, budgets>>

-----------------------------------------------------------------------------
\* The stream and the timers.

StreamIs(link) == stream # Null /\ stream.link = link

\* onopen: streaming stops the fallback.
StreamOpens ==
    /\ StreamIs("connecting")
    /\ stream' = [stream EXCEPT !.link = "open"]
    /\ page' = OnTransport(page, "streaming")
    /\ timer' = Null
    /\ AbortPoll
    /\ requests' = WithoutPoll(requests)
    /\ UNCHANGED <<vars, saved, budgets>>

\* Defect: a running timer is not replaced, and none is started.
StreamLostWithoutTimer(link) ==
    /\ stream' = [stream EXCEPT !.link = link]
    /\ page' = OnTransport(page, "reconnecting")
    /\ UNCHANGED <<vars, saved, timer, poll, asleep, polling, requests, starts, faults>>

\* onerror: the EventSource connects again, unless the server refused it, and
\* the timer of the fallback starts afresh.
StreamLost(link) ==
    /\ stream' = [stream EXCEPT !.link = link]
    /\ page' = OnTransport(page, "reconnecting")
    /\ timer' = stream.job
    /\ UNCHANGED <<vars, saved, poll, asleep, polling, requests, starts, faults>>

StreamBreaks ==
    /\ breaks < MaxBreaks
    /\ breaks' = breaks + 1
    /\ \/ StreamIs("open") /\ StreamLost("connecting")
       \/ StreamIs("connecting") /\ StreamLost("connecting")
       \/ StreamIs("connecting") /\ StreamLost("dead")

\* The generator returns once it has sent the last event of a finished job.
StreamEnds ==
    /\ StreamIs("open")
    /\ IsTerminal(job[stream.job]) /\ stream.got = Len(log[stream.job])
    /\ StreamLost("connecting")
    /\ UNCHANGED breaks

\* onEvent: an event with a terminal status makes the page fetch the envelope;
\* another one carries the status itself.
StreamEvent ==
    /\ StreamIs("open")
    /\ stream.got < Len(log[stream.job])
    /\ LET n == stream.got + 1
           e == log[stream.job][n]
       IN  /\ stream' = [stream EXCEPT !.got = n]
           /\ IF e.status \in Terminal
              THEN /\ requests' = requests \cup
                                  {[NewRequest("event", stream.job) EXCEPT !.n = n]}
                   /\ UNCHANGED page
              ELSE /\ AcceptLive(page, [NewEnvelope EXCEPT !.status = e.status])
                   /\ UNCHANGED requests
    /\ UNCHANGED <<vars, saved, timer, poll, asleep, polling, budgets>>

\* The fallback timer.  A stream is refused for good at the earliest one
\* reconnection delay (3 s) after it was open, and the timer fires 5 s after that:
\* loops aborted by the opening (5.5 s of sleep at most) have noticed by then.
TimerFires ==
    /\ timer # Null
    /\ StreamIs("dead") => asleep = 0
    /\ timer' = Null
    /\ StartPollingFallback(timer)
    /\ UNCHANGED <<vars, saved, stream, budgets>>

PollWakes ==
    /\ poll = "asleep"
    /\ poll' = "waiting"
    /\ requests' = requests \cup {NewRequest("poll", page.id)}
    /\ UNCHANGED <<vars, page, saved, stream, timer, asleep, polling, budgets>>

\* An aborted loop wakes, and its finally clause resets pollingActive, also when
\* another loop is active by now.
AbortedPollEnds ==
    /\ asleep > 0
    /\ asleep' = asleep - 1
    /\ polling' = FALSE
    /\ UNCHANGED <<vars, page, saved, stream, timer, poll, requests, budgets>>

-----------------------------------------------------------------------------
UserStep == Submit \/ Reload \/ \E d \in Decisions : Decide(d)

ServeStep(r) == ServeCreate(r) \/ ServeGet(r) \/ ServeDecide(r)

AnswerStep(r) ==
    \/ CreateAnswered(r) \/ ResumeAnswered(r) \/ EventAnswered(r)
    \/ PollAnswered(r) \/ PollFails(r) \/ RequestFails(r)
    \/ DecideAnswered(r) \/ ReconcileAnswered(r) \/ DecisionFails(r)

DashNext ==
    \/ UserStep
    \/ \E r \in requests : ServeStep(r) \/ AnswerStep(r) \/ Fail(r)
    \/ \E j \in Jobs : Progress(j) \/ OtherDecides(j)
    \/ StreamOpens \/ StreamBreaks \/ StreamEnds \/ StreamEvent
    \/ TimerFires \/ PollWakes \/ AbortedPollEnds

DashSpec == DashInit /\ [][DashNext]_allVars

\* The server answers, the event loop of the browser runs what is due, and the browser
\* connects again.
PageFairness ==
    /\ \A kind \in RequestKinds :
          WF_allVars(\E r \in requests : r.kind = kind /\ (ServeStep(r) \/ AnswerStep(r)))
    /\ WF_allVars(StreamOpens) /\ WF_allVars(StreamEvent)
    /\ WF_allVars(TimerFires) /\ WF_allVars(PollWakes) /\ WF_allVars(AbortedPollEnds)

\* Runs end.
DashFairness == PageFairness /\ \A j \in Jobs : WF_allVars(Progress(j))

FairDashSpec == DashSpec /\ DashFairness

-----------------------------------------------------------------------------
\* The display never goes back from a terminal status, whatever other channel
\* still has an older answer under way (acceptEnvelope closes them).
TerminalStaysShown ==
    [][page.id # Null /\ page'.id = page.id /\ PageIsTerminal
          => page'.status = page.status]_allVars

\* A reload never loses a job that is still followed: while the page shows it
\* unfinished, sessionStorage names it.
FollowedJobIsSaved ==
    page.id # Null /\ ~ PageIsTerminal => saved = page.id

\* When the page says that a decision is recorded, the one the server stores was
\* made on this page, also when another operator decided at the same time.
RecordedIsMine ==
    page.deciding = "recorded" =>
        /\ job[page.id].decision # Null
        /\ job[page.id].decision.operator = Me

\* A page that follows a job shows its end, through broken and refused streams
\* and reloads, unless a request failed: again and again it follows none, or shows
\* the end of the one it follows.
EndIsShown == []<>(page.id = Null \/ PageIsTerminal \/ faults > 0)

\* The same when requests fail, as the design asks: losing the stream and the
\* fallback never loses the job.
EndIsShownDespiteFaults == []<>(page.id = Null \/ PageIsTerminal)

=============================================================================
