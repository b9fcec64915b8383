--------------------------- MODULE Dashboard_proofs ---------------------------
(***************************************************************************)
(* Proofs about the operator's page, for any number of jobs, submissions,  *)
(* reloads, faults and broken streams.  The inductive invariant DashInv    *)
(* says which answers may still be under way, and what each of them may    *)
(* say: an answer the page waits for is about the job it follows, and its  *)
(* envelope is one the job has outgrown without losing its outcome.        *)
(***************************************************************************)
EXTENDS Dashboard, JobContract_proofs

-----------------------------------------------------------------------------
\* The invariant.

Pages == [id        : Jobs \cup {Null},
          status    : JobStatus \cup {Null},
          decision  : DecisionRecord \cup {Null},
          creation  : {"idle", "submitting", "accepted", "resuming"},
          transport : {"online", "offline", "streaming", "reconnecting",
                       "polling_fallback", "protocol_error"},
          deciding  : {"unavailable", "submitting", "recorded", "error"}]

Streams == [job : Jobs, link : {"connecting", "open", "dead"}, got : Nat]

Requests == [kind  : RequestKinds,
             job   : Jobs \cup {Null},
             n     : Nat,
             wants : DecisionKinds \cup {Null},
             state : {"sent", "served", "failed"},
             body  : Envelope \cup {Null},
             heard : BOOLEAN]

DashTypes ==
    /\ page \in Pages /\ saved \in Jobs \cup {Null}
    /\ stream \in Streams \cup {Null} /\ timer \in Jobs \cup {Null}
    /\ poll \in {"none", "waiting", "asleep"}
    /\ requests \subseteq Requests

\* What a request says of the store: the body of its answer is an envelope the job
\* had once.
AboutStore(r) ==
    /\ r.kind # "create" => r.job # Null
    /\ r.kind = "create" /\ r.state = "served" => r.job # Null
    /\ r.job # Null => job[r.job] # Null
    /\ r.state = "served" /\ r.kind # "create" =>
          /\ r.body \in Envelope /\ KeepsOutcome(r.body, job[r.job])
          /\ r.body.decision # Null => IsTerminal(r.body)
    /\ r.kind = "event" =>
          /\ IsTerminal(job[r.job])
          /\ r.state = "served" => IsTerminal(r.body)
    /\ r.kind = "decide" =>
          /\ r.wants \in DecisionKinds
          /\ r.state = "served" => r.body.decision # Null
    /\ r.kind = "reconcile" =>
          job[r.job].decision # Null /\ job[r.job].decision.operator = Me

\* The page waits for a job to be created or resumed, and for nothing else.
Asks(r) == r.kind \in {"create", "resume"}

Quiet == stream = Null /\ timer = Null /\ poll = "none" /\ page.status = Null

\* An answer that is waited for is about the job that is followed.
AboutPage(r) ==
    r.heard =>
        /\ r.kind # "create" => r.job = page.id
        /\ r.kind = "create" => page.id = Null
        /\ r.kind = "poll" => ~ PageIsTerminal
        /\ Asks(r) => Quiet /\ \A s \in requests : s.heard => s = r

Existing ==
    /\ page.id # Null => job[page.id] # Null
    /\ saved # Null => job[saved] # Null
    /\ page.id = Null => page.status = Null /\ page.deciding # "recorded"

\* Every channel is about the job that is followed.
Channels ==
    /\ stream # Null => page.id # Null /\ stream.job = page.id
    /\ timer # Null => page.id # Null /\ timer = page.id
    /\ poll # "none" => page.id # Null

\* After the end every channel is closed, and the page shows what is stored.
Ended ==
    PageIsTerminal =>
        /\ page.id # Null /\ saved = Null
        /\ stream = Null /\ timer = Null /\ poll = "none"
        /\ page.status = job[page.id].status

DashInv ==
    /\ JobInv /\ DashTypes
    /\ \A r \in requests : AboutStore(r) /\ AboutPage(r)
    /\ Existing /\ Channels /\ Ended
    /\ FollowedJobIsSaved /\ RecordedIsMine

-----------------------------------------------------------------------------
\* The store and the server.

\* What is said of an envelope stays true as the job goes on.
LEMMA OutcomeKeptFurther ==
  ASSUME NEW e, NEW f, NEW g, KeepsOutcome(e, f), KeepsOutcome(f, g)
  PROVE  KeepsOutcome(e, g)
BY DEF KeepsOutcome, IsTerminal

LEMMA AboutStoreStays ==
  ASSUME JobInv, [Next]_vars, NEW r \in Requests, AboutStore(r)
  PROVE  AboutStore(r)'
<1>1. CASE r.job = Null
  BY <1>1 DEF AboutStore, RequestKinds, Requests
<1>2. CASE r.job # Null
  <2>1. r.job \in Jobs /\ job[r.job] # Null
    BY <1>2 DEF Requests, AboutStore
  <2>2. job'[r.job] # Null /\ KeepsOutcome(job[r.job], job'[r.job])
    BY <2>1, StepKeepsOutcome
  <2>3. KeepsOutcome(r.body, job[r.job]) => KeepsOutcome(r.body, job'[r.job])
    BY <2>2, OutcomeKeptFurther
  <2>4. IsTerminal(job[r.job]) => IsTerminal(job'[r.job])
    BY <2>2 DEF KeepsOutcome, IsTerminal
  <2>5. job[r.job].decision # Null => job'[r.job].decision = job[r.job].decision
    BY <2>2 DEF KeepsOutcome
  <2> QED BY <2>2, <2>3, <2>4, <2>5 DEF AboutStore
<1> QED BY <1>1, <1>2

\* What the server may answer with.
LEMMA StoredEnvelope ==
  ASSUME JobInv, NEW j \in Jobs, job[j] # Null
  PROVE  /\ job[j] \in Envelope /\ KeepsOutcome(job[j], job[j])
         /\ job[j].decision # Null => IsTerminal(job[j])
<1>1. Consistent(job[j], log[j])
  BY DEF JobInv
<1> QED BY <1>1 DEF Consistent, DecisionLogged, KeepsOutcome

\* The page waits: the store goes on, a request is served or fails, or its answer
\* is dropped.
LEMMA PageWaits ==
  ASSUME DashInv, [Next]_vars, UNCHANGED <<page, saved, stream, timer, poll>>,
         NEW r, NEW rest \in SUBSET requests, NEW new \in SUBSET Requests,
         requests' = rest \cup new,
         \A a \in new : /\ r \in requests \ rest /\ r.heard /\ a.heard
                        /\ a.kind = r.kind /\ (a.kind # "create" => a.job = r.job)
                        /\ AboutStore(a)'
                        /\ \A b \in new : b = a
  PROVE  DashInv'
<1>1. JobInv' /\ DashTypes'
  BY JobInvNext DEF DashInv, DashTypes
<1>2. ASSUME NEW q \in requests' PROVE AboutStore(q)' /\ AboutPage(q)'
  <2>1. CASE q \in rest
    <3>1. AboutStore(q)'
      BY <2>1, AboutStoreStays DEF DashInv, DashTypes
    <3>2. AboutPage(q)
      BY <2>1 DEF DashInv
    <3>3. ASSUME q.heard, Asks(q), NEW a \in new PROVE FALSE
      BY <2>1, <3>2, <3>3 DEF AboutPage
    <3>4. AboutPage(q)'
      BY <2>1, <3>2, <3>3 DEF AboutPage, Quiet, PageIsTerminal
    <3> QED BY <3>1, <3>4
  <2>2. CASE q \in new
    <3>1. AboutStore(q)' /\ r \in requests /\ AboutPage(r) /\ r.heard /\ q.kind = r.kind
      BY <2>2 DEF DashInv
    <3>2. q.kind # "create" => q.job = page.id
      BY <2>2, <3>1 DEF AboutPage
    <3>3. ASSUME Asks(q), NEW s \in requests', s.heard PROVE s = q
      <4>1. CASE s \in rest
        BY <2>2, <3>1, <3>3, <4>1 DEF AboutPage, Asks
      <4> QED BY <2>2, <3>3, <4>1
    <3>4. AboutPage(q)'
      BY <3>1, <3>2, <3>3 DEF AboutPage, Quiet, PageIsTerminal, Asks
    <3> QED BY <3>1, <3>4
  <2> QED BY <2>1, <2>2
<1>3. \A j \in Jobs : job[j] # Null => job'[j] # Null /\ KeepsOutcome(job[j], job'[j])
  BY StepKeepsOutcome DEF DashInv
<1>4. page.id \in Jobs \cup {Null} /\ saved \in Jobs \cup {Null}
  BY DEF DashInv, DashTypes, Pages
<1>5. Existing' /\ Channels'
  BY <1>3, <1>4 DEF DashInv, Existing, Channels
<1>6. Ended'
  BY <1>3, <1>4 DEF DashInv, Ended, Existing, PageIsTerminal, KeepsOutcome, IsTerminal
<1>7. FollowedJobIsSaved' /\ RecordedIsMine'
  <2>1. FollowedJobIsSaved'
    BY DEF DashInv, FollowedJobIsSaved, PageIsTerminal
  <2>2. ASSUME page.deciding = "recorded"
        PROVE  job'[page.id].decision # Null /\ job'[page.id].decision.operator = Me
    <3>1. job[page.id].decision # Null /\ job[page.id].decision.operator = Me
      BY <2>2 DEF DashInv, RecordedIsMine
    <3>2. page.id # Null
      BY <2>2 DEF DashInv, Existing
    <3> QED BY <1>3, <1>4, <3>1, <3>2 DEF DashInv, Existing, KeepsOutcome
  <2> QED BY <2>1, <2>2 DEF RecordedIsMine
<1> QED BY <1>1, <1>2, <1>5, <1>6, <1>7 DEF DashInv

-----------------------------------------------------------------------------
\* What the server does.

LEMMA ServeCreateInv ==
  ASSUME DashInv, NEW r \in requests, ServeCreate(r) PROVE DashInv'
<1>1. NewJob \in Jobs /\ ~ Exists(NewJob)
  BY DEF ServeCreate, NewJob
<1>2. [Next]_vars /\ job'[NewJob] # Null
  <2>1. Next
    BY <1>1 DEF ServeCreate, Next
  <2>2. job'[NewJob] = NewEnvelope
    BY <1>1 DEF ServeCreate, Create, DashInv, JobInv
  <2> QED BY <2>1, <2>2, NewJobConsistent, NullAssumption DEF Consistent
<1> DEFINE answer == [r EXCEPT !.job = NewJob]
<1>0. PICK a : a = [answer EXCEPT !.state = "served"]
  OBVIOUS
<1> DEFINE new  == IF r.heard THEN {a} ELSE {}
           rest == requests \ {r}
<1>3. r \in Requests /\ r.kind = "create"
  BY DEF ServeCreate, DashInv, DashTypes
<1>4. a \in Requests /\ a.kind = "create" /\ a.heard = r.heard /\ a.job = NewJob
  <2>1. answer \in Requests /\ answer.kind = r.kind /\ answer.heard = r.heard
        /\ answer.job = NewJob
    BY <1>1, <1>3 DEF Requests
  <2> HIDE DEF answer
  <2> QED BY <1>0, <1>3, <2>1 DEF Requests
<1>5. AboutStore(a)'
  <2>1. a.job # Null /\ job'[a.job] # Null
    BY <1>1, <1>2, <1>4, DashboardAssumption
  <2> QED BY <1>4, <2>1 DEF AboutStore
<1>6. requests' = rest \cup new /\ UNCHANGED <<page, saved, stream, timer, poll>>
  BY <1>0 DEF ServeCreate, Served, monitor
<1>7. new \in SUBSET Requests /\ rest \in SUBSET requests
  BY <1>4
<1>8. \A b \in new : /\ r \in requests \ rest /\ r.heard /\ b.heard
                     /\ b.kind = r.kind /\ (b.kind # "create" => b.job = r.job)
                     /\ AboutStore(b)'
                     /\ \A c \in new : c = b
  BY <1>3, <1>4, <1>5
<1> HIDE DEF new, rest, answer
<1>9. [Next]_vars
  BY <1>2
<1> QED BY <1>6, <1>7, <1>8, <1>9, PageWaits

\* A request that is answered with an envelope of its job, as it is after the step.
LEMMA ServedInv ==
  ASSUME DashInv, [Next]_vars, NEW r \in requests, r.kind # "create", r.state = "sent",
         Served(r, [r EXCEPT !.body = job'[r.job]]),
         r.kind = "decide" => job'[r.job].decision # Null
  PROVE  DashInv'
<1>1. r \in Requests /\ AboutStore(r) /\ r.job \in Jobs /\ job[r.job] # Null
  BY DEF DashInv, DashTypes, AboutStore, Requests
<1>2. JobInv' /\ job'[r.job] # Null
  BY <1>1, JobInvNext, StepKeepsOutcome DEF DashInv
<1>3. /\ job'[r.job] \in Envelope /\ KeepsOutcome(job'[r.job], job'[r.job])
      /\ job'[r.job].decision # Null => IsTerminal(job'[r.job])
  <2>1. Consistent(job'[r.job], log'[r.job])
    BY <1>1, <1>2 DEF JobInv
  <2> QED BY <2>1 DEF Consistent, DecisionLogged, KeepsOutcome
<1> DEFINE answer == [r EXCEPT !.body = job'[r.job]]
<1>0. PICK a : a = [answer EXCEPT !.state = "served"]
  OBVIOUS
<1> DEFINE new  == IF r.heard THEN {a} ELSE {}
           rest == requests \ {r}
<1>4. /\ a \in Requests /\ a.kind = r.kind /\ a.heard = r.heard /\ a.job = r.job
      /\ a.body = job'[r.job] /\ a.wants = r.wants
  <2>1. /\ answer \in Requests /\ answer.kind = r.kind /\ answer.heard = r.heard
        /\ answer.job = r.job /\ answer.body = job'[r.job] /\ answer.wants = r.wants
    BY <1>1, <1>3 DEF Requests
  <2> HIDE DEF answer
  <2> QED BY <1>0, <2>1 DEF Requests
<1>5. AboutStore(a)'
  <2>1. AboutStore(r)'
    BY <1>1, AboutStoreStays DEF DashInv
  <2> QED BY <1>3, <1>4, <2>1 DEF AboutStore
<1>6. requests' = rest \cup new /\ UNCHANGED <<page, saved, stream, timer, poll>>
  BY <1>0 DEF Served, monitor
<1>7. new \in SUBSET Requests /\ rest \in SUBSET requests
  BY <1>4
<1>8. \A b \in new : /\ r \in requests \ rest /\ r.heard /\ b.heard
                     /\ b.kind = r.kind /\ (b.kind # "create" => b.job = r.job)
                     /\ AboutStore(b)'
                     /\ \A c \in new : c = b
  BY <1>4, <1>5
<1> HIDE DEF new, rest
<1> QED BY <1>6, <1>7, <1>8, PageWaits

LEMMA ServeGetInv ==
  ASSUME DashInv, NEW r \in requests, ServeGet(r) PROVE DashInv'
<1>1. vars' = vars /\ job' = job
  BY DEF ServeGet, vars
<1> QED BY <1>1, ServedInv DEF ServeGet

LEMMA ServeDecideInv ==
  ASSUME DashInv, NEW r \in requests, ServeDecide(r) PROVE DashInv'
<1> DEFINE d == [operator |-> Me, decision |-> r.wants]
<1>1. /\ r.job \in Jobs /\ job[r.job] # Null /\ d \in DecisionRecord
      /\ r.kind = "decide" /\ r.state = "sent"
  BY DashboardAssumption DEF ServeDecide, DashInv, DashTypes, AboutStore, Requests, DecisionRecord
<1>2. CASE RecordDecision(r.job, d) /\ Served(r, [r EXCEPT !.body = job'[r.job]])
  <2>1. Next
    BY <1>1, <1>2 DEF Next
  <2>2. job'[r.job] = [job[r.job] EXCEPT !.decision = d] /\ job[r.job] \in Envelope
    BY <1>1, <1>2, StoredEnvelope DEF RecordDecision, Commit, DashInv, JobInv
  <2>3. job'[r.job].decision # Null
    BY <1>1, <2>2, NullAssumption DEF Envelope
  <2> QED BY <1>1, <1>2, <2>1, <2>3, ServedInv
<1>3. CASE job[r.job].decision # Null /\ Served(r, [r EXCEPT !.body = job[r.job]])
           /\ UNCHANGED vars
  <2>1. job' = job
    BY <1>3 DEF vars
  <2> QED BY <1>1, <1>3, <2>1, ServedInv
<1> QED BY <1>2, <1>3 DEF ServeDecide

LEMMA FailInv ==
  ASSUME DashInv, NEW r \in requests, Fail(r) PROVE DashInv'
<1> DEFINE a    == [r EXCEPT !.state = "failed", !.body = Null]
           new  == {a}
           rest == requests \ {r}
<1>1. r \in Requests /\ AboutStore(r) /\ r.heard
  BY DEF Fail, DashInv, DashTypes
<1>2. /\ a \in Requests /\ a.kind = r.kind /\ a.heard = r.heard /\ a.job = r.job
      /\ a.state = "failed" /\ a.wants = r.wants
  BY <1>1 DEF Requests
<1>3. UNCHANGED vars /\ job' = job
  BY DEF Fail, vars
<1>4. AboutStore(a)'
  <2> HIDE DEF a
  <2> QED BY <1>1, <1>2, <1>3 DEF AboutStore
<1>5. requests' = rest \cup new /\ UNCHANGED <<page, saved, stream, timer, poll>>
  BY DEF Fail, monitor
<1>6. new \in SUBSET Requests /\ rest \in SUBSET requests
  BY <1>2
<1>7. \A b \in new : /\ r \in requests \ rest /\ r.heard /\ b.heard
                     /\ b.kind = r.kind /\ (b.kind # "create" => b.job = r.job)
                     /\ AboutStore(b)'
                     /\ \A c \in new : c = b
  <2> HIDE DEF a
  <2> QED BY <1>1, <1>2, <1>4
<1> HIDE DEF new, rest
<1> QED BY <1>3, <1>5, <1>6, <1>7, PageWaits

\* A run, and another operator.
LEMMA WorldInv ==
  ASSUME DashInv, NEW j \in Jobs, Progress(j) \/ OtherDecides(j) PROVE DashInv'
<1>1. Next
  <2>1. CASE Progress(j)
    BY <2>1, DashboardAssumption DEF Progress, Next, SettableStatus
  <2>2. CASE OtherDecides(j)
    BY <2>2 DEF OtherDecides, Next
  <2> QED BY <2>1, <2>2
<1>2. UNCHANGED <<page, saved, stream, timer, poll, requests>>
  BY DEF Progress, OtherDecides, dashVars, monitor
<1> DEFINE new == {}
<1>3. requests' = requests \cup new /\ new \in SUBSET Requests /\ requests \in SUBSET requests
  BY <1>2
<1> QED BY <1>1, <1>2, <1>3, PageWaits

-----------------------------------------------------------------------------
\* What the reducer makes of a page, and new requests.

LEMMA PageMade ==
  ASSUME NEW p \in Pages
  PROVE  /\ Submitting(p) \in Pages /\ Submitting(p).id = Null
         /\ Submitting(p).status = Null /\ Submitting(p).deciding = "unavailable"
         /\ \A j \in Jobs :
               /\ Accepted(p, j) \in Pages /\ Accepted(p, j).id = j
               /\ Accepted(p, j).status = "queued"
               /\ Accepted(p, j).deciding = "unavailable"
         /\ \A e \in Envelope :
               /\ WithEnvelope(p, e) \in Pages /\ WithEnvelope(p, e).id = p.id
               /\ WithEnvelope(p, e).status = e.status
               /\ WithEnvelope(p, e).deciding = p.deciding
               /\ WithEnvelope(p, e).transport = p.transport
BY DEF Pages, Submitting, Accepted, WithEnvelope, InitialPage, JobStatus, Envelope

LEMMA PageChanged ==
  ASSUME NEW p \in Pages
  PROVE  /\ \A t \in {"online", "offline", "streaming", "reconnecting",
                      "polling_fallback", "protocol_error"} :
               /\ OnTransport(p, t) \in Pages /\ OnTransport(p, t).id = p.id
               /\ OnTransport(p, t).status = p.status
               /\ OnTransport(p, t).deciding = p.deciding
         /\ \A d \in {"unavailable", "submitting", "recorded", "error"} :
               /\ WithDecision(p, d) \in Pages /\ WithDecision(p, d).id = p.id
               /\ WithDecision(p, d).status = p.status
               /\ WithDecision(p, d).deciding = d
BY DEF Pages, OnTransport, WithDecision

LEMMA PageStarts ==
  /\ InitialPage \in Pages /\ InitialPage.id = Null
  /\ InitialPage.status = Null /\ InitialPage.deciding = "unavailable"
  /\ \A j \in Jobs : /\ Resuming(j) \in Pages /\ Resuming(j).id = j
                     /\ Resuming(j).status = Null
                     /\ Resuming(j).deciding = "unavailable"
BY DEF Pages, InitialPage, Resuming

LEMMA RequestMade ==
  ASSUME NEW kind \in RequestKinds, NEW j \in Jobs \cup {Null}
  PROVE  /\ NewRequest(kind, j) \in Requests /\ NewRequest(kind, j).kind = kind
         /\ NewRequest(kind, j).job = j /\ NewRequest(kind, j).heard
         /\ NewRequest(kind, j).state = "sent"
BY DEF NewRequest, Requests

\* An aborted request is one of the requests, that the page no longer hears.
LEMMA AbandonedSilent ==
  ASSUME DashInv, NEW r \in Abandoned
  PROVE  r \in Requests /\ AboutStore(r) /\ ~ r.heard
<1>1. PICK q \in requests : r = [q EXCEPT !.heard = FALSE]
  BY DEF Abandoned
<1>2. q \in Requests /\ AboutStore(q)
  BY DEF DashInv, DashTypes
<1>3. /\ r \in Requests /\ ~ r.heard /\ r.kind = q.kind /\ r.job = q.job
      /\ r.wants = q.wants /\ r.state = q.state /\ r.body = q.body
  BY <1>1, <1>2 DEF Requests
<1> QED BY <1>2, <1>3 DEF AboutStore

-----------------------------------------------------------------------------
\* What the page does.

\* Only the page moves.
LEMMA StoreRests ==
  ASSUME UNCHANGED vars
  PROVE  /\ job' = job /\ [Next]_vars
         /\ \A r : AboutStore(r) => AboutStore(r)'
BY DEF vars, AboutStore

\* Nobody else is waited for while a creation or a resumption is.
LEMMA NoOtherAsks ==
  ASSUME DashInv
  PROVE  /\ \A r, s \in requests : r.heard /\ s.heard /\ r # s => ~ Asks(s)
         /\ ~ Quiet => \A s \in requests : s.heard => ~ Asks(s)
BY DEF DashInv, AboutPage

\* A step of the page that goes on with the job it follows: it may ask for more about
\* that job, and what it still hears is no creation or resumption.
LEMMA PageFollows ==
  ASSUME DashInv, UNCHANGED vars, DashTypes', page'.id = page.id,
         NEW new \in SUBSET Requests,
         requests' \subseteq requests \cup new,
         \A a \in new : a.kind # "create" /\ a.job = page.id /\ AboutStore(a),
         \A r \in requests' : r.heard =>
             /\ ~ Asks(r)
             /\ r.kind = "poll" => page'.status \notin Terminal,
         Existing', Channels', Ended', FollowedJobIsSaved', RecordedIsMine'
  PROVE  DashInv'
<1>1. JobInv'
  BY StoreRests, JobInvNext DEF DashInv
<1>2. ASSUME NEW q \in requests' PROVE AboutStore(q)' /\ AboutPage(q)'
  <2>1. AboutStore(q)
    BY <1>2 DEF DashInv
  <2>2. AboutStore(q)'
    BY <2>1, StoreRests
  <2>3. q.heard /\ q.kind # "create" => q.job = page.id
    BY <1>2 DEF DashInv, AboutPage
  <2>4. AboutPage(q)'
    BY <1>2, <2>3 DEF AboutPage, Asks, PageIsTerminal
  <2> QED BY <2>2, <2>4
<1> QED BY <1>1, <1>2 DEF DashInv

\* A step of the page that leaves its job: it hears nothing but, perhaps, one creation
\* or resumption.
LEMMA PageRestarts ==
  ASSUME DashInv, UNCHANGED vars, DashTypes',
         NEW new \in SUBSET Requests,
         requests' \subseteq Abandoned \cup new,
         \A a \in new : /\ Asks(a) /\ AboutStore(a) /\ Quiet'
                        /\ \A b \in new : b = a
                        /\ a.kind = "create" => page'.id = Null
                        /\ a.kind = "resume" => page'.id = a.job,
         Existing', Channels', Ended', FollowedJobIsSaved', RecordedIsMine'
  PROVE  DashInv'
<1>1. JobInv'
  BY StoreRests, JobInvNext DEF DashInv
<1>2. ASSUME NEW q \in requests' PROVE AboutStore(q)' /\ AboutPage(q)'
  <2>1. AboutStore(q)
    BY <1>2, AbandonedSilent
  <2>2. AboutStore(q)'
    BY <2>1, StoreRests
  <2>3. AboutPage(q)'
    BY <1>2, AbandonedSilent DEF AboutPage, Asks
  <2> QED BY <2>2, <2>3
<1> QED BY <1>1, <1>2 DEF DashInv

\* The page shows what it showed, and opens no channel that is not about its job.
LEMMA SameShown ==
  ASSUME DashInv, UNCHANGED vars, UNCHANGED saved,
         page'.id = page.id, page'.status = page.status,
         page'.deciding = page.deciding \/ page'.deciding # "recorded",
         stream' = Null \/ (stream # Null /\ stream'.job = stream.job),
         timer' \in {Null, timer} \/ (stream # Null /\ timer' = stream.job),
         poll' = "none" \/ poll # "none" \/ timer # Null
  PROVE  Existing' /\ Channels' /\ Ended' /\ FollowedJobIsSaved' /\ RecordedIsMine'
<1>1. job' = job
  BY StoreRests
<1>2. Existing' /\ FollowedJobIsSaved' /\ RecordedIsMine'
  BY <1>1 DEF DashInv, Existing, FollowedJobIsSaved, RecordedIsMine, PageIsTerminal
<1>3. Channels'
  BY DEF DashInv, Channels
<1>4. Ended'
  BY <1>1 DEF DashInv, Ended, PageIsTerminal
<1> QED BY <1>2, <1>3, <1>4

\* The page shows another status of a job that has not ended for it.
LEMMA LiveShown ==
  ASSUME DashInv, UNCHANGED vars, UNCHANGED saved, page.id # Null,
         page'.id = page.id, ~ PageIsTerminal, page'.status \notin Terminal,
         page'.deciding = page.deciding
  PROVE  Existing' /\ Ended' /\ FollowedJobIsSaved' /\ RecordedIsMine'
BY StoreRests DEF DashInv, Existing, Ended, FollowedJobIsSaved, RecordedIsMine, PageIsTerminal

\* What the page knows of an answer it waits for.
LEMMA Heard ==
  ASSUME DashInv, NEW r \in requests, r.heard
  PROVE  /\ r \in Requests /\ AboutStore(r)
         /\ r.kind # "create" => r.job = page.id /\ page.id \in Jobs /\ job[page.id] # Null
         /\ r.kind = "create" => page.id = Null
         /\ Asks(r) => Quiet
         /\ r.kind = "poll" => ~ PageIsTerminal
         /\ \A s \in requests \ {r} : s.heard => ~ Asks(s)
BY DEF DashInv, DashTypes, AboutPage, AboutStore, Requests, Asks

\* acceptEnvelope of a finished job.
LEMMA AcceptTerminalInv ==
  ASSUME DashInv, UNCHANGED vars, NEW r \in requests, r.heard, r.kind # "create",
         NEW p \in Pages, p.id = page.id,
         p.deciding = "recorded" =>
            job[page.id].decision # Null /\ job[page.id].decision.operator = Me,
         NEW e \in Envelope, IsTerminal(e), KeepsOutcome(e, job[page.id]),
         AcceptTerminal(p, r.job, e, requests \ {r})
  PROVE  /\ DashInv' /\ page'.status = e.status
<1>1. /\ r.job = page.id /\ page.id \in Jobs /\ job[page.id] # Null
      /\ \A s \in requests \ {r} : s.heard => ~ Asks(s)
  BY Heard
<1>2. CurrentOperation(r.job)
  BY <1>1, DashboardAssumption DEF CurrentOperation
<1> DEFINE phase == IF p.transport = "protocol_error" THEN p.transport ELSE "online"
<1>3. page' = OnTransport(WithEnvelope(p, e), phase)
  BY <1>2 DEF AcceptTerminal
<1>4. /\ stream' = Null /\ timer' = Null /\ saved' = Null /\ poll' = "none"
      /\ requests' = WithoutPoll(requests \ {r})
  BY <1>2 DEF AcceptTerminal, AbortPoll
<1>5. /\ page' \in Pages /\ page'.id = page.id /\ page'.status = e.status
      /\ page'.deciding = p.deciding
  <2> HIDE DEF phase
  <2>1. phase \in {"online", "protocol_error"}
    BY DEF phase
  <2>2. PICK q : q = WithEnvelope(p, e)
    OBVIOUS
  <2>3. q \in Pages /\ q.id = p.id /\ q.status = e.status /\ q.deciding = p.deciding
    BY <2>2, PageMade
  <2> QED BY <1>3, <2>1, <2>2, <2>3, PageChanged
<1>6. DashTypes'
  BY <1>4, <1>5 DEF DashInv, DashTypes, WithoutPoll
<1>7. Existing' /\ FollowedJobIsSaved' /\ RecordedIsMine'
  <2>1. job' = job /\ page.id # Null
    BY <1>1, StoreRests, DashboardAssumption
  <2> QED BY <1>1, <1>4, <1>5, <2>1
          DEF Existing, FollowedJobIsSaved, RecordedIsMine, PageIsTerminal, IsTerminal
<1>8. Ended' /\ Channels'
  <2>1. job' = job /\ page.id # Null /\ e.status = job[page.id].status
    BY <1>1, StoreRests, DashboardAssumption DEF KeepsOutcome
  <2> QED BY <1>4, <1>5, <2>1 DEF Ended, Channels
<1> DEFINE new == {}
<1>9. /\ new \in SUBSET Requests /\ requests' \subseteq requests \cup new
      /\ \A a \in new : a.kind # "create" /\ a.job = page.id /\ AboutStore(a)
      /\ \A q \in requests' : q.heard => ~ Asks(q) /\ q.kind # "poll"
  BY <1>1, <1>4 DEF WithoutPoll
<1> HIDE DEF new
<1>10. DashInv'
  BY <1>5, <1>6, <1>7, <1>8, <1>9, PageFollows
<1> QED BY <1>5, <1>10

-----------------------------------------------------------------------------
\* The user.

LEMMA SubmitInv == ASSUME DashInv, Submit PROVE DashInv'
<1> DEFINE a   == NewRequest("create", Null)
           new == {a}
<1>1. page' \in Pages /\ page'.id = Null /\ page'.status = Null /\ page'.deciding # "recorded"
  BY PageMade DEF Submit, DashInv, DashTypes
<1>2. a \in Requests /\ a.kind = "create" /\ a.job = Null /\ a.state = "sent"
  BY RequestMade DEF RequestKinds
<1>3. AboutStore(a)
  BY <1>2 DEF AboutStore
<1>4. /\ stream' = Null /\ timer' = Null /\ poll' = "none" /\ saved' = saved
      /\ requests' = Abandoned \cup new /\ UNCHANGED vars
  BY DEF Submit, ClearMonitoring
<1> HIDE DEF a
<1>5. DashTypes'
  BY <1>1, <1>2, <1>4, AbandonedSilent DEF DashInv, DashTypes
<1>6. Existing' /\ Channels' /\ Ended' /\ FollowedJobIsSaved' /\ RecordedIsMine'
  BY <1>1, <1>4, StoreRests, NullAssumption
     DEF DashInv, Existing, Channels, Ended, FollowedJobIsSaved, RecordedIsMine,
         PageIsTerminal, ResultStatus
<1>7. \A b \in new : /\ Asks(b) /\ AboutStore(b) /\ Quiet'
                     /\ \A c \in new : c = b
                     /\ b.kind = "create" => page'.id = Null
                     /\ b.kind = "resume" => page'.id = b.job
  BY <1>1, <1>2, <1>3, <1>4 DEF Asks, Quiet
<1>8. new \in SUBSET Requests
  BY <1>2
<1> HIDE DEF new
<1> QED BY <1>4, <1>5, <1>6, <1>7, <1>8, PageRestarts

LEMMA ReloadInv == ASSUME DashInv, Reload PROVE DashInv'
<1>1. /\ stream' = Null /\ timer' = Null /\ poll' = "none" /\ saved' = saved
      /\ UNCHANGED vars
  BY DEF Reload
<1>2. CASE saved = Null /\ page' = InitialPage /\ requests' = Abandoned
  <2> DEFINE new == {}
  <2>1. page' \in Pages /\ page'.id = Null /\ page'.status = Null /\ page'.deciding # "recorded"
    BY <1>2, PageStarts
  <2>2. DashTypes'
    BY <1>1, <1>2, <2>1, AbandonedSilent DEF DashInv, DashTypes
  <2>3. Existing' /\ Channels' /\ Ended' /\ FollowedJobIsSaved' /\ RecordedIsMine'
    BY <1>1, <1>2, <2>1, NullAssumption
       DEF Existing, Channels, Ended, FollowedJobIsSaved, RecordedIsMine,
           PageIsTerminal, ResultStatus
  <2>4. requests' \subseteq Abandoned \cup new /\ new \in SUBSET Requests
    BY <1>2
  <2>5. \A b \in new : /\ Asks(b) /\ AboutStore(b) /\ Quiet'
                       /\ \A c \in new : c = b
                       /\ b.kind = "create" => page'.id = Null
                       /\ b.kind = "resume" => page'.id = b.job
    OBVIOUS
  <2> HIDE DEF new
  <2> QED BY <1>1, <2>2, <2>3, <2>4, <2>5, PageRestarts
<1>3. CASE /\ saved # Null /\ page' = Resuming(saved)
           /\ requests' = Abandoned \cup {NewRequest("resume", saved)}
  <2> DEFINE a   == NewRequest("resume", saved)
             new == {a}
  <2>0. saved \in Jobs /\ job[saved] # Null
    BY <1>3 DEF DashInv, DashTypes, Existing
  <2>1. page' \in Pages /\ page'.id = saved /\ page'.status = Null /\ page'.deciding # "recorded"
    BY <1>3, <2>0, PageStarts
  <2>2. a \in Requests /\ a.kind = "resume" /\ a.job = saved /\ a.state = "sent"
    BY <2>0, RequestMade DEF RequestKinds
  <2>3. AboutStore(a)
    BY <1>3, <2>0, <2>2 DEF AboutStore
  <2>4. requests' = Abandoned \cup new
    BY <1>3
  <2> HIDE DEF a
  <2>5. DashTypes'
    BY <1>1, <2>1, <2>2, <2>4, AbandonedSilent DEF DashInv, DashTypes
  <2>6. Existing' /\ Channels' /\ Ended' /\ FollowedJobIsSaved' /\ RecordedIsMine'
    BY <1>1, <1>3, <2>0, <2>1, StoreRests, DashboardAssumption, NullAssumption
       DEF Existing, Channels, Ended, FollowedJobIsSaved, RecordedIsMine,
           PageIsTerminal, ResultStatus
  <2>7. \A b \in new : /\ Asks(b) /\ AboutStore(b) /\ Quiet'
                       /\ \A c \in new : c = b
                       /\ b.kind = "create" => page'.id = Null
                       /\ b.kind = "resume" => page'.id = b.job
    BY <1>1, <2>1, <2>2, <2>3 DEF Asks, Quiet
  <2>8. new \in SUBSET Requests /\ requests' \subseteq Abandoned \cup new
    BY <2>2, <2>4
  <2> HIDE DEF new
  <2> QED BY <1>1, <2>5, <2>6, <2>7, <2>8, PageRestarts
<1> QED BY <1>2, <1>3 DEF Reload

LEMMA DecideInv == ASSUME DashInv, NEW d \in Decisions, Decide(d) PROVE DashInv'
<1> DEFINE q   == NewRequest("decide", page.id)
           a   == [q EXCEPT !.wants = d]
           new == {a}
<1>1. page.status # Null /\ page.id \in Jobs /\ job[page.id] # Null
  BY NullAssumption, DashboardAssumption
     DEF Decide, MayDecide, PageIsTerminal, ResultStatus, Terminal, DashInv, DashTypes, Pages, Existing
<1>2. /\ page' \in Pages /\ page'.id = page.id /\ page'.status = page.status
      /\ page'.deciding = "submitting"
  BY PageChanged DEF Decide, DashInv, DashTypes
<1>3. d \in DecisionKinds
  BY DashboardAssumption
<1>4. a \in Requests /\ a.kind = "decide" /\ a.job = page.id /\ a.state = "sent" /\ a.wants = d
  <2>1. q \in Requests /\ q.kind = "decide" /\ q.job = page.id /\ q.state = "sent"
    BY <1>1, RequestMade DEF RequestKinds
  <2> HIDE DEF q
  <2> QED BY <1>3, <2>1 DEF Requests
<1>5. AboutStore(a)
  BY <1>1, <1>3, <1>4, DashboardAssumption DEF AboutStore
<1>6. requests' = requests \cup new /\ UNCHANGED vars /\ UNCHANGED <<saved, stream, timer, poll>>
  BY DEF Decide, monitor
<1> HIDE DEF a, q
<1>7. DashTypes'
  BY <1>2, <1>4, <1>6 DEF DashInv, DashTypes
<1>8. Existing' /\ Channels' /\ Ended' /\ FollowedJobIsSaved' /\ RecordedIsMine'
  BY <1>2, <1>6, SameShown DEF DashInv, Channels
<1>9. \A r \in requests' : r.heard =>
         ~ Asks(r) /\ (r.kind = "poll" => page'.status \notin Terminal)
  BY <1>1, <1>2, <1>4, <1>6, NoOtherAsks, Heard DEF Asks, Quiet, PageIsTerminal
<1>10. /\ new \in SUBSET Requests
       /\ \A b \in new : b.kind # "create" /\ b.job = page.id /\ AboutStore(b)
  BY <1>4, <1>5
<1> HIDE DEF new
<1> QED BY <1>2, <1>6, <1>7, <1>8, <1>9, <1>10, PageFollows

-----------------------------------------------------------------------------
\* Answers.

LEMMA CreateAnsweredInv ==
  ASSUME DashInv, NEW r \in requests, CreateAnswered(r) PROVE DashInv'
<1>1. /\ r.kind = "create" /\ r.heard /\ r.state = "served"
      /\ r.job \in Jobs /\ job[r.job] # Null /\ Quiet
      /\ \A s \in requests \ {r} : ~ s.heard
  BY DEF CreateAnswered, Answered, DashInv, DashTypes, AboutStore, AboutPage, Asks, Requests
<1>2. /\ page' \in Pages /\ page'.id = r.job /\ page'.status = "queued"
      /\ page'.deciding # "recorded"
  BY <1>1, PageMade DEF CreateAnswered, DashInv, DashTypes
<1>3. /\ stream' \in Streams /\ stream'.job = r.job
      /\ saved' = r.job /\ timer' = Null /\ poll' = "none"
      /\ requests' = requests \ {r} /\ UNCHANGED vars
  BY <1>1 DEF CreateAnswered, NewStream, Streams, Quiet
<1>4. JobInv' /\ DashTypes'
  BY <1>1, <1>2, <1>3, StoreRests, JobInvNext DEF DashInv, DashTypes
<1>5. ASSUME NEW q \in requests' PROVE AboutStore(q)' /\ AboutPage(q)'
  <2>1. AboutStore(q)' /\ ~ q.heard
    BY <1>1, <1>3, <1>5, StoreRests DEF DashInv
  <2> QED BY <2>1 DEF AboutPage
<1>6. job' = job /\ r.job # Null /\ ~ PageIsTerminal'
  BY <1>1, <1>2, <1>3, StoreRests, DashboardAssumption DEF PageIsTerminal, Terminal
<1>7. Existing' /\ Channels' /\ Ended' /\ FollowedJobIsSaved' /\ RecordedIsMine'
  BY <1>1, <1>2, <1>3, <1>6
     DEF Existing, Channels, Ended, FollowedJobIsSaved, RecordedIsMine
<1> QED BY <1>4, <1>5, <1>7 DEF DashInv

LEMMA RequestFailsInv ==
  ASSUME DashInv, NEW r \in requests, RequestFails(r) PROVE DashInv'
<1>1. r.heard /\ r.kind # "poll"
  BY DEF RequestFails, Failed
<1>2. /\ page' \in Pages /\ page'.id = page.id /\ page'.status = page.status
      /\ page'.deciding = page.deciding
  BY PageChanged DEF RequestFails, DashInv, DashTypes
<1>3. /\ requests' = requests \ {r} /\ UNCHANGED vars
      /\ UNCHANGED <<saved, stream, timer, poll>>
  BY DEF RequestFails, monitor
<1>4. DashTypes'
  BY <1>2, <1>3 DEF DashInv, DashTypes
<1>5. Existing' /\ Channels' /\ Ended' /\ FollowedJobIsSaved' /\ RecordedIsMine'
  BY <1>2, <1>3, SameShown DEF DashInv, Channels
<1>6. \A s \in requests' : s.heard =>
         ~ Asks(s) /\ (s.kind = "poll" => page'.status \notin Terminal)
  BY <1>1, <1>2, <1>3, Heard DEF PageIsTerminal
<1> DEFINE new == {}
<1>7. /\ new \in SUBSET Requests /\ requests' \subseteq requests \cup new
      /\ \A b \in new : b.kind # "create" /\ b.job = page.id /\ AboutStore(b)
  BY <1>3
<1> HIDE DEF new
<1> QED BY <1>2, <1>3, <1>4, <1>5, <1>6, <1>7, PageFollows

LEMMA ResumeAnsweredInv ==
  ASSUME DashInv, NEW r \in requests, ResumeAnswered(r) PROVE DashInv'
<1>1. /\ r.kind = "resume" /\ r.heard /\ r.state = "served" /\ UNCHANGED vars
      /\ page \in Pages
  BY DEF ResumeAnswered, Answered, DashInv, DashTypes
<1>2. /\ r.job = page.id /\ page.id \in Jobs /\ job[page.id] # Null /\ Quiet
      /\ r.body \in Envelope /\ KeepsOutcome(r.body, job[page.id])
      /\ \A s \in requests \ {r} : s.heard => ~ Asks(s)
  BY <1>1, Heard DEF AboutStore, Asks
<1>3. page.id # Null
  BY <1>2, DashboardAssumption
<1>4. CASE IsTerminal(r.body)
  <2>1. AcceptTerminal(page, r.job, r.body, requests \ {r})
    BY <1>4 DEF ResumeAnswered
  <2>2. page.deciding = "recorded" =>
           job[page.id].decision # Null /\ job[page.id].decision.operator = Me
    BY DEF DashInv, RecordedIsMine
  <2> QED BY <1>1, <1>2, <1>4, <2>1, <2>2, AcceptTerminalInv
<1>5. CASE ~ IsTerminal(r.body)
  <2>1. page' = WithEnvelope(page, r.body)
    BY <1>5 DEF ResumeAnswered, AcceptLive
  <2>2. /\ stream' = NewStream(r.job) /\ requests' = requests \ {r}
        /\ UNCHANGED <<saved, timer, poll>>
    BY <1>5 DEF ResumeAnswered
  <2>3. /\ page' \in Pages /\ page'.id = page.id /\ page'.status = r.body.status
        /\ page'.deciding = page.deciding
    BY <1>1, <1>2, <2>1, PageMade
  <2>4. stream' \in Streams /\ stream'.job = r.job
    BY <1>2, <2>2 DEF NewStream, Streams
  <2>5. DashTypes'
    BY <2>2, <2>3, <2>4 DEF DashInv, DashTypes
  <2>6. ~ PageIsTerminal /\ page'.status \notin Terminal
    BY <1>2, <1>5, <2>3, NullAssumption DEF Quiet, PageIsTerminal, IsTerminal, ResultStatus
  <2>7. Existing' /\ Ended' /\ FollowedJobIsSaved' /\ RecordedIsMine'
    BY <1>1, <1>3, <2>2, <2>3, <2>6, LiveShown
  <2>8. Channels'
    BY <1>2, <1>3, <2>2, <2>3, <2>4 DEF Channels, Quiet
  <2>9. \A s \in requests' : s.heard =>
           ~ Asks(s) /\ (s.kind = "poll" => page'.status \notin Terminal)
    BY <1>2, <2>2, <2>6
  <2> DEFINE new == {}
  <2>10. /\ new \in SUBSET Requests /\ requests' \subseteq requests \cup new
         /\ \A b \in new : b.kind # "create" /\ b.job = page.id /\ AboutStore(b)
    BY <2>2
  <2> HIDE DEF new
  <2> QED BY <1>1, <2>3, <2>5, <2>7, <2>8, <2>9, <2>10, PageFollows
<1> QED BY <1>4, <1>5

LEMMA EventAnsweredInv ==
  ASSUME DashInv, NEW r \in requests, EventAnswered(r) PROVE DashInv'
<1>1. /\ r.kind = "event" /\ r.heard /\ r.state = "served" /\ UNCHANGED vars
      /\ page \in Pages /\ AcceptTerminal(page, r.job, r.body, requests \ {r})
  BY DEF EventAnswered, Answered, DashInv, DashTypes
<1>2. r.body \in Envelope /\ IsTerminal(r.body) /\ KeepsOutcome(r.body, job[page.id])
  BY <1>1, Heard DEF AboutStore
<1>3. page.deciding = "recorded" =>
         job[page.id].decision # Null /\ job[page.id].decision.operator = Me
  BY DEF DashInv, RecordedIsMine
<1> QED BY <1>1, <1>2, <1>3, AcceptTerminalInv

LEMMA PollAnsweredInv ==
  ASSUME DashInv, NEW r \in requests, PollAnswered(r) PROVE DashInv'
<1>1. /\ r.kind = "poll" /\ r.heard /\ r.state = "served" /\ UNCHANGED vars
      /\ page \in Pages
  BY DEF PollAnswered, Answered, DashInv, DashTypes
<1>2. /\ r.job = page.id /\ page.id \in Jobs /\ job[page.id] # Null /\ ~ PageIsTerminal
      /\ r.body \in Envelope /\ KeepsOutcome(r.body, job[page.id])
      /\ \A s \in requests \ {r} : s.heard => ~ Asks(s)
  BY <1>1, Heard DEF AboutStore
<1>3. page.id # Null
  BY <1>2, DashboardAssumption
<1>4. CASE IsTerminal(r.body)
  <2>1. AcceptTerminal(page, r.job, r.body, requests \ {r})
    BY <1>4 DEF PollAnswered
  <2>2. page.deciding = "recorded" =>
           job[page.id].decision # Null /\ job[page.id].decision.operator = Me
    BY DEF DashInv, RecordedIsMine
  <2> QED BY <1>1, <1>2, <1>4, <2>1, <2>2, AcceptTerminalInv
<1>5. CASE ~ IsTerminal(r.body)
  <2>1. page' = WithEnvelope(page, r.body)
    BY <1>5 DEF PollAnswered, AcceptLive
  <2>2. poll' = "asleep" /\ requests' = requests \ {r} /\ UNCHANGED <<saved, stream, timer>>
    BY <1>5 DEF PollAnswered
  <2>3. /\ page' \in Pages /\ page'.id = page.id /\ page'.status = r.body.status
        /\ page'.deciding = page.deciding
    BY <1>1, <1>2, <2>1, PageMade
  <2>4. DashTypes'
    BY <2>2, <2>3 DEF DashInv, DashTypes
  <2>5. page'.status \notin Terminal
    BY <1>5, <2>3 DEF IsTerminal
  <2>6. Existing' /\ Ended' /\ FollowedJobIsSaved' /\ RecordedIsMine'
    BY <1>1, <1>2, <1>3, <2>2, <2>3, <2>5, LiveShown
  <2>7. Channels'
    BY <1>3, <2>2, <2>3 DEF DashInv, Channels
  <2>8. \A s \in requests' : s.heard =>
           ~ Asks(s) /\ (s.kind = "poll" => page'.status \notin Terminal)
    BY <1>2, <2>2, <2>5
  <2> DEFINE new == {}
  <2>9. /\ new \in SUBSET Requests /\ requests' \subseteq requests \cup new
        /\ \A b \in new : b.kind # "create" /\ b.job = page.id /\ AboutStore(b)
    BY <2>2
  <2> HIDE DEF new
  <2> QED BY <1>1, <2>3, <2>4, <2>6, <2>7, <2>8, <2>9, PageFollows
<1> QED BY <1>4, <1>5

LEMMA PollFailsInv ==
  ASSUME DashInv, NEW r \in requests, PollFails(r) PROVE DashInv'
<1>1. /\ r.heard /\ requests' = requests \ {r} /\ UNCHANGED vars
      /\ poll' = "none" /\ UNCHANGED <<saved, stream, timer>>
  BY DEF PollFails, Failed
<1>2. /\ page' \in Pages /\ page'.id = page.id /\ page'.status = page.status
      /\ page'.deciding = page.deciding
  BY PageChanged DEF PollFails, DashInv, DashTypes
<1>3. DashTypes'
  BY <1>1, <1>2 DEF DashInv, DashTypes
<1>4. Existing' /\ Channels' /\ Ended' /\ FollowedJobIsSaved' /\ RecordedIsMine'
  BY <1>1, <1>2, SameShown DEF DashInv, Channels
<1>5. \A s \in requests' : s.heard =>
         ~ Asks(s) /\ (s.kind = "poll" => page'.status \notin Terminal)
  BY <1>1, <1>2, Heard DEF PageIsTerminal
<1> DEFINE new == {}
<1>6. /\ new \in SUBSET Requests /\ requests' \subseteq requests \cup new
      /\ \A b \in new : b.kind # "create" /\ b.job = page.id /\ AboutStore(b)
  BY <1>1
<1> HIDE DEF new
<1> QED BY <1>1, <1>2, <1>3, <1>4, <1>5, <1>6, PageFollows

\* The answer is the decision that was sent, and so is what the store has since.
LEMMA DecideAnsweredInv ==
  ASSUME DashInv, NEW r \in requests, DecideAnswered(r) PROVE DashInv'
<1>1. /\ r.kind = "decide" /\ r.heard /\ r.state = "served"
      /\ UNCHANGED vars /\ UNCHANGED <<saved, stream, timer, poll>>
  BY DEF DecideAnswered, Answered, monitor
<1>2. /\ r.job = page.id /\ page.id \in Jobs /\ job[page.id] # Null
      /\ r.body \in Envelope /\ KeepsOutcome(r.body, job[page.id]) /\ r.body.decision # Null
      /\ \A s \in requests \ {r} : s.heard => ~ Asks(s)
  BY <1>1, Heard DEF AboutStore
<1>3. CASE r.body.decision = [operator |-> Me, decision |-> r.wants]
  <2> DEFINE a   == NewRequest("reconcile", r.job)
             new == {a}
  <2>1. /\ a \in Requests /\ a.kind = "reconcile" /\ a.job = page.id /\ a.state = "sent"
    BY <1>2, RequestMade DEF RequestKinds
  <2>2. job[page.id].decision # Null /\ job[page.id].decision.operator = Me
    BY <1>2, <1>3 DEF KeepsOutcome
  <2>3. AboutStore(a)
    BY <1>2, <2>1, <2>2, DashboardAssumption DEF AboutStore
  <2>4. requests' = (requests \ {r}) \cup new /\ page' = page
    BY <1>3 DEF DecideAnswered
  <2> HIDE DEF a
  <2>5. DashTypes'
    BY <1>1, <2>1, <2>4 DEF DashInv, DashTypes
  <2>6. Existing' /\ Channels' /\ Ended' /\ FollowedJobIsSaved' /\ RecordedIsMine'
    BY <1>1, <2>4, SameShown DEF DashInv, Channels
  <2>7. \A s \in requests' : s.heard =>
           ~ Asks(s) /\ (s.kind = "poll" => page'.status \notin Terminal)
    BY <1>2, <2>1, <2>4, Heard DEF PageIsTerminal, Asks
  <2>8. /\ new \in SUBSET Requests /\ requests' \subseteq requests \cup new
        /\ \A b \in new : b.kind # "create" /\ b.job = page.id /\ AboutStore(b)
    BY <2>1, <2>3, <2>4
  <2> HIDE DEF new
  <2> QED BY <1>1, <2>4, <2>5, <2>6, <2>7, <2>8, PageFollows
<1>4. CASE r.body.decision # [operator |-> Me, decision |-> r.wants]
  <2>1. requests' = requests \ {r} /\ page' = OnTransport(page, "protocol_error")
    BY <1>4 DEF DecideAnswered
  <2>2. /\ page' \in Pages /\ page'.id = page.id /\ page'.status = page.status
        /\ page'.deciding = page.deciding
    BY <2>1, PageChanged DEF DashInv, DashTypes
  <2>3. DashTypes'
    BY <1>1, <2>1, <2>2 DEF DashInv, DashTypes
  <2>4. Existing' /\ Channels' /\ Ended' /\ FollowedJobIsSaved' /\ RecordedIsMine'
    BY <1>1, <2>2, SameShown DEF DashInv, Channels
  <2>5. \A s \in requests' : s.heard =>
           ~ Asks(s) /\ (s.kind = "poll" => page'.status \notin Terminal)
    BY <1>2, <2>1, <2>2, Heard DEF PageIsTerminal
  <2> DEFINE new == {}
  <2>6. /\ new \in SUBSET Requests /\ requests' \subseteq requests \cup new
        /\ \A b \in new : b.kind # "create" /\ b.job = page.id /\ AboutStore(b)
    BY <2>1
  <2> HIDE DEF new
  <2> QED BY <1>1, <2>2, <2>3, <2>4, <2>5, <2>6, PageFollows
<1> QED BY <1>3, <1>4

LEMMA ReconcileAnsweredInv ==
  ASSUME DashInv, NEW r \in requests, ReconcileAnswered(r) PROVE DashInv'
<1> DEFINE p == WithDecision(page, "recorded")
<1>1. /\ r.kind = "reconcile" /\ r.heard /\ r.state = "served" /\ UNCHANGED vars
      /\ r.body.decision # Null /\ AcceptTerminal(p, r.job, r.body, requests \ {r})
  BY DEF ReconcileAnswered, Answered
<1>2. /\ r.job = page.id /\ r.body \in Envelope /\ IsTerminal(r.body)
      /\ KeepsOutcome(r.body, job[page.id])
      /\ job[page.id].decision # Null /\ job[page.id].decision.operator = Me
  BY <1>1, Heard DEF AboutStore
<1>3. p \in Pages /\ p.id = page.id
  BY PageChanged DEF DashInv, DashTypes
<1> HIDE DEF p
<1> QED BY <1>1, <1>2, <1>3, AcceptTerminalInv

LEMMA DecisionFailsInv ==
  ASSUME DashInv, NEW r \in requests, DecisionFails(r) PROVE DashInv'
<1>1. /\ r.heard /\ requests' = requests \ {r} /\ UNCHANGED vars
      /\ UNCHANGED <<saved, stream, timer, poll>>
  BY DEF DecisionFails, Failed, monitor
<1>2. /\ page' \in Pages /\ page'.id = page.id /\ page'.status = page.status
      /\ page'.deciding = "error"
  BY PageChanged DEF DecisionFails, DashInv, DashTypes
<1>3. DashTypes'
  BY <1>1, <1>2 DEF DashInv, DashTypes
<1>4. Existing' /\ Channels' /\ Ended' /\ FollowedJobIsSaved' /\ RecordedIsMine'
  BY <1>1, <1>2, SameShown DEF DashInv, Channels
<1>5. \A s \in requests' : s.heard =>
         ~ Asks(s) /\ (s.kind = "poll" => page'.status \notin Terminal)
  BY <1>1, <1>2, Heard DEF PageIsTerminal
<1> DEFINE new == {}
<1>6. /\ new \in SUBSET Requests /\ requests' \subseteq requests \cup new
      /\ \A b \in new : b.kind # "create" /\ b.job = page.id /\ AboutStore(b)
  BY <1>1
<1> HIDE DEF new
<1> QED BY <1>1, <1>2, <1>3, <1>4, <1>5, <1>6, PageFollows

-----------------------------------------------------------------------------
\* The stream and the timers.

\* An open or connecting stream is about a job that has not ended for the page.
LEMMA Streaming ==
  ASSUME DashInv, stream # Null
  PROVE  /\ stream \in Streams /\ stream.job = page.id /\ page.id # Null
         /\ page.id \in Jobs /\ job[page.id] # Null /\ ~ PageIsTerminal
         /\ \A r \in requests : r.heard => ~ Asks(r)
         /\ \A link \in {"connecting", "open", "dead"} :
               [stream EXCEPT !.link = link] \in Streams
               /\ [stream EXCEPT !.link = link].job = stream.job
<1>1. stream \in Streams /\ page \in Pages
  BY DEF DashInv, DashTypes
<1>2. stream.job = page.id /\ page.id # Null /\ job[page.id] # Null /\ ~ PageIsTerminal
  BY DEF DashInv, Channels, Existing, Ended
<1>3. \A r \in requests : r.heard => ~ Asks(r)
  BY NoOtherAsks DEF Quiet
<1> QED BY <1>1, <1>2, <1>3 DEF Streams, Pages

LEMMA StreamOpensInv == ASSUME DashInv, StreamOpens PROVE DashInv'
<1>1. /\ stream # Null /\ stream' = [stream EXCEPT !.link = "open"] /\ timer' = Null
      /\ poll' = "none" /\ requests' = WithoutPoll(requests)
      /\ UNCHANGED vars /\ UNCHANGED saved
  BY DEF StreamOpens, StreamIs, AbortPoll
<1>2. /\ page' \in Pages /\ page'.id = page.id /\ page'.status = page.status
      /\ page'.deciding = page.deciding
  BY PageChanged DEF StreamOpens, DashInv, DashTypes
<1>3. stream' \in Streams /\ stream'.job = stream.job
  BY <1>1, Streaming
<1>4. DashTypes'
  BY <1>1, <1>2, <1>3 DEF DashInv, DashTypes, WithoutPoll
<1>5. Existing' /\ Channels' /\ Ended' /\ FollowedJobIsSaved' /\ RecordedIsMine'
  BY <1>1, <1>2, <1>3, SameShown
<1>6. \A s \in requests' : s.heard =>
         ~ Asks(s) /\ (s.kind = "poll" => page'.status \notin Terminal)
  BY <1>1, Streaming DEF WithoutPoll
<1> DEFINE new == {}
<1>7. /\ new \in SUBSET Requests /\ requests' \subseteq requests \cup new
      /\ \A b \in new : b.kind # "create" /\ b.job = page.id /\ AboutStore(b)
  BY <1>1 DEF WithoutPoll
<1> HIDE DEF new
<1> QED BY <1>1, <1>2, <1>4, <1>5, <1>6, <1>7, PageFollows

\* The end of a connection, by a fault or by the server.
LEMMA StreamLostInv ==
  ASSUME DashInv, stream # Null,
         NEW link \in {"connecting", "open", "dead"}, StreamLost(link)
  PROVE  DashInv'
<1>1. /\ stream' = [stream EXCEPT !.link = link] /\ timer' = stream.job
      /\ UNCHANGED vars /\ UNCHANGED <<saved, poll, requests>>
  BY DEF StreamLost
<1>2. /\ page' \in Pages /\ page'.id = page.id /\ page'.status = page.status
      /\ page'.deciding = page.deciding
  BY PageChanged DEF StreamLost, DashInv, DashTypes
<1>3. stream' \in Streams /\ stream'.job = stream.job /\ stream.job \in Jobs
  BY <1>1, Streaming
<1>4. DashTypes'
  BY <1>1, <1>2, <1>3 DEF DashInv, DashTypes
<1>5. Existing' /\ Channels' /\ Ended' /\ FollowedJobIsSaved' /\ RecordedIsMine'
  BY <1>1, <1>2, <1>3, SameShown DEF DashInv, Channels
<1>6. \A s \in requests' : s.heard =>
         ~ Asks(s) /\ (s.kind = "poll" => page'.status \notin Terminal)
  BY <1>1, <1>2, Streaming DEF PageIsTerminal
<1> DEFINE new == {}
<1>7. /\ new \in SUBSET Requests /\ requests' \subseteq requests \cup new
      /\ \A b \in new : b.kind # "create" /\ b.job = page.id /\ AboutStore(b)
  BY <1>1
<1> HIDE DEF new
<1> QED BY <1>1, <1>2, <1>4, <1>5, <1>6, <1>7, PageFollows

LEMMA StreamClosesInv == ASSUME DashInv, StreamBreaks \/ StreamEnds PROVE DashInv'
<1>1. stream # Null
  BY DEF StreamBreaks, StreamEnds, StreamIs
<1>2. StreamLost("connecting") \/ StreamLost("dead")
  BY DEF StreamBreaks, StreamEnds
<1> QED BY <1>1, <1>2, StreamLostInv

\* A terminal event is only in the log of a job that has ended.
LEMMA TerminalEventTells ==
  ASSUME JobInv, NEW j \in Jobs, job[j] # Null,
         NEW n \in 1..Len(log[j]), log[j][n].status \in Terminal
  PROVE  IsTerminal(job[j])
<1> DEFINE l == log[j]
<1>1. Consistent(job[j], l)
  BY DEF JobInv
<1>2. l \in Seq(Event) /\ Len(l) \in Nat /\ l[Len(l)].status = job[j].status
  BY <1>1 DEF Consistent, Current
<1> HIDE DEF l
<1>3. CASE n = Len(l)
  BY <1>2, <1>3 DEF l, IsTerminal
<1>4. CASE n < Len(l)
  <2>1. Len(l) \in 1..Len(l) /\ n \in 1..Len(l) /\ l[n].status \in Terminal
    BY <1>2, <1>4 DEF l
  <2>2. l[Len(l)].status = l[n].status
    BY <1>1, <1>4, <2>1 DEF Consistent, TerminalLast
  <2> QED BY <1>2, <2>1, <2>2 DEF IsTerminal
<1>5. n \in 1..Len(l)
  BY DEF l
<1> QED BY <1>2, <1>3, <1>4, <1>5

LEMMA StreamEventInv == ASSUME DashInv, StreamEvent PROVE DashInv'
<1>1. stream # Null /\ UNCHANGED vars /\ UNCHANGED <<saved, timer, poll>>
  BY DEF StreamEvent, StreamIs
<1>2. PICK j : j = stream.job
  OBVIOUS
<1>3. PICK n : n = stream.got + 1
  OBVIOUS
<1>4. PICK e : e = log[j][n]
  OBVIOUS
<1>5. /\ j = page.id /\ j \in Jobs /\ j # Null /\ job[j] # Null /\ ~ PageIsTerminal
      /\ stream \in Streams /\ \A r \in requests : r.heard => ~ Asks(r)
  BY <1>1, <1>2, Streaming
<1>6. n \in 1..Len(log[j]) /\ n \in Nat /\ e \in Event
  <2>1. log[j] \in Seq(Event)
    BY <1>5 DEF DashInv, JobInv
  <2>2. n \in Nat /\ 1 <= n
    BY <1>3, <1>5 DEF Streams
  <2>3. stream.got < Len(log[j]) /\ stream.got \in Nat /\ Len(log[j]) \in Nat
    BY <1>2, <1>5, <2>1 DEF StreamEvent, Streams
  <2>4. n <= Len(log[j])
    BY <1>3, <2>3
  <2> QED BY <1>4, <2>1, <2>2, <2>3, <2>4
<1>7. stream' = [stream EXCEPT !.got = n]
  BY <1>3 DEF StreamEvent
<1>8. stream' \in Streams /\ stream'.job = stream.job
  BY <1>5, <1>6, <1>7 DEF Streams
<1>9. CASE e.status \in Terminal
  <2> DEFINE q   == NewRequest("event", j)
             a   == [q EXCEPT !.n = n]
             new == {a}
  <2>1. requests' = requests \cup new /\ page' = page
    BY <1>2, <1>3, <1>4, <1>9 DEF StreamEvent
  <2>2. a \in Requests /\ a.kind = "event" /\ a.job = page.id /\ a.state = "sent"
    <3>1. q \in Requests /\ q.kind = "event" /\ q.job = page.id /\ q.state = "sent"
      BY <1>5, RequestMade DEF RequestKinds
    <3> HIDE DEF q
    <3> QED BY <1>6, <3>1 DEF Requests
  <2>3. IsTerminal(job[page.id])
    BY <1>4, <1>5, <1>6, <1>9, TerminalEventTells DEF DashInv
  <2>4. AboutStore(a)
    BY <1>5, <2>2, <2>3 DEF AboutStore
  <2> HIDE DEF a, q
  <2>5. DashTypes'
    BY <1>1, <1>8, <2>1, <2>2 DEF DashInv, DashTypes
  <2>6. Existing' /\ Channels' /\ Ended' /\ FollowedJobIsSaved' /\ RecordedIsMine'
    BY <1>1, <1>8, <2>1, SameShown DEF DashInv, Channels
  <2>7. \A s \in requests' : s.heard =>
           ~ Asks(s) /\ (s.kind = "poll" => page'.status \notin Terminal)
    BY <1>5, <2>1, <2>2 DEF Asks, PageIsTerminal
  <2>8. /\ new \in SUBSET Requests /\ requests' \subseteq requests \cup new
        /\ \A b \in new : b.kind # "create" /\ b.job = page.id /\ AboutStore(b)
    BY <2>1, <2>2, <2>4
  <2> HIDE DEF new
  <2> QED BY <1>1, <2>1, <2>5, <2>6, <2>7, <2>8, PageFollows
<1>10. CASE e.status \notin Terminal
  <2> DEFINE f == [NewEnvelope EXCEPT !.status = e.status]
  <2>1. page' = WithEnvelope(page, f) /\ requests' = requests
    BY <1>2, <1>3, <1>4, <1>10 DEF StreamEvent, AcceptLive
  <2>2. f \in Envelope /\ f.status = e.status
    BY <1>6 DEF NewEnvelope, Envelope, Event
  <2> HIDE DEF f
  <2>3. /\ page' \in Pages /\ page'.id = page.id /\ page'.status = e.status
        /\ page'.deciding = page.deciding
    BY <2>1, <2>2, PageMade DEF DashInv, DashTypes
  <2>4. DashTypes'
    BY <1>1, <1>8, <2>1, <2>3 DEF DashInv, DashTypes
  <2>5. Existing' /\ Ended' /\ FollowedJobIsSaved' /\ RecordedIsMine'
    BY <1>1, <1>5, <1>10, <2>3, LiveShown
  <2>6. Channels'
    BY <1>1, <1>2, <1>5, <1>8, <2>3 DEF DashInv, Channels
  <2>7. \A s \in requests' : s.heard =>
           ~ Asks(s) /\ (s.kind = "poll" => page'.status \notin Terminal)
    BY <1>5, <1>10, <2>1, <2>3
  <2> DEFINE new == {}
  <2>8. /\ new \in SUBSET Requests /\ requests' \subseteq requests \cup new
        /\ \A b \in new : b.kind # "create" /\ b.job = page.id /\ AboutStore(b)
    BY <2>1
  <2> HIDE DEF new
  <2> QED BY <1>1, <2>3, <2>4, <2>5, <2>6, <2>7, <2>8, PageFollows
<1> QED BY <1>9, <1>10

\* A new request of the polling loop, for the job that is followed.
LEMMA PollStartsInv ==
  ASSUME DashInv, UNCHANGED vars, UNCHANGED <<saved, stream>>,
         page.id \in Jobs, page' \in Pages, page'.id = page.id,
         page'.status = page.status, page'.deciding = page.deciding,
         timer' \in {Null, timer}, poll' = "waiting", poll # "none" \/ timer # Null,
         requests' \subseteq requests \cup {NewRequest("poll", page.id)}
  PROVE  DashInv'
<1> DEFINE a   == NewRequest("poll", page.id)
           new == {a}
<1>1. a \in Requests /\ a.kind = "poll" /\ a.job = page.id /\ a.state = "sent"
  BY RequestMade DEF RequestKinds
<1>2. page.id # Null /\ job[page.id] # Null /\ ~ PageIsTerminal
  BY DashboardAssumption DEF DashInv, Existing, Ended
<1>3. AboutStore(a)
  BY <1>1, <1>2 DEF AboutStore
<1>4. requests' \subseteq requests \cup new
  OBVIOUS
<1> HIDE DEF a
<1>5. DashTypes'
  BY <1>1, <1>4 DEF DashInv, DashTypes
<1>6. Existing' /\ Channels' /\ Ended' /\ FollowedJobIsSaved' /\ RecordedIsMine'
  BY SameShown DEF DashInv, Channels
<1>7. \A s \in requests' : s.heard =>
         ~ Asks(s) /\ (s.kind = "poll" => page'.status \notin Terminal)
  BY <1>1, <1>2, <1>4, NoOtherAsks DEF Asks, Quiet, PageIsTerminal
<1>8. /\ new \in SUBSET Requests
      /\ \A b \in new : b.kind # "create" /\ b.job = page.id /\ AboutStore(b)
  BY <1>1, <1>3
<1> HIDE DEF new
<1> QED BY <1>4, <1>5, <1>6, <1>7, <1>8, PageFollows

\* A step that leaves what is shown, the channels and the requests alone.
LEMMA NothingMoves ==
  ASSUME DashInv, UNCHANGED vars, UNCHANGED <<page, saved, stream, poll, requests>>,
         timer' \in {Null, timer}
  PROVE  DashInv'
<1>1. job' = job /\ log' = log
  BY DEF vars
<1>2. JobInv' /\ DashTypes'
  BY JobInvNext DEF DashInv, DashTypes
<1>3. \A r \in requests' : AboutStore(r)' /\ AboutPage(r)'
  <2> SUFFICES ASSUME NEW r \in requests PROVE AboutStore(r)' /\ AboutPage(r)'
    OBVIOUS
  <2>1. AboutStore(r)'
    BY <1>1 DEF DashInv, AboutStore
  <2>2. AboutPage(r)
    BY DEF DashInv
  <2>3. Quiet => Quiet'
    BY DEF Quiet
  <2>4. AboutPage(r)'
    BY <2>2, <2>3 DEF AboutPage, PageIsTerminal
  <2> QED BY <2>1, <2>4
<1>4. Existing' /\ Channels' /\ Ended' /\ FollowedJobIsSaved' /\ RecordedIsMine'
  BY SameShown DEF DashInv, Channels
<1> QED BY <1>2, <1>3, <1>4 DEF DashInv

LEMMA TimerFiresInv == ASSUME DashInv, TimerFires PROVE DashInv'
<1>1. /\ timer # Null /\ timer' = Null /\ StartPollingFallback(timer)
      /\ UNCHANGED vars /\ UNCHANGED <<saved, stream>>
  BY DEF TimerFires
<1>2. timer = page.id /\ timer \in Jobs
  BY <1>1 DEF DashInv, DashTypes, Channels
<1>3. CASE polling
  <2>1. UNCHANGED <<page, poll, requests>>
    BY <1>1, <1>3 DEF StartPollingFallback
  <2> QED BY <1>1, <2>1, NothingMoves
<1>4. CASE ~ polling
  <2>1. CurrentOperation(timer)
    BY <1>1, <1>2 DEF CurrentOperation
  <2>2. /\ page' = OnTransport(page, "polling_fallback") /\ poll' = "waiting"
        /\ requests' = WithoutPoll(requests) \cup {NewRequest("poll", timer)}
    BY <1>1, <1>4, <2>1 DEF StartPollingFallback
  <2>3. /\ page' \in Pages /\ page'.id = page.id /\ page'.status = page.status
        /\ page'.deciding = page.deciding
    BY <2>2, PageChanged DEF DashInv, DashTypes
  <2>4. requests' \subseteq requests \cup {NewRequest("poll", page.id)}
    BY <1>2, <2>2 DEF WithoutPoll
  <2> QED BY <1>1, <1>2, <2>2, <2>3, <2>4, PollStartsInv
<1> QED BY <1>3, <1>4

LEMMA PollWakesInv == ASSUME DashInv, PollWakes PROVE DashInv'
<1>1. /\ poll # "none" /\ poll' = "waiting" /\ UNCHANGED vars
      /\ UNCHANGED <<page, saved, stream, timer>>
      /\ requests' = requests \cup {NewRequest("poll", page.id)}
  BY DEF PollWakes
<1>2. page \in Pages /\ page.id \in Jobs
  BY <1>1 DEF DashInv, DashTypes, Channels, Pages
<1> QED BY <1>1, <1>2, PollStartsInv

-----------------------------------------------------------------------------
\* The invariant and the theorems.

LEMMA DashInvInit == DashInit => DashInv
<1> SUFFICES ASSUME DashInit PROVE DashInv
  OBVIOUS
<1>1. JobInv
  BY JobInvInit DEF DashInit
<1>2. DashTypes
  BY PageStarts DEF DashInit, DashTypes
<1>3. Existing /\ Channels /\ Ended /\ FollowedJobIsSaved /\ RecordedIsMine
  BY PageStarts, NullAssumption
     DEF DashInit, Existing, Channels, Ended, FollowedJobIsSaved, RecordedIsMine,
         PageIsTerminal, ResultStatus
<1> QED BY <1>1, <1>2, <1>3 DEF DashInit, DashInv

LEMMA DashInvNext == DashInv /\ [DashNext]_allVars => DashInv'
<1> SUFFICES ASSUME DashInv, [DashNext]_allVars PROVE DashInv'
  OBVIOUS
<1>1. CASE UserStep
  BY <1>1, SubmitInv, ReloadInv, DecideInv DEF UserStep
<1>2. ASSUME NEW r \in requests, ServeStep(r) PROVE DashInv'
  BY <1>2, ServeCreateInv, ServeGetInv, ServeDecideInv DEF ServeStep
<1>3. ASSUME NEW r \in requests, AnswerStep(r) PROVE DashInv'
  BY <1>3, CreateAnsweredInv, ResumeAnsweredInv, EventAnsweredInv, PollAnsweredInv,
     PollFailsInv, RequestFailsInv, DecideAnsweredInv, ReconcileAnsweredInv,
     DecisionFailsInv DEF AnswerStep
<1>4. ASSUME NEW r \in requests, Fail(r) PROVE DashInv'
  BY <1>4, FailInv
<1>5. ASSUME NEW j \in Jobs, Progress(j) \/ OtherDecides(j) PROVE DashInv'
  BY <1>5, WorldInv
<1>6. CASE StreamOpens \/ StreamBreaks \/ StreamEnds \/ StreamEvent
  BY <1>6, StreamOpensInv, StreamClosesInv, StreamEventInv
<1>7. CASE TimerFires \/ PollWakes
  BY <1>7, TimerFiresInv, PollWakesInv
<1>8. CASE AbortedPollEnds
  BY <1>8, NothingMoves DEF AbortedPollEnds
<1>9. CASE UNCHANGED allVars
  BY <1>9, NothingMoves DEF allVars, dashVars, monitor
<1> QED BY <1>1, <1>2, <1>3, <1>4, <1>5, <1>6, <1>7, <1>8, <1>9 DEF DashNext

\* Whatever the user, the server, the stream and the timers do, an answer the page
\* waits for is about the job it follows and says what its store can no longer take
\* back.
THEOREM DashInvariant == DashSpec => []DashInv
<1>1. DashInit => DashInv
  BY DashInvInit
<1>2. DashInv /\ [DashNext]_allVars => DashInv'
  BY DashInvNext
<1> QED BY <1>1, <1>2, PTL DEF DashSpec

\* A reload never loses a job that is still followed (persistActiveJob).
THEOREM FollowedSaved == DashSpec => []FollowedJobIsSaved
<1>1. DashInv => FollowedJobIsSaved
  BY DEF DashInv
<1> QED BY <1>1, DashInvariant, PTL

\* A decision shown as recorded is the one this operator made, whoever else decided
\* at the same time (submitDecision and reconcileDecision).
THEOREM RecordedMine == DashSpec => []RecordedIsMine
<1>1. DashInv => RecordedIsMine
  BY DEF DashInv
<1> QED BY <1>1, DashInvariant, PTL

-----------------------------------------------------------------------------
\* The end that is shown.

\* An answer that ends what the page shows makes it terminal; one that does not end
\* it is none that is waited for after the end.
LEMMA AnswerKeepsEnd ==
  ASSUME DashInv, NEW r \in requests, AnswerStep(r),
         PageIsTerminal, page'.id = page.id
  PROVE  page'.status \in Terminal
<1>1. page \in Pages /\ page.id # Null
  BY DEF DashInv, DashTypes, Ended
<1>2. CASE CreateAnswered(r)
  BY <1>1, <1>2, Heard DEF CreateAnswered, Answered
<1>3. CASE ResumeAnswered(r)
  BY <1>3, Heard, NullAssumption
     DEF ResumeAnswered, Answered, Asks, Quiet, PageIsTerminal, ResultStatus
<1>4. CASE EventAnswered(r)
  <2>1. /\ r.heard /\ r.kind = "event" /\ r.body \in Envelope /\ IsTerminal(r.body)
        /\ KeepsOutcome(r.body, job[page.id])
        /\ AcceptTerminal(page, r.job, r.body, requests \ {r}) /\ UNCHANGED vars
    BY <1>4, Heard DEF EventAnswered, Answered, AboutStore
  <2>2. page.deciding = "recorded" =>
           job[page.id].decision # Null /\ job[page.id].decision.operator = Me
    BY DEF DashInv, RecordedIsMine
  <2> QED BY <1>1, <2>1, <2>2, AcceptTerminalInv DEF IsTerminal
<1>5. CASE PollAnswered(r)
  BY <1>5, Heard DEF PollAnswered, Answered
<1>6. CASE PollFails(r) \/ RequestFails(r)
  BY <1>1, <1>6, PageChanged DEF PollFails, RequestFails, PageIsTerminal
<1>7. CASE DecideAnswered(r)
  BY <1>1, <1>7, PageChanged DEF DecideAnswered, PageIsTerminal
<1>8. CASE ReconcileAnswered(r)
  <2> DEFINE p == WithDecision(page, "recorded")
  <2>1. /\ r.heard /\ r.kind = "reconcile" /\ r.body \in Envelope /\ IsTerminal(r.body)
        /\ KeepsOutcome(r.body, job[page.id])
        /\ job[page.id].decision # Null /\ job[page.id].decision.operator = Me
        /\ AcceptTerminal(p, r.job, r.body, requests \ {r}) /\ UNCHANGED vars
    BY <1>8, Heard DEF ReconcileAnswered, Answered, AboutStore
  <2>2. p \in Pages /\ p.id = page.id
    BY <1>1, PageChanged
  <2> HIDE DEF p
  <2> QED BY <2>1, <2>2, AcceptTerminalInv DEF IsTerminal
<1>9. CASE DecisionFails(r)
  BY <1>1, <1>9, PageChanged DEF DecisionFails, PageIsTerminal
<1> QED BY <1>2, <1>3, <1>4, <1>5, <1>6, <1>7, <1>8, <1>9 DEF AnswerStep

\* No step takes the page back from the end, unless it leaves the job.
LEMMA EndKept ==
  ASSUME DashInv, DashNext, PageIsTerminal, page'.id = page.id
  PROVE  page'.status \in Terminal
<1>1. /\ page \in Pages /\ page.id # Null /\ saved = Null /\ stream = Null
      /\ timer = Null /\ poll = "none"
  BY DEF DashInv, DashTypes, Ended
<1>2. CASE UserStep
  <2>1. CASE Submit
    BY <1>1, <2>1, PageMade DEF Submit
  <2>2. CASE Reload
    BY <1>1, <2>2, PageStarts DEF Reload
  <2>3. ASSUME NEW d \in Decisions, Decide(d) PROVE page'.status \in Terminal
    BY <1>1, <2>3, PageChanged DEF Decide, PageIsTerminal
  <2> QED BY <1>2, <2>1, <2>2, <2>3 DEF UserStep
<1>3. ASSUME NEW r \in requests, ServeStep(r) \/ Fail(r) PROVE page' = page
  BY <1>3 DEF ServeStep, ServeCreate, ServeGet, ServeDecide, Served, Fail
<1>4. ASSUME NEW r \in requests, AnswerStep(r) PROVE page'.status \in Terminal
  BY <1>4, AnswerKeepsEnd
<1>5. ASSUME NEW j \in Jobs, Progress(j) \/ OtherDecides(j) PROVE page' = page
  BY <1>5 DEF Progress, OtherDecides, dashVars
<1>6. ~ (StreamOpens \/ StreamBreaks \/ StreamEnds \/ StreamEvent)
  BY <1>1 DEF StreamOpens, StreamBreaks, StreamEnds, StreamEvent, StreamIs
<1>7. ~ (TimerFires \/ PollWakes)
  BY <1>1 DEF TimerFires, PollWakes
<1>8. CASE AbortedPollEnds
  BY <1>8 DEF AbortedPollEnds, PageIsTerminal
<1> QED BY <1>2, <1>3, <1>4, <1>5, <1>6, <1>7, <1>8 DEF DashNext, PageIsTerminal

\* The world only moves by the operations of a store.
LEMMA StoreStep == ASSUME DashInv, [DashNext]_allVars PROVE [Next]_vars
<1>1. ASSUME NEW r \in requests, ServeStep(r) PROVE [Next]_vars
  <2>1. CASE ServeCreate(r)
    <3>1. NewJob \in Jobs
      BY <2>1 DEF ServeCreate, NewJob
    <3> QED BY <2>1, <3>1 DEF ServeCreate, Next
  <2>2. CASE ServeGet(r)
    BY <2>2 DEF ServeGet
  <2>3. CASE ServeDecide(r)
    <3>1. r.job \in Jobs /\ r.wants \in DecisionKinds
      BY <2>3, DashboardAssumption DEF ServeDecide, DashInv, DashTypes, AboutStore, Requests
    <3>2. [operator |-> Me, decision |-> r.wants] \in DecisionRecord
      BY <3>1, DashboardAssumption DEF DecisionRecord
    <3> QED BY <2>3, <3>1, <3>2 DEF ServeDecide, Next
  <2> QED BY <1>1, <2>1, <2>2, <2>3 DEF ServeStep
<1>2. ASSUME NEW j \in Jobs, Progress(j) \/ OtherDecides(j) PROVE [Next]_vars
  BY <1>2, DashboardAssumption DEF Progress, OtherDecides, Next, SettableStatus
<1>3. ASSUME NEW r \in requests, AnswerStep(r) \/ Fail(r) PROVE [Next]_vars
  BY <1>3 DEF AnswerStep, Fail, CreateAnswered, ResumeAnswered, EventAnswered, PollAnswered,
     PollFails, RequestFails, DecideAnswered, ReconcileAnswered, DecisionFails
<1>4. CASE UserStep
  BY <1>4 DEF UserStep, Submit, Reload, Decide
<1>5. CASE StreamOpens \/ StreamBreaks \/ StreamEnds \/ StreamEvent
  BY <1>5 DEF StreamOpens, StreamBreaks, StreamEnds, StreamEvent, StreamLost
<1>6. CASE TimerFires \/ PollWakes \/ AbortedPollEnds
  BY <1>6 DEF TimerFires, PollWakes, AbortedPollEnds
<1>7. CASE UNCHANGED allVars
  BY <1>7 DEF allVars
<1> QED BY <1>1, <1>2, <1>3, <1>4, <1>5, <1>6, <1>7 DEF DashNext

\* The display never goes back from a terminal status, and never to another one,
\* whatever older answer is still under way (acceptEnvelope closes the channels).
THEOREM TerminalStays == DashSpec => TerminalStaysShown
<1>1. DashInv /\ DashInv' /\ [DashNext]_allVars
        => [page.id # Null /\ page'.id = page.id /\ PageIsTerminal
              => page'.status = page.status]_allVars
  <2> SUFFICES ASSUME DashInv, DashInv', [DashNext]_allVars, page.id # Null,
                      page'.id = page.id, PageIsTerminal
               PROVE  page'.status = page.status
    OBVIOUS
  <2>1. CASE UNCHANGED allVars
    BY <2>1 DEF allVars, dashVars
  <2>2. CASE DashNext
    <3>1. page'.status \in Terminal
      BY <2>2, EndKept
    <3>2. page'.status = job'[page.id].status
      BY <3>1 DEF DashInv, Ended, PageIsTerminal
    <3>3. page.status = job[page.id].status /\ page.id \in Jobs /\ job[page.id] # Null
      BY DEF DashInv, DashTypes, Pages, Ended, Existing
    <3>4. KeepsOutcome(job[page.id], job'[page.id])
      BY <3>3, StoreStep, StepKeepsOutcome DEF DashInv
    <3> QED BY <3>2, <3>3, <3>4 DEF KeepsOutcome, IsTerminal, PageIsTerminal
  <2> QED BY <2>1, <2>2
<1> QED BY <1>1, DashInvariant, PTL DEF DashSpec, TerminalStaysShown

\* The page's world is a run of the job store, as its contract says.
THEOREM DashboardUsesStore == DashSpec => Spec
<1>1. DashInit => Init
  BY DEF DashInit
<1>2. DashInv /\ [DashNext]_allVars => [Next]_vars
  BY StoreStep
<1> QED BY <1>1, <1>2, DashInvariant, PTL DEF DashSpec, Spec

=============================================================================
