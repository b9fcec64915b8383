# TLA+ models of the STWI traffic assistant

STWI answers what-if questions about a traffic network. An operator's page
submits a scenario; the API creates a *job*; a worker runs the forecasting and
safety workflow; the page follows the job over server-sent events (SSE) and an
operator records a decision about the outcome. Nothing is actuated: the value
of the system is that what it reports is right, complete, and recorded once.
Behind it stand scripts: they prepare data, train models and pass them from gate
to gate, and they dispatch the project's own tickets.

Paths below are relative to the repository (`src/stwi/...`, `scripts/...`).

## 1. Inventory

| Component | State | Operations | Interacts with | Hard parts |
|---|---|---|---|---|
| Redis job store (`t4_orchestrator/redis_job_store.py`) | per job: envelope, event sequence, event list, execution lock with TTL; per process: lock tokens | create, get, update_status, set_result, record_operator_decision, events_since, acquire/release_execution | every API and worker process | optimistic transactions that collide, lock expiry, lost answers |
| Job lifecycle (`api.py`, `job_dispatch.py`, `production_components.py`, `production_worker.py`) | broker queue, handler and task in progress | create_job, operator-decision, dispatch, `_run_job` | store, Celery | duplicate delivery, process loss, dispatch that fails half-way, a lock shorter than the run |
| SSE stream (`api.py: _event_generator`, `static/dashboard-api.js`) | generator cursor, connection, ids received | open, poll, fetch, send, resume | store, page | status and events read at different times, broken connections, 180 s window |
| What-if workflow (`orchestrator.py`, `safety_loop.py`, `t2_forecast/safety.py`) | OrchestratorState, loop iterations, clock | five nodes, refinement, finalize | forecasters, legal tier, router | deadline inside a node, adapter failures, evidence of one action reported with another, NaN scores |
| Routing (`routing.py`, `route_evaluation.py`, `network_impact.py`, `dashboard-state.js`) | none (pure) | path search, evaluation, ranking, view models | topology, forecaster, page | search budget, stale or missing forecasts, speeds of 0 and NaN |
| Knowledge tier (`t3_knowledge/`, `scripts/infra/ingest_legal_corpus.py`) | PDFs, chunks, manifest; Qdrant points; corpus of each process | ingest, load, index, retrieve, validate citation | Qdrant, workflow | ingestion cut short, fallback corpus, processes that share an index |
| In-memory store, provisional execution (`job_store.py`, `api.py`) | dicts under a mutex, execution locks, job_slots | as the redis store | threads of one process | weaker decision operation, order of lock and semaphore |
| Dashboard (`static/dashboard*.js`) | reducer state, sessionStorage, stream, timer, poll loops, requests | submit, reload, follow, fall back, decide | API, SSE | SSE and polling race, answers that come late or never, two operators |
| Phase gates (`t1_pipeline/tensor_builder.py`, `t2_forecast/evidence_binding.py`, `scripts/data_prep`, `scripts/training`, `scripts/validation`) | datasets, checkpoints, reports on disk | generate, validate, train, bind, benchmark, pass a gate | each other, by files | death between two writes, regeneration under a trained model, leaking splits |
| Detector data (`scripts/data_prep/augment_*`, `scripts/training/rebalance_*`, review scripts, cleanup) | review queue and batch, dataset directories with manifests | build a pack, review, apply; derive with reviewed rows, label fixes, sources, crops, copies; clean up | each other, by files | directories that are written twice, hard links, held-out images offered for training |
| Detector scores (`build_vision_error_review_pack.py`, `analyze_vision_validation_errors.py`, `evaluate_vision_roi_ap.py`) | none (labels, predictions) | find misses, match, rank, average | reviewers, promotion | three ways to pair the same boxes, ties, thresholds |
| Detector release (`scripts/training/train_vision_model.py`, `tooling/vision_training/promotion.py`, `t1_pipeline/local_vision.py`) | run directory, official directory | train, promote, load | camera pipeline | death between weights and manifest, resumed trainings, lowered thresholds |
| Project management (`scripts/project_management/`) | Linear issues and labels; packets, workspaces, bridges | dispatch, administer; run a batch or a bridge; clean up | Linear, Hermes, git | answers that are lost, reruns, concurrent bridges, cleanup under work |
| Production composition, health, migration, preflight | – | start-up | redis, Qdrant | sequential |
| Auth, UI context, network context, demo runtime | none | checks and projections | – | – |

What makes them correct: **store** – each call is one atomic operation, event
ids are 1..n, terminal outcomes and first decisions are final, locks are only
released by their holder. **Lifecycle** – one executor per job (up to the lock's
lifetime), every job ends, an operator is told what was stored, only a succeeded
job is approved. **Stream** – each event once, in order, and the end is always
seen. **Page** – a job it follows is never lost, never shown as live after its
end, and its end is shown. **Workflow, routing, knowledge** – recommendations
fail closed and belong to their evidence: forecasts of the very action, cheapest
safe routes, citations of one corpus. **Gates, data, release** – what is trained,
promoted or loaded is what was validated, and held-out data stays held out.
**Project management** – one issue per item; reviewed work within its scope.
The list of hazards, each at its line, is in `PROJECT.json`.

## 2. Modules

| Module | Models | Stands on |
|---|---|---|
| `JobRecord` | statuses, envelope, event, decision: the vocabulary | – |
| `JobContract` | the abstract store: each operation atomic | `JobRecord` |
| `RedisJobStore` | the redis store, one action per redis command | `JobRecord`; implements `JobContract` |
| `JobExecution` | API handlers, broker, workers as clients of the store | `RedisJobStore` |
| `EventStream` | SSE generator, wire and page over an abstract store | `JobContract` |
| `Dashboard` | the page: streams, polls, timers, requests, decisions | `JobContract` |
| `ProvisionalJobs` | in-memory store, background tasks, `job_slots` | `JobContract`; implements it but for amended decisions |
| `WhatIfWorkflow` | one run of the orchestrator with its safety loop | – |
| `Routing` | path search, evaluation, ranking, what the page shows | – |
| `Knowledge` | ingestion, services over one index, citations | – |
| `PhaseGates` | the scripts and artifacts of phases 1 to 4 | – |
| `VisionData` | review packs, and derivations of training datasets | – |
| `DetectionScores` | review packs, error analysis and evaluation over the same boxes | – |
| `DetectorRelease` | training, promotion and loading of the detector | – |
| `LinearBoard` | the dispatch and administration of Linear issues | – |
| `HermesRuns` | batches, bridges and the cleanup of workspaces | – |
| `JobLog_proofs` | lemmas about one envelope and one log | `JobRecord` |
| `JobContract_proofs`, `RedisJobStore_proofs`, `JobExecution_proofs`, `EventStream_proofs`, `Dashboard_proofs`, `WhatIfWorkflow_proofs` | theorems | the modules they name; the last also `Routing` |
| `Offline_proofs` | theorems | `ProvisionalJobs`, `Knowledge`, `PhaseGates`, `VisionData`, `DetectionScores`, `DetectorRelease`, `LinearBoard`, `HermesRuns` |
| `MC*` | instances for TLC | |

`MCDecisionPath`, `MCExecution` and `MCPages` put parts that are used apart side by
side: a behaviour is of one part, while the others keep their initial state. The
state space is the sum of the parts and not their product. The parts of `MCPages`
stand on one contract, `JobContract`, and differ in who uses it.

**`RedisJobStore`.** The variables `envelope`, `sequence`, `events` and `lock` are
the four redis keys of a job. A client has at most one call in progress; `phase`
is the command it sends next, `seen` and `seenSeq` are the locals of `_mutate`,
`holder` is `record_holder[0]`, `tokens` is `_execution_tokens`. A `WATCH`
together with the reads that follow it is one action up to the `EXEC`: reads
between `WATCH` and `EXEC` that differ from the state at `WATCH` make `EXEC` fail,
which `clean` records, so reading later than `WATCH` adds no outcome that commits.
`Begin` starts a call, each further action is one command, and any other client
may act in between. A token is represented by the client that made it: a client
takes a lock again only after it gave it back or lost it by expiry, which
`DirtyLock` tells every watcher.

**`JobExecution`.** `wpc` and `apc` are program counters of `_run_job` and of the
handlers. Handlers contain no `await`, so one API process serves one request at a
time (`infra/production/compose.yaml` runs one uvicorn process and two prefork
workers). `queue[j]` counts messages ready for delivery. `overdue` is a history
variable: workers whose lock expired while they executed.

**`EventStream`.** The store is the atomic contract, which the redis store
implements; the generator's two reads are separate actions. `wire` is what was
sent and not received; `Cut` loses it.

**`Dashboard`.** An action is one JavaScript callback up to its next `await`.
`page` is the reducer's state, `saved` the job in sessionStorage, `requests` the
calls of `requestJson` that are not handled yet: a request is served from the
store at one moment (`Serve...`) and its answer handled at a later one
(`...Answered`), so answers come late and in any order, or fail. `poll` is the
loop whose controller is `pollingController`; loops that were aborted while they
slept are counted in `asleep`, since they still reset `pollingActive` when they
wake. `timer` is the fallback timer of 5 s. A job id stands for the pair of job
and `operationEpoch`. The timer's guard is the one place where durations matter:
a stream that was opened and then refused cannot reach the timer before the loops
its opening aborted have woken.

**`ProvisionalJobs`.** `bgTask[j]` is the position of a job's background task;
`job_slots.acquire()` blocks a thread of the pool while it holds the execution
lock. Store operations hold a mutex and are those of `JobContract`. A decision is two
steps, as in the handler: `AskDecision` checks the envelope it has read and
`ProvDecide` records; `deciding` is what lies between, and tasks run meanwhile.

**`WhatIfWorkflow`.** `node` and `phase` are the position in `run`; `check_timeout`
is an action of its own, and `DeadlinePasses` may fall inside any node. `job` is
`OrchestratorState`; `current` and `trail` are locals of the loop, copied to
`job` only when the loop returns, so that an exception loses them as in the code.
A forecast keeps, of each of its worst scores, how it compares with its
threshold: within, above, or not a number (both `>` and `<=` are false). Ratios
are levels; `MaxRatio` is 1.0. With the refiner the orchestrator uses, the
branches for an invalid or a repeated refined candidate cannot be reached, and
are left out.

**`Routing`.** One action per stage of the analysis; the generator's is a state machine
of its own: `SearchNext` takes the next two ends, `Expand` is one turn of the loop of
`_shortest_simple_path`, with its heap in `pending`, and `Shortlist` sorts what was
found. The reference it is compared with, `Detours`, enumerates the simple paths of
the grid and knows nothing of the search. What the forecaster says of a node is a kind (clear,
slow, stopped, congested, unsure, missing, stale, NaN); delays and costs are
small integers. The recommendations are the first three of any order of the passing
evaluations that the ranking's key allows.

**`Knowledge`.** A file or a point is the edition of the text it holds, or says
that it is missing, cut, unparsed or synthetic. The script's `ingest.at` is the
law it has come to; each service has the corpus it loaded, and `todo` is what it
has yet to upsert. `EnsureCollection` is two steps, since it asks first and creates
after. `answer` is the last query's citations. A service of `ReadOnly` sees the corpus
directory mounted read-only, as `infra/production/compose.yaml:24` does for every
service: where the code would write the manifest anew, its start raises.

**`PhaseGates`.** An artifact is the record of what it was made from; a script that
may die between two files has an outcome for each point that leaves something
new. `passed` is a history variable: what passed a validation. Time steps and
windows are numbers, so the splits are computed and not chosen.

**`VisionData`.** `files[d]` maps the names in a directory to where the contents of
image and label are: two names over one place are a hard link. `Derive` is the
common course of the derivations: link or copy what the base has unless a file is
there, write the new labels in place, write the manifest last or die before.
A label is told by the image it was made for, so a mismatch can be seen. `Cleanup`
deletes a directory: files that another one links to stay.

**`DetectionScores`.** Labels and predictions are given; boxes are computed in pixels,
overlaps and precisions are fractions, compared without rounding. `Consider` is a
turn of the loop of `greedy_match`, `Rank` one of `evaluate_class_ap50`; the sort
that precedes each loop is the order in which turns are enabled. `Sum` is a turn of
the loops of `average_precision`, the one that makes the precisions monotone and the one
that adds up the area, which go over the same predictions and become one from the last
prediction to the first: since a precision counts only where the recall grows, and it
grows by one label at a hit, `area` is the code's times `Scale` and the number of labels.
The code ranks and sums class by class; classes share nothing, so the model ranks all
of them first. An area of a box is absolute, since the images have one size.

**`DetectorRelease`.** Weights are numbered in the order of training; an artifact's
`weights` is the hash it records. `released` is a history variable.

**`LinearBoard`.** A run of the dispatch is its position and the items it has
left; a request may take effect and die without an answer. `Found` returns any
page of the matching issues. `EditTitle` is the people; `AdminRead` and
`AdminWrite` are the two requests of the administration script.

**`HermesRuns`.** `packet[t]` is the set of patterns a packet allows, `changed[t]` what
git status names. The two scripts read patterns differently, so a pattern has two
meanings: `Matched` is what `fnmatch` makes of it, for which `[ab]` is a class
(`Bracketed`); `Wild` and `Related` are what `scopes_overlap` sees, which refuses `*`
and `?` and compares the rest as letters. Packets are rewritten at any time.
`checked[t]` is the packet a batch was checked with; a bridge reads the packet again
when it starts and keeps that one. The executor and people change files at any time.

## 3. Runs

| Run | Instance | Shows |
|---|---|---|
| `redis_store` | 1 job, 1 operator, 2 clients, any call | types; numbered log; log agrees with result and decision; a committing transaction read current data; locks released by holders; the store implements `JobContract`; outcomes are final |
| `execution` | five parts: jobs (1 job, 1 API, 2 workers, at most 1 death, 1 fault, 1 redelivery); release (3 trainings); scores (2 labels and 3 predictions on 2 images, 2 classes); Linear (2 items); Hermes (2 tickets, 2 files, 3 packets) | one executor unless overdue; the executor's lock is there; approvals only of succeeded jobs; replies are what is stored; live jobs are carried; what is loaded was released; errors are explained by a better match and a full score is earned; one issue per item; reviewed work is disjoint |
| `job_ends` | the jobs of `execution` alone (`Parts`), without deaths and faults, 1 redelivery, fairness | every created job ends |
| `worker_lost` | 1 death, fairness | **violation**: a job whose worker was lost stays running |
| `two_apis` | 2 APIs, 2 operators, 1 worker | **violation**: the losing decision is answered with a record that is not stored |
| `pages` | three parts, fairness: the stream (1 job, 1 page, 2 broken connections); the page (2 jobs, 2 operators, 2 starts, 1 failed request, 1 broken stream); provisional jobs (2 jobs, 2 threads, 1 slot) | each event once and in order; the generator ends after the terminal event; the end is seen; the followed job is saved; a recorded decision is the page's own; a terminal display does not go back; the end is shown unless a request failed; the in-memory store is the contract with decisions that are amended; no call of a task is ignored and jobs end |
| `dashboard_faults` | 1 start, 1 failed request, fairness | **violation**: the end is not shown although only one request failed |
| `workflow` | five parts: the workflow (5 ratio levels, 3 iterations, 4 routes); routing (3 x 2 grid); knowledge (2 laws, 2 services, 1 of them read-only); gates (2 lengths); detector data (2 derived directories) | recommendations are evidenced and in time, routes belong to their action, reviewed actions were evaluated, refinements are isolated; candidates are cheapest, shown routes safe, and no good one is withheld; evidence is of one corpus; gates were earned and splits do not leak; held-out images stay held out |
| `deadline` | the workflow, 1 route | **violation**: the loop forecasts after the deadline |
| `detector_gate` | 3 trainings | **violation**: what is loaded has no mAP50 of 0.85, but none that is a number |
| `hermes_batch` | 2 tickets, 2 files, 2 packets, one of them with a class | **violation**: two bridges of a batch present one file |
| `rederived` | 2 derived directories, 2 derivations | **violation**: a record's image is not the one its label was made for |

**Why the bounds suffice.** *Jobs.* Jobs do not share keys, so one job exercises
every collision; two clients give every pair of colliding transactions and a retry
after a retry comes from the same state as the first. Two workers and one
redelivery give a duplicate before, during and after an execution; one death or
fault can fall at every point of it. For the store the bounds are also lifted by
the proofs below. Two cuts allow a connection to break while it catches up after
a first break. *Page.* The second job or page load is what makes an answer stale;
`MaxStarts` is 2 for that, and one fault and one break can fall at every point.
The jobs of the run end with one kind of result and get one kind of decision, since
stream, page and in-memory store treat the others alike. *Workflow.* Five levels let the loop use all its iterations, and hit
the cap before that; four routes are one more than a recommendation may name.
*Routing.* A 3 x 2 grid is the smallest with two ways around a node;
`MaxPathExpansions` is 6, so that some searches give up and most do not; two
corridors may be dear, `MaxOdd` = 1 node differs from the others in its forecast.
*Knowledge.* Two laws, so that one may be written and the other not; two editions
(`MaxEdition`), ingestions (`MaxIngests`) and starts (`MaxStarts`), so that two
services with different corpora share the index; one of them may replace its
corpus, the other (`ReadOnly`) may not. *Gates.* With 3 history and 2
forecast steps, 34 time steps give windows in each split and windows at both
cutoffs, 9 leave a split empty, which the validation has to refuse; two lengths
are two datasets that may replace each other. *Provisional jobs.* Two threads and
one permit: a task waits with its lock while the other runs. `MaxDecisions` = 1
leaves an amendment after the end. *Datasets.* One pack (`MaxPacks`) and two
derivations (`MaxBuilds`): into one directory twice, or one from the other; a review
after the last of them is left out, and a deletion is taken to be complete. The
pool offers an image of the root's val split. *Release.* Three trainings
(`MaxTrainings`): one promoted, one that dies in the same directory, one resumed.
*Scores.* Boxes that overlap by
nothing, a third, a half (the `Threshold`) or wholly, on the edge of an image of
`Side` 6 or below `MinArea`; a precision after up to three predictions is a whole number of
sixths (`Scale`); two labels (`MaxLabels`) and three predictions
(`MaxDetected`) compete for each other, within and across classes. *Linear.* Two items that mention each other fill a `Page` of two
unless the search compares; in the script at most 2 other items mention a seed, and a page is 10
(`PageAssumption`). `MaxCreates` = 3 is one more than the items. *Hermes.* Two
tickets and two files, `src/a.py` and `src/b.py`, and the patterns that name one of
them or both: packets that overlap or not; `MaxPackets` = 3 allows one for
each, and one that is rewritten after the batch was checked. In `hermes_batch` a
packet may also allow `src/[ab].py`, and `MaxPackets` = 2 is enough. Other bounded quantities: `MaxDeaths`,
`MaxFaults`, `MaxRedeliveries`, `MaxCuts`, `MaxBreaks`, `MaxRatio`, `MaxIterations`.

Deadlock is checked in `redis_store`, `job_ends` and `two_apis`. Elsewhere the
system may come to rest: budgets are spent, the page has left, a run is over.

**Fairness.** `ExecFairness`: processes keep running and redis answers
(`StoreCommand`, `WorkerStep`, `DispatchJob`, `Answer`), the broker delivers a
ready message to some idle worker, a lock held for ever would expire, and a call
of the orchestrator returns. The last is an assumption on the adapters: the code
does not bound a single adapter call. `StreamFairness`: asyncio resumes the
generator, the network delivers, the browser's EventSource reconnects; connections
break only finitely often (`MaxCuts`). `DashFairness`: the server answers, or
`requestJson` gives up after its timeout, and the page handles the answer; the event
loop runs a timer or a callback that is due; an EventSource connects again; runs
end. In `MCPages` this last part is asked of the behaviours of the page only, since
the others say in their own way how jobs end. `ProvFairness`: threads of the pool run and the orchestrator
returns; weak fairness suffices for the semaphore, since a task takes a permit
once, so that one that waits is in the end enabled for good. Deaths, faults, redeliveries,
breaks, requests and everything people and scripts do are never fair.

## 4. Proofs

Every theorem holds for every value of the constants: any set of jobs, operators,
clients, workers, pages, seeds, tickets, services, and any bound on faults. Each
component has an inductive invariant; its preservation is one lemma per action.
TLC checked each of them as an invariant on the instances of §3 first.

The assumptions are about constants only, and TLC evaluates them in the runs:
`NullAssumption` and its like (`NoneAssumption`, `TargetAssumption`, `Null \notin
Jobs` for the page) say that a null value differs from what it stands in for;
`ClientAssumption` that the null token is no client; `ThresholdAssumption` that the threshold
of an overlap is above zero (it is 0.5 unless an option says otherwise);
`ScaleAssumption` that the model's unit of precisions divides them exactly;
`BoxAssumption` that boxes have integer corners; `KnowledgeAssumption` that fixtures
and read-only services are among the provisions and services; `PatternAssumption` that
a pattern without `*`, `?` and `[...]` matches at most the file whose path it is; `VisionAssumption` that the two images
of the root differ, as `validate_vision_dataset` demands of its splits;
`PageAssumption` that the seeds
are finitely many and fewer of them name a seed than a page of a Linear search has
issues, which the dispatch relies on. One theorem has a hypothesis of its own, `\A a, b \in Apis :
a = b` in `OneApiRepliesRecorded`; the run `two_apis` shows why it is needed, and
`infra/production/compose.yaml` that it holds.

**Job log (`JobLog_proofs`).** A log is *consistent* with its envelope when it is
numbered, its last event has the envelope's status, nothing but the decision
follows a terminal event, and result and decision events match the envelope. Each
of the three mutations preserves consistency, and no mutation touches an outcome.
These facts are constant-level: the abstract and the redis store both use them.

**Contract (`JobContract_proofs`).** Types and consistency are inductive; the log
invariants and the finality of outcomes follow (`LogTellsTheJob`, `OutcomeFinal`).

**Redis store (`RedisJobStore_proofs`).** `StoreInv` adds to the types what the
phase of a call implies (`CallFits`, `HolderFits`, `ReadFits`), that a clean
transaction has read what is there (`CleanReadIsCurrent`), that a clean unlock finds
its own token (`UnlockIsOwn`), and that the sequence key counts the events.
`CleanReadIsCurrent` makes the refinement go through: a commit is a contract step on
the current envelope, every other command a stutter (`StoreImplementsContract`).
`LogInv` carries the consistent log along.

**Production composition (`JobExecution_proofs`).** `ExecInv` ties the program
counter of every handler and task to the redis call it has under way. From it every
step is a step of the store (`ExecutionUsesStore`), so the store's theorems and the
contract hold of the composition (`ExecutionKeepsContract`). The further properties
need a layer each: `LocksHeld`, who has the lock of a job that is executed
(`ExecutorsHoldLocks`, and from it `ExecutorIsSole`); `Decided`, that the status a
handler checked before an approval is final (`ApprovedSucceeded`); `Undisturbed`,
that a lone API's transaction commits at its first attempt
(`OneApiRepliesRecorded`); `Carried`, that a live job has a dispatcher, a message or
a worker as long as nothing died or raised (`LiveJobsAreCarried`), which counts
messages and therefore needs `Existing`.

**Stream (`EventStream_proofs`).** What a page received, what is on the wire and what
the generator read are consecutive segments of the job's log; since the log only
grows, a connection that is cut leaves such a segment behind, and the next one
starts after it (`EventsComeOnce`). A generator that read a terminal envelope has
either sent its event or will still read it (`EndFollowsTerminalEvent`).
`EventsSince` is written with a rank in the log and not with `SelectSeq`, which is
recursive and out of the prover's reach; ids are the positions in the log.

**Page (`Dashboard_proofs`).** `DashInv` says of every request under way what it may
still be answered with: an answer the page waits for is about the job it follows, the
body it carries is an envelope the stored job has outgrown without losing its
outcome (`KeepsOutcome`), and after the end of the job is shown no channel is left
that could report an older one. A creation or a resumption is waited for alone.
`FollowedSaved` and `RecordedMine` are parts of it; `TerminalStays` follows because a
page that shows an end shows the stored one, and that is final.

**Workflow (`WhatIfWorkflow_proofs`).** `WorkInv` relates the loop's locals, the state
copied from them and the report to the last evaluation of the safety loop. Its six
theorems hold for every number of ratios, iterations and routes.

**Routing (`WhatIfWorkflow_proofs`).** `RouteInv`: what is recommended was evaluated
as safe for the forecasts there are, and what the page shows of a succeeded job is taken
from it. The search is not relied upon: `_path_is_valid` and the evidence of each
node are checked of whatever it returns (`ShownSafe`). Of the search itself, `SearchInv`:
the heap holds the beginning of every detour between the two ends, so that the path
returned, which is no dearer than anything in the heap, is no dearer than any detour
(a beginning costs no more than its path); and of two ends that were searched either
a path was found or none exists. `CandidatesCheapest` follows for every
grid, incident and budget. `ReportInv`: the evaluations of a job that succeeded include
what passed and is recommended, those of one that needs review are all rejected, and
the page's validation accepts either (`EveryRouteShown`).

**Provisional composition (`Offline_proofs`).** `ProvInv` ties how far a job's task has
come to the status of the job, its lock and its permit, and says that a decision
whose handler has passed its checks is about a job that has ended: its status is
final, so that what tasks do before the record cannot falsify the check. The in-memory store returns
silently when it refuses an update, and the model's step is then not enabled:
`TasksAreHeard` says that this never happens to a task, and that no permit is lost.
`ProvisionalStoreAmends` is the refinement of the contract with amended decisions.

**Knowledge, gates, scripts (`Offline_proofs`).** `KnowInv`: no file mixes fixtures with
laws, so no service does; and a service that may not write loads no fixtures. `GateInv`: an artifact's claim was earned by the very data
it names; `SplitsSound` needs only arithmetic over window bounds. `ReleaseInv`: an
artifact is true of the weights whose hash it has, in whatever order files are
written. `HermesInv`: the packets a batch
was checked with do not overlap as far as letters tell, and bridges stay in the packets
they read; where these are the same and name no class, reviewed work is disjoint.
`LoadedWasReleased` says of the mAP50 that it is not a number below the gate; that it is
a number above it is false (§5).
`ScoreInv`: a candidate that `greedy_match` has considered is a match or shares an
end with a match that overlaps no less (`ErrorsExplained`). `TakenInv`: the labels and
predictions of `taken` are one to one, since of the labels that overlap a prediction
most the first is one; so no class has a recall above 1 (`RecallBounded`).
`AreaInv`: of what is summed so far, the greatest precision is 1 if all predictions up to
one of them are hits, and the area is at most 1 for each hit, exactly that if all
predictions up to the last hit are hits. With no more hits than labels, a hit being a
label taken, a full score follows to be earned (`FullScoreEarned`).
`VisionInv` (`HeldOutStays`): a place is told by the name it was first written under, and
the places of the held-out name, and no other, hold the held-out image. Linking and
copying keep this, since no derivation gives that name another source; a new file
does, since its kind is not `val` and its image is none of `seen_hashes`, or a crop;
and the cleanup keeps what another directory links. The names of a source are written
with a rank and not with `SelectSeq`, as `EventsSince` is.
`LinearInv`: an issue that was created for a seed stays findable by the line `Seed: ...`,
whatever happens to its title.

Only model-checked, and why:

* liveness (`CreatedJobEnds`, `EndIsSeen`, `EndIsShown`, `ProvisionalJobEnds`): the
  prover has no rules for fairness here;
* that a search ends, and that `Shortlist` and `Evaluate` find an order: these are
  liveness too, and no property states them.

Every invariant, action property and refinement that a passing run checks is a theorem.

## 5. Disagreements found

1. `two_apis`: `record_operator_decision` returns the record of a transaction
   that lost (`redis_job_store.py:221`). It takes two API processes; the compose
   file runs one, the store is written for many.
2. `worker_lost`: no path ends a job whose worker process was lost
   (`job_dispatch.py:52`, `api.py:612`), while the documentation maps every crash
   to a terminal status.
3. `deadline`: the deadline is not passed to the adapters or the safety loop.
4. `dashboard_faults`: the page asks once for the job after the terminal event;
   when this request fails, reconnections of the stream keep clearing the fallback
   timer and the page shows a running job for ever (`dashboard.js:217`). The design
   says that reload, reconnect and fallback do not lose a followed job.
5. `rederived`: names are numbered from the start in each derivation, an existing
   image is kept and its label written anew
   (`augment_vehicle_dataset_with_yolo_sources.py:48`), so that a second derivation
   records an image with the label of another one.
6. `detector_gate`: promotion (`promotion.py:76`) and loader (`local_vision.py:64`) refuse
   an mAP50 below the gate, and NaN is below nothing: a detector that was not measured
   is loaded, while `docs/guides/model_registry_evidence.md:121` states the gate as
   `mAP50 >= 0.85`.
7. `hermes_batch`: `scopes_overlap` (`hermes_batch_dispatch.py:78`) compares `[ab]` as
   letters, `path_is_allowed` (`hermes_runner_bridge.py:281`) as a class: packets that
   allow `src/[ab].py` and `src/a.py` run in one batch and may both present `src/a.py`,
   and so may packets that were rewritten between the batch's check and the bridge's
   reading. The operating model lets work go on in parallel only where file scopes do
   not overlap (`docs/project_management/symphony/multi_agent_operating_model.md:107`).

One disagreement has no run, since the documented deployment does not reach it.
`corpus_ingestion.py:299` replaces a corpus it cannot load by fixtures and writes them
into the manifest, where `production_adapter_replacement_runbook.md:39` forbids a
synthetic fallback in production and `ingest_legal_corpus.py:19` announces none. With
the directory mounted read-only a service dies at that manifest; where it can be
written, as in development, the service starts and cites fixtures. `EvidenceIsOwnCorpus`
therefore excludes fixtures for services of `ReadOnly` only.

Not findings, since no document claims otherwise: scenarios made for a dataset of
another length pass their validation, which compares them with capacities that do not
depend on it (`validate_sumo_scenarios.py:67`); a job created by an API process
that dies before dispatch stays queued for ever; evidence may be bound to a dataset
that replaced the one a forecaster was trained on (`evidence_binding.py:99`); a
route whose nodes stand still has a travel time of 0 and is ranked first; a
workspace that was changed after the cleanup inspected it is deleted; of two services
that find no index at once, one fails to create it and has to be started again
(`qdrant_retriever.py:120`). A run that is
late when it returns early for review is reported as `needs_review`, since both
rows of the documentation's table apply.

## 6. Not modelled

* Wording, formatting, audit summaries, GeoJSON, rendering and the form of the
  page; authorisation and node scope of the handlers (pure guards in front of
  what is modelled), UI context, runtime artifacts.
* Numerical code: networks, baselines, camera aggregation, detection, V/C figures;
  the figures that gates compare are choices. Capture from cameras and RTSP.
* Knowledge tier: the SQL builder and `TimescaleExecutor`, the fake retriever, the
  source registry and Firecrawl snapshots: sequential text processing.
* Demo runtime and adapters: deterministic stand-ins for adapters whose every
  answer the workflow model allows.
* Start-up checks, migration, preflight: sequential I/O.
* Scripts: the first preparation of the vision data, relabelling of helmets, the
  Roboflow intake and server, the form of reports and confusion counts, external models,
  calibration of legacy SUMO data, the privacy status of
  derived datasets; `symphony_budget_guard`, `symphony_report`,
  `worktree_intake`, `sync_codex_claude_mcp`.

Assumed of what is outside the code: one script of the phases runs at a time, and
one dispatch of Linear issues; a request that a dying script sent is executed by
the time the script is run again, or never; only the dispatch makes labels and
nobody edits the line `Seed: ...`; the executor behind a bridge neither commits nor
renames files, as its prompt asks; and the tickets of a batch have separate
workspaces, which its manifest is not checked for (`hermes_batch_dispatch.py:4`).

## 7. Plan

Done, in this order: contract, redis store and its proofs; execution; stream;
workflow; page; provisional composition; routing; knowledge; gates; data; release; scores;
project management; then the theorems of §4, component by component; last the steps of
the search for routes and of the average precision, so that these can be proved too. Left
for who continues: the first preparation of the vision data and the Roboflow intake (§6),
and a bound on how long a route search runs.
