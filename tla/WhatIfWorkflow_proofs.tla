------------------------ MODULE WhatIfWorkflow_proofs ------------------------
(***************************************************************************)
(* Proofs about one run of the what-if workflow, for any number of ratio   *)
(* levels, iterations and routes.  The inductive invariant WorkInv has     *)
(* three parts: what the job state is at each node (Stage), what the safety*)
(* loop has recorded (LoopTrail), and what the job state says of its own   *)
(* action, forecast and routes whatever its status becomes (Sound).        *)
(* The routing node has invariants of its own, at the end: RouteInv of     *)
(* what is recommended, SearchInv of the paths that are found, ReportInv   *)
(* of what the page is given.                                              *)
(***************************************************************************)
EXTENDS WhatIfWorkflow, Routing, FiniteSetTheorems, TLAPS

-----------------------------------------------------------------------------
\* The inductive invariant.

\* The last evaluation of a job with status "succeeded" is a pass with legal
\* evidence; the forecast kept beside it is that evaluation's.
Evidenced(s) ==
    s.status = "succeeded" =>
        /\ s.cited /\ s.checks # <<>> /\ s.selected \in Ratios
        /\ s.checks[Len(s.checks)].action = s.selected
        /\ s.checks[Len(s.checks)].failed = {}
        /\ s.checks[Len(s.checks)].forecast = s.forecast
        /\ s.forecast = [action |-> s.selected, vc |-> "within",
                         uncertainty |-> "within", ood |-> "within"]

\* A job that names an action at all has a forecast of it.
OwnForecast(s) ==
    s.status \in {"succeeded", "needs_review"} =>
        /\ s.selected \in Ratios /\ s.forecast \in Forecasts
        /\ s.forecast.action = s.selected
        /\ s.checks # <<>> => s.checks[Len(s.checks)].action = s.selected

\* Routes are evaluated with the selected action, and recommended if passing.
RoutesFit(s) ==
    /\ \A e \in s.evaluations : e.action = s.selected
    /\ \A e \in s.recommended : e \in s.evaluations /\ e.passed

Sound(s) == Evidenced(s) /\ OwnForecast(s) /\ RoutesFit(s)

\* The job state before the loop has returned.
Untried(s) ==
    /\ s.status = "running" /\ s.checks = <<>>
    /\ s.evaluations = {} /\ s.recommended = {}

\* The scenario forecast of the requested action.
ForecastRequested(s) ==
    s.forecast \in Forecasts /\ s.forecast.action = request.ratio

Stage ==
    /\ node \in {"baseline", "scenario"} => Untried(job) /\ trail = <<>>
    /\ node = "rag" => Untried(job) /\ trail = <<>> /\ ForecastRequested(job)
                       /\ job.selected = request.ratio
    /\ node = "safety" => Untried(job) /\ job.cited /\ ForecastRequested(job)
    /\ node \in {"baseline", "scenario", "rag"} => current = request.ratio
    /\ node = "routing" => job.evaluations = {} /\ job.recommended = {}
    /\ node \in {"routing", "deadline"} => job.status \in {"succeeded", "needs_review"}
    /\ node \in {"finalize", "done"} =>
          job.status \in Ended /\ (late => job.status # "succeeded")
    /\ node \in {"deadline", "finalize", "done"} =>
          (job.status = "succeeded" /\ request.incident /\ request.topology =>
              Cardinality(job.recommended) \in 1 .. MaxRecommended)

\* The loop goes on after an isolated V/C failure, with a larger ratio.
LoopTrail ==
    node = "safety" =>
        /\ trail = <<>> => current = request.ratio
        /\ trail # <<>> =>
              /\ Len(trail) < MaxIterations
              /\ trail[Len(trail)].failed = {"vc_ratio"}
              /\ trail[Len(trail)].action < current

ResultIsReport == result # Null => node = "done" /\ result = Report(job)

WorkInv ==
    /\ WorkTypeOK /\ Stage /\ LoopTrail /\ RefinementsAreIsolated
    /\ Sound(job) /\ ResultIsReport

-----------------------------------------------------------------------------
\* Lemmas on the operators.

\* The refiner's step stays within the ratios and is a real increase.
LEMMA RefinedRatio ==
  ASSUME NEW ratio \in Ratios, NEW failed, Refined(ratio, failed) # Null
  PROVE  /\ Refined(ratio, failed) \in Ratios /\ ratio < Refined(ratio, failed)
         /\ failed = {"vc_ratio"}
BY RatioAssumption DEF Refined, Ratios

\* What the filter keeps of a set of routes that has a passing one.
LEMMA RecommendedSize ==
  ASSUME NEW judged, IsFiniteSet(judged),
         NEW kept \in Recommended(judged)
  PROVE  /\ \A e \in kept : e \in judged /\ e.passed
         /\ kept # {} => Cardinality(kept) \in 1 .. MaxRecommended
<1> DEFINE passing == {e \in judged : e.passed}
<1>1. kept \subseteq passing
  BY DEF Recommended
<1>2. CASE Cardinality(passing) <= MaxRecommended
  <2>1. kept = passing
    BY <1>2 DEF Recommended
  <2>2. IsFiniteSet(passing)
    BY FS_Subset
  <2>3. Cardinality(passing) \in Nat /\ (passing # {} => Cardinality(passing) # 0)
    BY <2>2, FS_CardinalityType, FS_EmptySet
  <2> HIDE DEF passing
  <2>4. passing # {} => Cardinality(passing) \in 1 .. MaxRecommended
    BY <1>2, <2>3 DEF MaxRecommended
  <2> QED BY <1>1, <2>1, <2>4 DEF passing
<1>3. CASE ~ (Cardinality(passing) <= MaxRecommended)
  <2>1. Cardinality(kept) = MaxRecommended
    BY <1>3 DEF Recommended
  <2> QED BY <1>1, <2>1 DEF MaxRecommended
<1> QED BY <1>2, <1>3

\* The verdicts on candidates: one evaluation of each, with the selected action.
LEMMA VerdictsFinite ==
  ASSUME NEW tried \in SUBSET Routes, NEW passing \in SUBSET tried,
         job.selected \in Ratios
  PROVE  /\ Verdicts(tried, passing) \subseteq RouteEvaluations
         /\ IsFiniteSet(Verdicts(tried, passing))
         /\ \A e \in Verdicts(tried, passing) : e.action = job.selected
<1> DEFINE V(r) == [route |-> r, action |-> job.selected, passed |-> r \in passing]
<1>1. IsFiniteSet(tried)
  BY RoutesAssumption, FS_Subset
<1>2. Verdicts(tried, passing) = {V(r) : r \in tried}
  BY DEF Verdicts
<1>3. IsFiniteSet({V(r) : r \in tried})
  <2> DEFINE f == [r \in tried |-> V(r)]
  <2>1. f \in Surjection(tried, {V(r) : r \in tried})
    <3> HIDE DEF V
    <3> QED BY DEF Surjection
  <2> HIDE DEF V, f
  <2> QED BY <1>1, <2>1, FS_Surjection
<1>4. \A r \in tried : V(r) \in RouteEvaluations /\ V(r).action = job.selected
  BY DEF RouteEvaluations
<1> QED BY <1>2, <1>3, <1>4

\* The report of a job state is a result.
LEMMA ReportIsResult ==
  ASSUME WorkTypeOK, job.status \in Ended
  PROVE  Report(job) \in Results
<1> DEFINE action == IF job.selected = Null THEN request.ratio ELSE job.selected
           shown  == CASE job.status = "succeeded"    -> job.recommended
                       [] job.status = "needs_review" -> job.evaluations
                       [] OTHER                       -> {}
<1>1. job \in JobStates /\ action \in Ratios
  BY DEF WorkTypeOK, Requests, JobStates
<1>2. shown \subseteq RouteEvaluations
  BY <1>1 DEF JobStates
<1>3. Report(job) = [status |-> job.status,
                     recommended |-> IF job.status = "succeeded" THEN action ELSE Null,
                     candidate   |-> IF job.status = "needs_review" THEN action ELSE Null,
                     routes |-> shown, cited |-> job.cited, checks |-> job.checks,
                     forecast |-> job.forecast]
  BY DEF Report
<1> HIDE DEF shown, action
<1> QED BY <1>1, <1>2, <1>3 DEF Results, JobStates

-----------------------------------------------------------------------------
\* Initial states.

LEMMA WorkInvInit == WorkInit => WorkInv
<1> SUFFICES ASSUME WorkInit PROVE WorkInv
  OBVIOUS
<1>1. NewState \in JobStates
  <2>1. <<>> \in Seq(Iterations)
    OBVIOUS
  <2> QED BY <2>1 DEF NewState, JobStates, Statuses
<1>2. request.ratio \in Ratios
  BY DEF WorkInit, Requests
<1>3. WorkTypeOK
  <2>1. request \in Requests /\ trail \in Seq(Iterations) /\ current \in Ratios
    BY <1>2 DEF WorkInit
  <2>2. job \in JobStates /\ result = Null
    BY <1>1 DEF WorkInit
  <2>3. node \in Nodes /\ phase \in {"check", "run"} /\ late \in BOOLEAN
    BY DEF WorkInit, Nodes
  <2> QED BY <2>1, <2>2, <2>3 DEF WorkTypeOK
<1>4. Untried(job) /\ Sound(job)
  BY DEF WorkInit, NewState, Untried, Sound, Evidenced, OwnForecast, RoutesFit
<1>5. Stage /\ LoopTrail /\ ResultIsReport
  BY <1>4 DEF WorkInit, Stage, LoopTrail, ResultIsReport
<1>6. RefinementsAreIsolated
  BY IterationAssumption DEF WorkInit, RefinementsAreIsolated
<1> QED BY <1>3, <1>4, <1>5, <1>6 DEF WorkInv

-----------------------------------------------------------------------------
\* Steps.

LEMMA DeadlinePassesInv == WorkInv /\ DeadlinePasses => WorkInv'
<1> SUFFICES ASSUME WorkInv, DeadlinePasses PROVE WorkInv'
  OBVIOUS
<1>1. /\ request' = request /\ node' = node /\ phase' = phase /\ job' = job
      /\ current' = current /\ trail' = trail /\ result' = result /\ late' = TRUE
      /\ node \notin {"finalize", "done"}
  BY DEF DeadlinePasses, Running
<1>2. WorkTypeOK'
  BY <1>1 DEF WorkInv, WorkTypeOK
<1>3. Stage'
  BY <1>1 DEF WorkInv, Stage, ForecastRequested
<1>4. LoopTrail' /\ RefinementsAreIsolated'
  BY <1>1 DEF WorkInv, LoopTrail, RefinementsAreIsolated
<1>5. Sound(job)' /\ ResultIsReport'
  BY <1>1 DEF WorkInv, ResultIsReport, Report
<1> QED BY <1>2, <1>3, <1>4, <1>5 DEF WorkInv

\* A job that goes to the end without having succeeded.
LEMMA EndsUnrecommended ==
  ASSUME WorkInv, NEW s \in JobStates, job' = s, node' = "finalize",
         s.status \in {"expired", "failed"} \/ (s.status = "needs_review" /\ OwnForecast(s)),
         RoutesFit(s),
         phase' \in {"check", "run"}, node \notin {"finalize", "done"},
         request' = request, late' = late, current' = current, trail' = trail,
         result' = result
  PROVE  WorkInv'
<1>1. WorkTypeOK'
  BY DEF WorkInv, WorkTypeOK, Nodes
<1>2. Stage'
  BY DEF Stage, Ended, Statuses
<1>3. LoopTrail' /\ RefinementsAreIsolated'
  BY DEF WorkInv, LoopTrail, RefinementsAreIsolated
<1>4. Sound(job)'
  BY DEF Sound, Evidenced, OwnForecast, RoutesFit
<1>5. ResultIsReport'
  BY DEF WorkInv, ResultIsReport
<1> QED BY <1>1, <1>2, <1>3, <1>4, <1>5 DEF WorkInv

LEMMA CheckTimeoutInv == WorkInv /\ CheckTimeout => WorkInv'
<1> SUFFICES ASSUME WorkInv, CheckTimeout PROVE WorkInv'
  OBVIOUS
<1>0. /\ node \notin {"finalize", "done"} /\ phase = "check" /\ request' = request
      /\ late' = late /\ current' = current /\ trail' = trail /\ result' = result
      /\ job \in JobStates /\ RoutesFit(job) /\ Sound(job)
  BY DEF CheckTimeout, Running, WorkInv, WorkTypeOK, Sound
<1>1. CASE late
  <2> DEFINE s == [job EXCEPT !.status = "expired"]
  <2>1. job' = s /\ node' = "finalize" /\ phase' = "check"
    BY <1>0, <1>1 DEF CheckTimeout
  <2>2. s \in JobStates /\ s.status = "expired"
    BY <1>0 DEF JobStates, Statuses
  <2>3. RoutesFit(s)
    BY <1>0 DEF RoutesFit, JobStates
  <2> HIDE DEF s
  <2> QED BY <1>0, <2>1, <2>2, <2>3, EndsUnrecommended
<1>2. CASE ~ late /\ node = "deadline"
  <2>1. node' = "finalize" /\ phase' = "check" /\ job' = job
    BY <1>2 DEF CheckTimeout
  <2>2. WorkTypeOK'
    BY <1>0, <2>1 DEF WorkInv, WorkTypeOK, Nodes
  <2>3. Stage'
    BY <1>0, <1>2, <2>1 DEF WorkInv, Stage, Ended, Statuses
  <2>4. LoopTrail' /\ RefinementsAreIsolated' /\ ResultIsReport'
    BY <1>0, <1>2, <2>1 DEF WorkInv, LoopTrail, RefinementsAreIsolated, ResultIsReport
  <2> QED BY <1>0, <2>1, <2>2, <2>3, <2>4 DEF WorkInv
<1>3. CASE ~ late /\ node # "deadline"
  <2>1. node' = node /\ phase' = "run" /\ job' = job
    BY <1>3 DEF CheckTimeout
  <2>2. WorkTypeOK'
    BY <1>0, <2>1 DEF WorkInv, WorkTypeOK
  <2>3. Stage'
    BY <1>0, <2>1 DEF WorkInv, Stage, ForecastRequested
  <2>4. LoopTrail' /\ RefinementsAreIsolated' /\ ResultIsReport'
    BY <1>0, <2>1 DEF WorkInv, LoopTrail, RefinementsAreIsolated, ResultIsReport
  <2> QED BY <1>0, <2>1, <2>2, <2>3, <2>4 DEF WorkInv
<1> QED BY <1>1, <1>2, <1>3

LEMMA BaselineInv == WorkInv /\ Baseline => WorkInv'
<1> SUFFICES ASSUME WorkInv, Baseline PROVE WorkInv'
  OBVIOUS
<1>1. /\ node = "baseline" /\ node' = "scenario" /\ phase' = "check"
      /\ request' = request /\ late' = late /\ job' = job
      /\ current' = current /\ trail' = trail /\ result' = result
  BY DEF Baseline, GoTo
<1>2. WorkTypeOK'
  BY <1>1 DEF WorkInv, WorkTypeOK, Nodes
<1>3. Stage' /\ LoopTrail' /\ ResultIsReport'
  BY <1>1 DEF WorkInv, Stage, LoopTrail, ResultIsReport
<1>4. RefinementsAreIsolated' /\ Sound(job)'
  BY <1>1 DEF WorkInv, RefinementsAreIsolated
<1> QED BY <1>2, <1>3, <1>4 DEF WorkInv

\* The scenario forecast is of the requested action; a gate that blocks ends the
\* run in review.
LEMMA ScenarioInv == WorkInv /\ Scenario => WorkInv'
<1> SUFFICES ASSUME WorkInv, Scenario PROVE WorkInv'
  OBVIOUS
<1>1. PICK f \in [action : {request.ratio}, vc : Scores, uncertainty : Scores, ood : Scores] :
        /\ job' = [job EXCEPT !.selected = request.ratio, !.forecast = f,
                              !.status = IF GateBlocks(f) THEN "needs_review" ELSE @]
        /\ GoTo(IF GateBlocks(f) THEN "finalize" ELSE "rag")
  BY DEF Scenario
<1>2. /\ node = "scenario" /\ request' = request /\ late' = late
      /\ current' = current /\ trail' = trail /\ result' = result
      /\ job \in JobStates /\ Untried(job) /\ RoutesFit(job) /\ trail = <<>>
      /\ current = request.ratio /\ (result = Null \/ node = "done")
  BY DEF Scenario, WorkInv, WorkTypeOK, Sound, Stage, ResultIsReport
<1>3. request.ratio \in Ratios /\ f \in Forecasts /\ f.action = request.ratio
  BY DEF WorkInv, WorkTypeOK, Requests, Forecasts
<1>4. CASE GateBlocks(f)
  <2> DEFINE s == [job EXCEPT !.selected = request.ratio, !.forecast = f,
                              !.status = "needs_review"]
  <2>1. job' = s /\ node' = "finalize" /\ phase' = "check"
    BY <1>1, <1>4 DEF GoTo
  <2>2. s \in JobStates
    BY <1>2, <1>3 DEF JobStates, Statuses
  <2>3. /\ s.status = "needs_review" /\ s.selected = request.ratio /\ s.forecast = f
        /\ s.checks = <<>> /\ s.evaluations = {} /\ s.recommended = {}
    BY <1>2 DEF JobStates, Untried
  <2>4. OwnForecast(s) /\ RoutesFit(s)
    BY <1>3, <2>3 DEF OwnForecast, RoutesFit
  <2> HIDE DEF s
  <2> QED BY <1>2, <2>1, <2>2, <2>3, <2>4, EndsUnrecommended
<1>5. CASE ~ GateBlocks(f)
  <2> DEFINE s == [job EXCEPT !.selected = request.ratio, !.forecast = f]
  <2>1. job' = s /\ node' = "rag" /\ phase' = "check"
    BY <1>1, <1>2, <1>5 DEF GoTo, JobStates
  <2>2. s \in JobStates
    BY <1>2, <1>3 DEF JobStates
  <2>3. /\ s.status = "running" /\ s.selected = request.ratio /\ s.forecast = f
        /\ s.checks = <<>> /\ s.evaluations = {} /\ s.recommended = {}
    BY <1>2 DEF JobStates, Untried
  <2> HIDE DEF s
  <2>4. WorkTypeOK'
    BY <1>2, <2>1, <2>2 DEF WorkInv, WorkTypeOK, Nodes
  <2>5. Stage'
    BY <1>2, <1>3, <2>1, <2>3 DEF Stage, Untried, ForecastRequested
  <2>6. Sound(job)'
    BY <2>1, <2>3 DEF Sound, Evidenced, OwnForecast, RoutesFit
  <2>7. LoopTrail' /\ RefinementsAreIsolated' /\ ResultIsReport'
    BY <1>2, <2>1 DEF WorkInv, LoopTrail, RefinementsAreIsolated, ResultIsReport
  <2> QED BY <2>4, <2>5, <2>6, <2>7 DEF WorkInv
<1> QED BY <1>4, <1>5

\* Sufficient legal evidence is kept; anything else ends the run in review.
LEMMA RagInv == WorkInv /\ Rag => WorkInv'
<1> SUFFICES ASSUME WorkInv, Rag PROVE WorkInv'
  OBVIOUS
<1>1. PICK sufficient \in BOOLEAN : LegalEvidence(sufficient)
  BY DEF Rag
<1>2. /\ node = "rag" /\ request' = request /\ late' = late
      /\ current' = current /\ trail' = trail /\ result' = result
      /\ job \in JobStates /\ Untried(job) /\ RoutesFit(job) /\ ForecastRequested(job)
      /\ job.selected = request.ratio /\ trail = <<>> /\ current = request.ratio
      /\ request.ratio \in Ratios
  BY DEF Rag, WorkInv, WorkTypeOK, Sound, Stage, Requests
<1>3. CASE sufficient
  <2> DEFINE s == [job EXCEPT !.cited = TRUE]
  <2>1. job' = s /\ node' = "safety" /\ phase' = "check"
    BY <1>1, <1>3 DEF LegalEvidence, GoTo
  <2>2. s \in JobStates
    BY <1>2 DEF JobStates
  <2>3. /\ s.status = "running" /\ s.forecast = job.forecast /\ s.cited
        /\ s.checks = <<>> /\ s.evaluations = {} /\ s.recommended = {}
    BY <1>2 DEF JobStates, Untried
  <2> HIDE DEF s
  <2>4. WorkTypeOK'
    BY <1>2, <2>1, <2>2 DEF WorkInv, WorkTypeOK, Nodes
  <2>5. Stage'
    BY <1>2, <2>1, <2>3 DEF Stage, Untried, ForecastRequested
  <2>6. Sound(job)'
    BY <2>1, <2>3 DEF Sound, Evidenced, OwnForecast, RoutesFit
  <2>7. LoopTrail' /\ RefinementsAreIsolated' /\ ResultIsReport'
    BY <1>2, <2>1 DEF WorkInv, LoopTrail, RefinementsAreIsolated, ResultIsReport
  <2> QED BY <2>4, <2>5, <2>6, <2>7 DEF WorkInv
<1>4. CASE ~ sufficient
  <2> DEFINE s == [job EXCEPT !.status = "needs_review"]
  <2>1. job' = s /\ node' = "finalize" /\ phase' = "check"
    BY <1>1, <1>4 DEF LegalEvidence, GoTo
  <2>2. s \in JobStates
    BY <1>2 DEF JobStates, Statuses
  <2>3. /\ s.status = "needs_review" /\ s.selected = request.ratio
        /\ s.forecast = job.forecast
        /\ s.checks = <<>> /\ s.evaluations = {} /\ s.recommended = {}
    BY <1>2 DEF JobStates, Untried
  <2>4. OwnForecast(s) /\ RoutesFit(s)
    BY <1>2, <2>3 DEF OwnForecast, RoutesFit, ForecastRequested
  <2> HIDE DEF s
  <2> QED BY <1>2, <2>1, <2>2, <2>3, <2>4, EndsUnrecommended
<1> QED BY <1>3, <1>4

\* The forecast of an iteration is of the ratio it tries.
LEMMA CandidateFacts ==
  ASSUME WorkInv, node = "safety", NEW f \in Candidates
  PROVE  f \in Forecasts /\ f.action = current /\ current \in Ratios
<1>1. current \in Ratios
  BY DEF WorkInv, WorkTypeOK
<1>2. CASE trail = <<>>
  <2>1. f = job.forecast /\ ForecastRequested(job) /\ current = request.ratio
    BY <1>2 DEF Candidates, WorkInv, Stage, LoopTrail
  <2> QED BY <1>1, <2>1 DEF ForecastRequested
<1>3. CASE trail # <<>>
  BY <1>1, <1>3 DEF Candidates, Forecasts
<1> QED BY <1>2, <1>3

\* One iteration of the loop: it is recorded after larger isolated failures, and
\* the loop returns with it or goes on to a larger ratio.
LEMMA SafetyIterationInv == WorkInv /\ SafetyIteration => WorkInv'
<1> SUFFICES ASSUME WorkInv, SafetyIteration PROVE WorkInv'
  OBVIOUS
<1>1. PICK f \in Candidates :
        /\ trail' = Append(trail, [action |-> current, forecast |-> f,
                                   failed |-> FailedGates(f)])
        /\ Conclude(Append(trail, [action |-> current, forecast |-> f,
                                   failed |-> FailedGates(f)]), FailedGates(f))
  BY DEF SafetyIteration
<1> DEFINE failed == FailedGates(f)
           it     == [action |-> current, forecast |-> f, failed |-> failed]
           n      == Len(trail)
           next   == Refined(current, failed)
<1>2. /\ node = "safety" /\ request' = request /\ late' = late /\ result' = result
      /\ job \in JobStates /\ Untried(job) /\ job.cited /\ ForecastRequested(job)
      /\ trail \in Seq(Iterations) /\ n \in Nat /\ current \in Ratios
      /\ RefinementsAreIsolated
  BY DEF SafetyIteration, WorkInv, WorkTypeOK, Stage
<1>3. f \in Forecasts /\ f.action = current
  BY <1>2, CandidateFacts
<1>4. failed \in SUBSET Gates /\ it \in Iterations
  BY <1>2, <1>3 DEF FailedGates, Iterations
<1>5. /\ trail' \in Seq(Iterations) /\ Len(trail') = n + 1 /\ trail'[n + 1] = it
      /\ trail' # <<>> /\ \A i \in 1 .. n : trail'[i] = trail[i]
  <2>1. trail' = Append(trail, it)
    BY <1>1
  <2> HIDE DEF it
  <2> QED BY <1>2, <1>4, <2>1
<1>6. n < MaxIterations
  BY <1>2, IterationAssumption DEF WorkInv, LoopTrail
<1>7. RefinementsAreIsolated'
  <2>1. Len(trail') <= MaxIterations
    <3> HIDE DEF n
    <3> QED BY <1>2, <1>5, <1>6, IterationAssumption
  <2>2. ASSUME NEW i \in 1 .. n
        PROVE  trail'[i].failed = {"vc_ratio"} /\ trail'[i].action < trail'[i + 1].action
    <3>1. CASE i = n
      <4>1. trail # <<>>
        BY <1>2, <2>2, <3>1
      <4>2. trail[n].failed = {"vc_ratio"} /\ trail[n].action < current
        BY <1>2, <4>1 DEF WorkInv, LoopTrail
      <4> QED BY <1>5, <3>1, <4>2
    <3>2. CASE i # n
      <4>1. i \in 1 .. n - 1 /\ i \in 1 .. n /\ i + 1 \in 1 .. n
        <5> HIDE DEF n
        <5> QED BY <1>2, <3>2
      <4>2. trail[i].failed = {"vc_ratio"} /\ trail[i].action < trail[i + 1].action
        BY <1>2, <4>1 DEF RefinementsAreIsolated
      <4> QED BY <1>5, <4>1, <4>2
    <3> QED BY <3>1, <3>2
  <2>3. Len(trail') - 1 = n
    <3> HIDE DEF n
    <3> QED BY <1>2, <1>5
  <2> QED BY <2>1, <2>2, <2>3 DEF RefinementsAreIsolated
<1>8. failed = {} => f = [action |-> current, vc |-> "within",
                          uncertainty |-> "within", ood |-> "within"]
  <2> SUFFICES ASSUME failed = {}
               PROVE  f = [action |-> current, vc |-> "within",
                           uncertainty |-> "within", ood |-> "within"]
    OBVIOUS
  <2>1. f.vc = "within"
    <3>1. "vc_ratio" \notin FailedGates(f)
      OBVIOUS
    <3> QED BY <3>1 DEF FailedGates, Gates
  <2>2. f.uncertainty = "within"
    <3>1. "uncertainty" \notin FailedGates(f)
      OBVIOUS
    <3> QED BY <3>1 DEF FailedGates, Gates
  <2>3. f.ood = "within"
    <3>1. "ood" \notin FailedGates(f)
      OBVIOUS
    <3> QED BY <3>1 DEF FailedGates, Gates
  <2> QED BY <1>3, <2>1, <2>2, <2>3 DEF Forecasts
<1>9. CASE LoopReturns(trail', current, failed = {})
  <2> DEFINE s == [job EXCEPT !.checks = trail', !.selected = current, !.forecast = f,
                              !.status = IF failed = {} THEN "succeeded" ELSE "needs_review"]
  <2>1. /\ job' = s /\ node' = "routing" /\ phase' = "check" /\ current' = current
    <3>1. trail'[Len(trail')].forecast = f
      BY <1>5
    <3> HIDE DEF failed
    <3> QED BY <1>9, <3>1 DEF LoopReturns, GoTo
  <2>2. s \in JobStates
    BY <1>2, <1>3, <1>5 DEF JobStates, Statuses
  <2>3. /\ s.checks = trail' /\ s.selected = current /\ s.forecast = f
        /\ s.status = IF failed = {} THEN "succeeded" ELSE "needs_review"
        /\ s.cited = job.cited /\ s.evaluations = {} /\ s.recommended = {}
    BY <1>2 DEF JobStates, Untried
  <2>4. trail'[Len(trail')] = it
    BY <1>5
  <2> HIDE DEF s, failed
  <2>5. Evidenced(s)
    BY <1>2, <1>5, <1>8, <2>3, <2>4 DEF Evidenced
  <2>6. OwnForecast(s) /\ RoutesFit(s)
    BY <1>2, <1>3, <2>3, <2>4 DEF OwnForecast, RoutesFit
  <2>7. WorkTypeOK'
    BY <1>2, <1>5, <2>1, <2>2 DEF WorkInv, WorkTypeOK, Nodes
  <2>8. Stage'
    BY <2>1, <2>3 DEF Stage
  <2>9. LoopTrail' /\ ResultIsReport'
    BY <1>2, <2>1 DEF WorkInv, LoopTrail, ResultIsReport
  <2> QED BY <1>7, <2>1, <2>5, <2>6, <2>7, <2>8, <2>9 DEF WorkInv, Sound
<1>10. CASE /\ n + 1 # MaxIterations /\ next # Null
            /\ current' = next /\ UNCHANGED <<job, node, phase>>
  <2>1. next \in Ratios /\ current < next /\ failed = {"vc_ratio"}
    <3> HIDE DEF failed
    <3> QED BY <1>2, <1>10, RefinedRatio
  <2>2. WorkTypeOK'
    BY <1>2, <1>5, <1>10, <2>1 DEF WorkInv, WorkTypeOK
  <2>3. Stage' /\ ResultIsReport'
    BY <1>2, <1>10 DEF WorkInv, Stage, ForecastRequested, ResultIsReport
  <2>4. n + 1 < MaxIterations
    <3> HIDE DEF n, next
    <3> QED BY <1>2, <1>6, <1>10, IterationAssumption
  <2>5. LoopTrail'
    BY <1>5, <1>10, <2>1, <2>4 DEF LoopTrail
  <2> QED BY <1>7, <1>10, <2>2, <2>3, <2>5 DEF WorkInv
<1> QED
  <2>1. Conclude(trail', failed)
    BY <1>1
  <2> HIDE DEF failed
  <2> QED BY <1>5, <1>9, <1>10, <2>1 DEF Conclude

\* The routing node leaves status "succeeded" only to an incident job that has
\* one to three passing routes to show, or to one it does not apply to.
LEMMA RoutingInv == WorkInv /\ Routing => WorkInv'
<1> SUFFICES ASSUME WorkInv, Routing PROVE WorkInv'
  OBVIOUS
<1>1. /\ node = "routing" /\ node' = "deadline" /\ phase' = "check"
      /\ request' = request /\ late' = late /\ current' = current
      /\ trail' = trail /\ result' = result
      /\ job \in JobStates /\ Sound(job) /\ job.status \in {"succeeded", "needs_review"}
      /\ job.evaluations = {} /\ job.recommended = {}
  BY DEF Routing, GoTo, WorkInv, WorkTypeOK, Stage
<1>2. LoopTrail' /\ RefinementsAreIsolated' /\ ResultIsReport'
  BY <1>1 DEF WorkInv, LoopTrail, RefinementsAreIsolated, ResultIsReport
<1>3. ASSUME NEW s \in JobStates, job' = s, Sound(s),
             s.status \in {"succeeded", "needs_review"},
             s.status = "succeeded" /\ request.incident /\ request.topology =>
                Cardinality(s.recommended) \in 1 .. MaxRecommended
      PROVE  WorkInv'
  <2>1. WorkTypeOK'
    BY <1>1, <1>3 DEF WorkInv, WorkTypeOK, Nodes
  <2>2. Stage'
    BY <1>1, <1>3 DEF Stage
  <2>3. Sound(job)'
    BY <1>3
  <2> QED BY <1>2, <2>1, <2>2, <2>3 DEF WorkInv
<1>4. CASE ~ RoutingApplies
  <2>1. job' = job
    BY <1>4 DEF Routing
  <2> QED BY <1>1, <1>3, <1>4, <2>1 DEF RoutingApplies
<1>5. CASE RoutingApplies /\ (RoutingUnavailable \/ NoDiversion)
  <2> DEFINE s == [job EXCEPT !.attempted = TRUE, !.status = "needs_review"]
  <2>1. job' = s
    BY <1>5 DEF RoutingUnavailable, NoDiversion
  <2>2. s \in JobStates
    BY <1>1 DEF JobStates, Statuses
  <2>3. /\ s.status = "needs_review" /\ s.selected = job.selected /\ s.checks = job.checks
        /\ s.forecast = job.forecast /\ s.evaluations = {} /\ s.recommended = {}
    BY <1>1 DEF JobStates
  <2> HIDE DEF s
  <2>4. Sound(s)
    BY <1>1, <2>3 DEF Sound, Evidenced, OwnForecast, RoutesFit
  <2> QED BY <1>3, <2>1, <2>2, <2>3, <2>4
<1>6. CASE RoutingApplies /\ RoutesEvaluated
  <2>0. PICK tried \in (SUBSET Routes) \ {{}} : \E passing \in SUBSET tried :
          LET judged == Verdicts(tried, passing)
          IN  \E kept \in Recommended(judged) :
                job' = [job EXCEPT
                          !.attempted   = TRUE,
                          !.evaluations = judged,
                          !.recommended = kept,
                          !.status      = IF kept = {} THEN "needs_review" ELSE @]
    BY <1>6 DEF RoutesEvaluated
  <2>1. PICK passing \in SUBSET tried :
          \E kept \in Recommended(Verdicts(tried, passing)) :
             job' = [job EXCEPT
                       !.attempted   = TRUE,
                       !.evaluations = Verdicts(tried, passing),
                       !.recommended = kept,
                       !.status      = IF kept = {} THEN "needs_review" ELSE @]
    BY <2>0
  <2> DEFINE V == Verdicts(tried, passing)
  <2>2. PICK kept \in Recommended(V) :
          job' = [job EXCEPT !.attempted = TRUE, !.evaluations = V, !.recommended = kept,
                             !.status = IF kept = {} THEN "needs_review" ELSE @]
    BY <2>1
  <2>3. job.selected \in Ratios
    BY <1>1 DEF Sound, OwnForecast
  <2>4. /\ V \subseteq RouteEvaluations /\ IsFiniteSet(V)
        /\ \A e \in V : e.action = job.selected
    BY <2>3, VerdictsFinite
  <2> HIDE DEF V
  <2>5. /\ \A e \in kept : e \in V /\ e.passed
        /\ kept # {} => Cardinality(kept) \in 1 .. MaxRecommended
    BY <2>4, RecommendedSize
  <2> DEFINE s == [job EXCEPT !.attempted = TRUE, !.evaluations = V, !.recommended = kept,
                              !.status = IF kept = {} THEN "needs_review" ELSE @]
  <2>6. s \in JobStates
    <3>1. kept \in SUBSET RouteEvaluations /\ V \in SUBSET RouteEvaluations
      BY <2>4, <2>5
    <3> QED BY <1>1, <3>1 DEF JobStates, Statuses
  <2>7. /\ s.status = (IF kept = {} THEN "needs_review" ELSE job.status)
        /\ s.selected = job.selected /\ s.checks = job.checks /\ s.cited = job.cited
        /\ s.forecast = job.forecast /\ s.evaluations = V /\ s.recommended = kept
    BY <1>1 DEF JobStates
  <2>8. job' = s
    BY <2>2
  <2> HIDE DEF s
  <2>9. Evidenced(s) /\ OwnForecast(s)
    BY <1>1, <2>7 DEF Sound, Evidenced, OwnForecast
  <2>10. RoutesFit(s)
    BY <2>4, <2>5, <2>7 DEF RoutesFit
  <2> QED BY <1>1, <1>3, <2>5, <2>6, <2>7, <2>8, <2>9, <2>10 DEF Sound
<1> QED BY <1>4, <1>5, <1>6 DEF Routing

\* An adapter that raises ends the run as expired or failed.
LEMMA NodeRaisesInv == WorkInv /\ NodeRaises => WorkInv'
<1> SUFFICES ASSUME WorkInv, NodeRaises PROVE WorkInv'
  OBVIOUS
<1>0. job \in JobStates /\ RoutesFit(job) /\ request.ratio \in Ratios
  BY DEF WorkInv, WorkTypeOK, Sound, Requests
<1>1. ASSUME NEW n \in Nodes \ {"finalize", "done"}, NEW s \in JobStates, Raises(n, s),
             RoutesFit(s)
      PROVE  WorkInv'
  <2>1. PICK status \in {"expired", "failed"} : job' = [s EXCEPT !.status = status]
    BY <1>1 DEF Raises
  <2> DEFINE t == [s EXCEPT !.status = status]
  <2>2. t \in JobStates /\ t.status \in {"expired", "failed"}
    BY DEF JobStates, Statuses
  <2>3. RoutesFit(t)
    BY <1>1 DEF RoutesFit, JobStates
  <2>4. job' = t
    BY <2>1
  <2> HIDE DEF t
  <2> QED BY <1>1, <2>2, <2>3, <2>4, EndsUnrecommended DEF Raises
<1>2. CASE Raises("scenario", [job EXCEPT !.selected = request.ratio])
  <2> DEFINE s == [job EXCEPT !.selected = request.ratio]
  <2>1. s \in JobStates
    BY <1>0 DEF JobStates
  <2>2. job.evaluations = {} /\ job.recommended = {}
    BY <1>2 DEF Raises, WorkInv, Stage, Untried
  <2>3. RoutesFit(s)
    BY <1>0, <2>2 DEF RoutesFit, JobStates
  <2> HIDE DEF s
  <2> QED BY <1>1, <1>2, <2>1, <2>3 DEF Nodes, s
<1>3. CASE Raises("routing", [job EXCEPT !.attempted = TRUE])
  <2> DEFINE s == [job EXCEPT !.attempted = TRUE]
  <2>1. s \in JobStates
    BY <1>0 DEF JobStates
  <2>2. RoutesFit(s)
    BY <1>0 DEF RoutesFit, JobStates
  <2> HIDE DEF s
  <2> QED BY <1>1, <1>3, <2>1, <2>2 DEF Nodes, s
<1>4. CASE Raises("baseline", job) \/ Raises("rag", job) \/ Raises("safety", job)
  BY <1>0, <1>1, <1>4 DEF Nodes
<1> QED BY <1>2, <1>3, <1>4 DEF NodeRaises

LEMMA FinalizeInv == WorkInv /\ Finalize => WorkInv'
<1> SUFFICES ASSUME WorkInv, Finalize PROVE WorkInv'
  OBVIOUS
<1>1. /\ node = "finalize" /\ node' = "done" /\ result' = Report(job)
      /\ request' = request /\ phase' = phase /\ late' = late /\ job' = job
      /\ current' = current /\ trail' = trail /\ job.status \in Ended
  BY DEF Finalize, WorkInv, Stage
<1>2. WorkTypeOK'
  <2>1. Report(job) \in Results
    BY <1>1, ReportIsResult DEF WorkInv
  <2> QED BY <1>1, <2>1 DEF WorkInv, WorkTypeOK, Nodes
<1>3. Stage' /\ LoopTrail'
  BY <1>1 DEF WorkInv, Stage, LoopTrail
<1>4. RefinementsAreIsolated' /\ Sound(job)'
  BY <1>1 DEF WorkInv, RefinementsAreIsolated
<1>5. ResultIsReport'
  BY <1>1 DEF ResultIsReport, Report
<1> QED BY <1>2, <1>3, <1>4, <1>5 DEF WorkInv

-----------------------------------------------------------------------------
\* Every reachable state satisfies the invariant.
THEOREM WorkInvariant == WorkSpec => []WorkInv
<1>1. WorkInit => WorkInv
  BY WorkInvInit
<1>2. WorkInv /\ [WorkNext]_workVars => WorkInv'
  <2> SUFFICES ASSUME WorkInv, [WorkNext]_workVars PROVE WorkInv'
    OBVIOUS
  <2>1. CASE UNCHANGED workVars
    <3>1. /\ request' = request /\ node' = node /\ phase' = phase /\ late' = late
          /\ job' = job /\ current' = current /\ trail' = trail /\ result' = result
      BY <2>1 DEF workVars
    <3>2. WorkTypeOK' /\ LoopTrail' /\ RefinementsAreIsolated' /\ Sound(job)'
      BY <3>1 DEF WorkInv, WorkTypeOK, LoopTrail, RefinementsAreIsolated
    <3>3. Stage' /\ ResultIsReport'
      BY <3>1 DEF WorkInv, Stage, ForecastRequested, ResultIsReport, Report
    <3> QED BY <3>2, <3>3 DEF WorkInv
  <2> QED
    BY <2>1, DeadlinePassesInv, CheckTimeoutInv, BaselineInv, ScenarioInv, RagInv,
       SafetyIterationInv, RoutingInv, NodeRaisesInv, FinalizeInv DEF WorkNext
<1> QED BY <1>1, <1>2, PTL DEF WorkSpec

\* The variables of the workflow have their types: the refiner never leaves the
\* ratios, and what _finalize returns is a result.
THEOREM WorkTypeCorrect == WorkSpec => []WorkTypeOK
<1>1. WorkInv => WorkTypeOK
  BY DEF WorkInv
<1> QED BY <1>1, WorkInvariant, PTL

\* What a report says is what the job state says: the facts about a result.
LEMMA ReportedFacts ==
  ASSUME WorkInv, Reported
  PROVE  /\ Sound(job) /\ job \in JobStates /\ request.ratio \in Ratios
         /\ job.status \in Ended
         /\ result.recommended # Null => job.status = "succeeded" /\ ~ late
         /\ result.candidate # Null => job.status = "needs_review"
         /\ job.status = "succeeded" =>
               /\ result.recommended = job.selected /\ result.routes = job.recommended
               /\ (request.incident /\ request.topology =>
                     Cardinality(job.recommended) \in 1 .. MaxRecommended)
         /\ job.status = "needs_review" =>
               result.candidate = job.selected /\ result.routes = job.evaluations
         /\ job.status \notin {"succeeded", "needs_review"} => result.routes = {}
         /\ result.cited = job.cited /\ result.checks = job.checks
         /\ result.forecast = job.forecast
<1>1. /\ node = "done" /\ result = Report(job) /\ Sound(job) /\ job \in JobStates
      /\ request.ratio \in Ratios
  BY DEF WorkInv, ResultIsReport, Reported, WorkTypeOK, Requests
<1>2. job.status \in Ended /\ (late => job.status # "succeeded")
  BY <1>1 DEF WorkInv, Stage
<1>3. job.status = "succeeded" /\ request.incident /\ request.topology =>
         Cardinality(job.recommended) \in 1 .. MaxRecommended
  BY <1>1 DEF WorkInv, Stage
<1>4. job.status \in {"succeeded", "needs_review"} =>
         job.selected # Null /\ job.selected \in Ratios
  BY <1>1, NoneAssumption DEF Sound, OwnForecast
<1>5. /\ result.recommended # Null => job.status = "succeeded"
      /\ result.candidate # Null => job.status = "needs_review"
      /\ job.status = "succeeded" =>
            result.recommended = job.selected /\ result.routes = job.recommended
      /\ job.status = "needs_review" =>
            result.candidate = job.selected /\ result.routes = job.evaluations
      /\ job.status \notin {"succeeded", "needs_review"} => result.routes = {}
      /\ result.cited = job.cited /\ result.checks = job.checks
      /\ result.forecast = job.forecast
  BY <1>1, <1>4 DEF Report
<1> QED BY <1>1, <1>2, <1>3, <1>5

\* A recommended action is the very action of the last evaluation of the safety
\* loop, which passed every gate with legal evidence; the forecast in the result
\* is that evaluation's.
THEOREM RecommendationEvidenced == WorkSpec => []RecommendationIsEvidenced
<1>1. WorkInv => RecommendationIsEvidenced
  BY ReportedFacts DEF RecommendationIsEvidenced, Sound, Evidenced
<1> QED BY <1>1, WorkInvariant, PTL

\* The routes of a result were evaluated with the action it names, and an
\* incident recommendation on a known network names one to three, all passing.
THEOREM RoutesBelong == WorkSpec => []RoutesBelongToAction
<1>1. WorkInv => RoutesBelongToAction
  <2> SUFFICES ASSUME WorkInv, Reported
               PROVE  /\ \A e \in result.routes :
                            e.action \in {result.recommended, result.candidate}
                      /\ result.recommended # Null /\ request.incident /\ request.topology =>
                            /\ Cardinality(result.routes) \in 1 .. MaxRecommended
                            /\ \A e \in result.routes : e.passed
    BY DEF RoutesBelongToAction
  <2>1. RoutesFit(job)
    BY ReportedFacts DEF Sound
  <2>2. \A e \in result.routes : e.action \in {result.recommended, result.candidate}
    <3>1. CASE job.status = "succeeded"
      BY <2>1, <3>1, ReportedFacts DEF RoutesFit
    <3>2. CASE job.status = "needs_review"
      BY <2>1, <3>2, ReportedFacts DEF RoutesFit
    <3>3. CASE job.status \notin {"succeeded", "needs_review"}
      BY <3>3, ReportedFacts
    <3> QED BY <3>1, <3>2, <3>3
  <2>3. ASSUME result.recommended # Null, request.incident, request.topology
        PROVE  /\ Cardinality(result.routes) \in 1 .. MaxRecommended
               /\ \A e \in result.routes : e.passed
    BY <2>1, <2>3, ReportedFacts DEF RoutesFit
  <2> QED BY <2>2, <2>3
<1> QED BY <1>1, WorkInvariant, PTL

\* An action handed to an operator is the action of the reported forecast and of
\* the last evaluation, never a refinement nobody has forecast.
THEOREM ReviewedWasEvaluated == WorkSpec => []ReviewedActionWasEvaluated
<1>1. WorkInv => ReviewedActionWasEvaluated
  BY ReportedFacts, NoneAssumption DEF ReviewedActionWasEvaluated, Sound, OwnForecast
<1> QED BY <1>1, WorkInvariant, PTL

\* The loop tries at most MaxIterations candidates, each larger than the one
\* before and only after an isolated V/C failure.
THEOREM RefinementsIsolated == WorkSpec => []RefinementsAreIsolated
<1>1. WorkInv => RefinementsAreIsolated
  BY DEF WorkInv
<1> QED BY <1>1, WorkInvariant, PTL

\* A run whose deadline passed inside any of its nodes recommends nothing.
THEOREM LateRecommendsNothing == WorkSpec => []LateNeverRecommended
<1>1. WorkInv => LateNeverRecommended
  BY ReportedFacts DEF LateNeverRecommended
<1> QED BY <1>1, WorkInvariant, PTL

-----------------------------------------------------------------------------
(* Routing.                                                                 *)

\* What is recommended was evaluated as safe, for the forecasts there are; what the
\* page shows of a succeeded job is taken from it.
RecommendedSafe ==
    stage \in {"reported", "shown"} /\ outcome = "succeeded" =>
        recommended # <<>> /\ \A e \in Range(recommended) : SafePath(e.path)

ViewSafe ==
    stage = "shown" =>
        /\ outcome = "succeeded" => Range(view.routes) \subseteq Range(recommended)
        /\ \A row \in view.rows : row.node \in view.scope

RouteInv == traffic \in [Grid -> Kinds] /\ RecommendedSafe /\ ViewSafe

\* _evaluate_one passes a path only if it is safe, whatever the path is.
LEMMA PassedIsSafe ==
  ASSUME traffic \in [Grid -> Kinds],
         NEW path, Passed(Evaluated(path)), Evaluated(path).complete
  PROVE  SafePath(path)
<1>1. EvidenceComplete(path) /\ PathIsValid(path)
  BY DEF Evaluated, EvidenceComplete
<1>2. ~ OnRoute(path, "congested") /\ ~ OnRoute(path, "unsure")
  <2>1. Evaluated(path).reasons = {}
    BY DEF Passed
  <2>2. Evaluated(path).reasons =
          {r \in {"invalid_path", "missing_evidence", "high_vc_ratio", "high_uncertainty"} :
             CASE r = "invalid_path"     -> ~ PathIsValid(path)
               [] r = "missing_evidence" -> ~ EvidenceComplete(path)
               [] r = "high_vc_ratio"    -> OnRoute(path, "congested")
               [] r = "high_uncertainty" -> OnRoute(path, "unsure")}
    BY DEF Evaluated
  <2> HIDE DEF Evaluated
  <2>3. OnRoute(path, "congested") => "high_vc_ratio" \in Evaluated(path).reasons
    BY <2>2
  <2>4. OnRoute(path, "unsure") => "high_uncertainty" \in Evaluated(path).reasons
    BY <2>2
  <2> QED BY <2>1, <2>3, <2>4
<1>3. ASSUME NEW n \in Range(path)
      PROVE  traffic[n] \in Quiet
  <2>1. traffic[n] \in Kinds
    BY <1>1, <1>3 DEF PathIsValid
  <2>2. traffic[n] \notin {"missing", "stale", "nan", "congested", "unsure"}
    BY <1>1, <1>2, <1>3 DEF EvidenceComplete, OnRoute
  <2> QED BY <2>1, <2>2 DEF Kinds, Quiet
<1> QED BY <1>1, <1>3 DEF PathIsValid, SafePath, GoesAround

\* The first of a sequence are of the sequence.
LEMMA FirstOfRange ==
  ASSUME NEW seq, NEW n
  PROVE  Range(FirstOf(n, seq)) \subseteq Range(seq)
BY DEF FirstOf, Range

\* The state of the routing node is left alone.
LEMMA SafePathSame ==
  ASSUME UNCHANGED <<net, incident, traffic>>, NEW path, SafePath(path)
  PROVE  SafePath(path)'
BY DEF SafePath, GoesAround, Joined

LEMMA EvaluateInv == RouteInv /\ Evaluate => RouteInv'
<1> SUFFICES ASSUME RouteInv, Evaluate PROVE RouteInv'
  OBVIOUS
<1>1. PICK order \in SetToSeqs(Eligible(evaluations')) : recommended' = FirstOf(3, order)
  BY DEF Evaluate
<1>2. Range(recommended') \subseteq Eligible(evaluations')
  <2>1. Range(order) \subseteq Eligible(evaluations')
    BY DEF SetToSeqs, Range
  <2> QED BY <1>1, <2>1, FirstOfRange
<1>3. ASSUME NEW e \in Eligible(evaluations') PROVE SafePath(e.path)
  <2>1. e \in Range(evaluations') /\ Passed(e) /\ e.complete
    BY <1>3 DEF Eligible
  <2>2. PICK i \in 1 .. Len(candidates) : e = Evaluated(candidates[i])
    BY <2>1 DEF Evaluate, Range
  <2>3. e.path = candidates[i]
    BY <2>2 DEF Evaluated
  <2>4. SafePath(candidates[i])
    BY <2>1, <2>2, PassedIsSafe DEF RouteInv
  <2> QED BY <2>3, <2>4
<1>4. UNCHANGED <<net, incident, traffic>> /\ stage' = "reported"
      /\ outcome' = IF recommended' = <<>> THEN "needs_review" ELSE outcome
  BY DEF Evaluate
<1>5. \A e \in Range(recommended') : SafePath(e.path)'
  BY <1>2, <1>3, <1>4, SafePathSame
<1>6. RecommendedSafe'
  BY <1>4, <1>5 DEF RecommendedSafe
<1> QED BY <1>4, <1>6 DEF RouteInv, ViewSafe

LEMMA ShowInv == RouteInv /\ Show => RouteInv'
<1> SUFFICES ASSUME RouteInv, Show PROVE RouteInv'
  OBVIOUS
<1>1. PICK requested, scope :
        view' = [routes    |-> RoutesShown.routes,
                 malformed |-> RoutesShown.malformed,
                 rows      |-> ImpactShown(ImpactRows(requested), scope),
                 scope     |-> scope]
  BY DEF Show
<1>2. /\ UNCHANGED <<net, incident, traffic, recommended, outcome>>
      /\ stage = "reported" /\ stage' = "shown"
  BY DEF Show
<1>3. RecommendedSafe'
  BY <1>2, SafePathSame DEF RouteInv, RecommendedSafe
<1>4. outcome = "succeeded" => RoutesShown.routes \in {recommended, <<>>}
  BY DEF RoutesShown
<1>5. Range(<<>>) = {}
  BY DEF Range
<1>6. outcome' = "succeeded" => Range(view'.routes) \subseteq Range(recommended')
  BY <1>1, <1>2, <1>4, <1>5
<1>7. \A row \in view'.rows : row.node \in view'.scope
  BY <1>1 DEF ImpactShown
<1> QED BY <1>2, <1>3, <1>6, <1>7 DEF RouteInv, ViewSafe

\* The routing node recommends safe paths only, on every grid and with every budget,
\* whatever the search found and whatever the forecaster said.
THEOREM RouteInvariant == RouteSpec => []RouteInv
<1>1. RouteInit => RouteInv
  BY DEF RouteInit, RouteInv, RecommendedSafe, ViewSafe, Kinds
<1>2. RouteInv /\ [RouteNext]_routeVars => RouteInv'
  <2> SUFFICES ASSUME RouteInv, [RouteNext]_routeVars PROVE RouteInv'
    OBVIOUS
  <2>1. CASE Arrive
    BY <2>1 DEF Arrive, RouteInv, RecommendedSafe, ViewSafe
  <2>2. CASE Generate \/ BudgetExceeded \/ Shortlist
    BY <2>2 DEF Generate, BudgetExceeded, Shortlist, NeedsReview, RouteInv,
                RecommendedSafe, ViewSafe
  <2>8. CASE SearchNext \/ Expand
    BY <2>8 DEF SearchNext, Expand, RouteInv, RecommendedSafe, ViewSafe
  <2>3. CASE Forecast
    <3>1. traffic' \in [Grid -> Kinds]
      BY <2>3 DEF Forecast, Kinds
    <3>2. stage' = "forecast"
      BY <2>3 DEF Forecast
    <3> QED BY <3>1, <3>2 DEF RouteInv, RecommendedSafe, ViewSafe
  <2>4. CASE EvaluationRaises
    BY <2>4 DEF EvaluationRaises, RouteInv, RecommendedSafe, ViewSafe
  <2>5. CASE Evaluate
    BY <2>5, EvaluateInv
  <2>6. CASE Show
    BY <2>6, ShowInv
  <2>7. CASE UNCHANGED routeVars
    <3>1. UNCHANGED <<net, incident, traffic, recommended, outcome, stage, view>>
      BY <2>7 DEF routeVars
    <3>2. RecommendedSafe'
      BY <3>1, SafePathSame DEF RouteInv, RecommendedSafe
    <3> QED BY <3>1, <3>2 DEF RouteInv, ViewSafe
  <2> QED BY <2>1, <2>2, <2>3, <2>4, <2>5, <2>6, <2>7, <2>8 DEF RouteNext
<1> QED BY <1>1, <1>2, PTL DEF RouteSpec

\* What the page shows as recommended avoids the incident, follows corridors and rests
\* on complete forecasts within the thresholds, and it shows no row outside the
\* operator's scope: for every network, incident and forecast.
THEOREM ShownSafe == RouteSpec => []ShownRoutesAreSafe
<1>1. RouteInv => ShownRoutesAreSafe
  BY DEF RouteInv, RecommendedSafe, ViewSafe, ShownRoutesAreSafe
<1> QED BY <1>1, RouteInvariant, PTL

-----------------------------------------------------------------------------
(* The search.                                                             *)

\* The networks and the incident that reach the generator.
NetOK == net.edges \subseteq Corridors /\ incident \in Grid

\* A simple path from an entry, around the incident.
Walk(p, entry) ==
    /\ p \in Seq(Grid) /\ p # <<>> /\ p[1] = entry
    /\ GoesAround(p) /\ IsInjective(p)

\* A path is the beginning of another.
Opens(p, d) == Len(p) <= Len(d) /\ \A i \in 1 .. Len(p) : p[i] = d[i]

NoneCheaper(p) == \A d \in Detours(p[1], p[Len(p)]) : PathCost(p) <= PathCost(d)

Cheapest(p) == Walk(p, p[1]) /\ <<p[1], p[Len(p)]>> \in Crossings /\ NoneCheaper(p)

\* A pair of ends has its path, or has no detour.
Settled(e) ==
    Detours(e[1], e[2]) = {} \/ \E p \in paths : p[1] = e[1] /\ p[Len(p)] = e[2]

\* The heap holds the beginning of every detour between the ends of the search, and
\* what was found is the cheapest of its pair.
FoundInv ==
    /\ unsearched \subseteq Crossings
    /\ \A p \in paths : Cheapest(p)
    /\ \A e \in Crossings \ unsearched : Settled(e) \/ (pending # {} /\ e = ends)

HeapInv ==
    pending # {} =>
        /\ ends \in Crossings
        /\ \A p \in pending : Walk(p, ends[1])
        /\ \A d \in Detours(ends[1], ends[2]) : \E p \in pending : Opens(p, d)

CandidateShapes ==
    /\ candidates \in Seq(Seq(Grid)) /\ Len(candidates) <= 3
    /\ \A c \in Range(candidates) : Len(c) >= 2 /\ IsInjective(c)

SearchInv ==
    /\ NetOK /\ CandidateShapes
    /\ stage \in {"idle", "arrived"} => pending = {} /\ paths = {}
    /\ stage = "searching" => FoundInv /\ HeapInv
    /\ CandidatesAreCheapest

\* A corridor has two ends.
LEMMA NoLoop ==
  ASSUME NetOK, NEW a, NEW b, Joined(a, b)
  PROVE  a # b
<1> SUFFICES ASSUME a = b PROVE FALSE
  OBVIOUS
<1>1. {a, b} = {a}
  OBVIOUS
<1>2. Cardinality({a}) = 1
  BY FS_Singleton
<1>3. Cardinality({a, b}) = 2
  BY DEF NetOK, Joined, Corridors
<1> QED BY <1>1, <1>2, <1>3

\* What a path costs is a number, and at least its corridors.
LEMMA CostIsNat ==
  ASSUME NEW p \in Seq(Grid), p # <<>>
  PROVE  /\ IsFiniteSet(DearSteps(p)) /\ Cardinality(DearSteps(p)) \in Nat
         /\ PathCost(p) \in Nat /\ PathCost(p) >= Len(p) - 1
<1>1. Len(p) \in Nat /\ Len(p) >= 1
  OBVIOUS
<1>2. IsFiniteSet(1 .. Len(p) - 1)
  BY <1>1, FS_Interval
<1>3. DearSteps(p) \subseteq 1 .. Len(p) - 1
  BY DEF DearSteps
<1>4. IsFiniteSet(DearSteps(p))
  BY <1>2, <1>3, FS_Subset
<1>5. Cardinality(DearSteps(p)) \in Nat
  BY <1>4, FS_CardinalityType
<1> QED BY <1>1, <1>4, <1>5 DEF PathCost

\* A path costs no less than what it begins with.
LEMMA OpeningIsNoDearer ==
  ASSUME NEW p \in Seq(Grid), p # <<>>, NEW d \in Seq(Grid), Opens(p, d)
  PROVE  PathCost(p) <= PathCost(d)
<1>1. d # <<>> /\ Len(p) \in Nat /\ Len(d) \in Nat /\ Len(p) >= 1 /\ Len(p) <= Len(d)
  BY DEF Opens
<1>2. DearSteps(p) \subseteq DearSteps(d)
  <2> SUFFICES ASSUME NEW i \in DearSteps(p) PROVE i \in DearSteps(d)
    OBVIOUS
  <2>1. i \in 1 .. Len(p) - 1 /\ {p[i], p[i + 1]} \in net.dear
    BY DEF DearSteps
  <2>2. i \in 1 .. Len(p) /\ i + 1 \in 1 .. Len(p) /\ i \in 1 .. Len(d) - 1
    BY <1>1, <2>1
  <2>3. p[i] = d[i] /\ p[i + 1] = d[i + 1]
    BY <2>2 DEF Opens
  <2> QED BY <2>1, <2>2, <2>3 DEF DearSteps
<1>3. Cardinality(DearSteps(p)) <= Cardinality(DearSteps(d))
  BY <1>1, <1>2, CostIsNat, FS_Subset
<1>4. Cardinality(DearSteps(p)) \in Nat /\ Cardinality(DearSteps(d)) \in Nat
  BY <1>1, CostIsNat
<1> QED BY <1>1, <1>3, <1>4 DEF PathCost

\* A sequence that comes first has no larger head.
LEMMA LexFirst ==
  ASSUME NEW s \in Seq(Int), NEW t \in Seq(Int), s # <<>>, t # <<>>, LexLess(s, t)
  PROVE  s[1] <= t[1]
<1>1. CASE IsStrictPrefix(s, t)
  <2>1. Len(s) >= 1 /\ Len(s) <= Len(t) /\ SubSeq(s, 1, Len(s)) = SubSeq(t, 1, Len(s))
    BY <1>1 DEF IsStrictPrefix, IsPrefix
  <2>2. SubSeq(s, 1, Len(s))[1] = s[1] /\ SubSeq(t, 1, Len(s))[1] = t[1]
    BY <2>1
  <2>3. s[1] \in Int /\ t[1] \in Int
    BY <2>1
  <2> QED BY <2>1, <2>2, <2>3
<1>2. ASSUME NEW i \in 1 .. Len(s), i <= Len(t), s[i] < t[i],
             \A k \in 1 .. i - 1 : s[k] = t[k]
      PROVE  s[1] <= t[1]
  <2>1. s[1] \in Int /\ t[1] \in Int
    OBVIOUS
  <2>2. CASE i = 1
    BY <1>2, <2>1, <2>2
  <2>3. CASE i # 1
    BY <1>2, <2>1, <2>3
  <2> QED BY <2>2, <2>3
<1> QED BY <1>1, <1>2 DEF LexLess

\* The nodes are numbers.
LEMMA PathOfNumbers ==
  ASSUME NEW p \in Seq(Grid)
  PROVE  p \in Seq(Int)
<1>1. Grid \subseteq Int
  <2>1. Width * Height - 1 \in Int
    BY RoutingAssumption
  <2> QED BY <2>1 DEF Grid
<1>2. p \in [1 .. Len(p) -> Grid] /\ Len(p) \in Nat
  OBVIOUS
<1>3. p \in [1 .. Len(p) -> Int]
  BY <1>1, <1>2
<1> QED BY <1>2, <1>3

LEMMA HeadStays ==
  ASSUME NEW s \in Seq(Int), s # <<>>, NEW t \in Seq(Int)
  PROVE  s \o t \in Seq(Int) /\ s \o t # <<>> /\ (s \o t)[1] = s[1]
OBVIOUS

LEMMA CheaperIsNoDearer ==
  ASSUME NEW p \in Seq(Grid), p # <<>>, NEW q \in Seq(Grid), q # <<>>, CheaperPath(p, q)
  PROVE  PathCost(p) <= PathCost(q)
<1>1. PathCost(p) \in Int /\ PathCost(q) \in Int
  BY CostIsNat
<1>2. p \in Seq(Int) /\ q \in Seq(Int)
  BY PathOfNumbers
<1> DEFINE s == <<PathCost(p)>> \o p
           t == <<PathCost(q)>> \o q
<1>3. s \in Seq(Int) /\ t \in Seq(Int) /\ s # <<>> /\ t # <<>>
  BY <1>1, <1>2
<1>4. s[1] = PathCost(p) /\ t[1] = PathCost(q)
  BY <1>1, <1>2
<1>5. LexLess(s, t)
  BY DEF CheaperPath
<1> HIDE DEF s, t
<1>6. s[1] <= t[1]
  BY <1>3, <1>5, LexFirst
<1> QED BY <1>4, <1>6

LEMMA BeforeIsNoDearer ==
  ASSUME NEW p \in Seq(Grid), p # <<>>, NEW q \in Seq(Grid), q # <<>>, Before(p, q)
  PROVE  PathCost(p) <= PathCost(q)
<1>1. PathCost(p) \in Int /\ PathCost(q) \in Int
  BY CostIsNat
<1>2. p \in Seq(Int) /\ q \in Seq(Int)
  BY PathOfNumbers
<1>3. p \in Seq(Int) /\ q \in Seq(Int) /\ Len(p) >= 1 /\ Len(q) >= 1
  BY <1>2
<1> DEFINE h(x) == <<PathCost(x), Len(x) - 1, Len(x), x[1], x[Len(x)]>>
           s == h(p) \o p
           t == h(q) \o q
<1>4. h(p) \in Seq(Int) /\ h(q) \in Seq(Int) /\ h(p) # <<>> /\ h(q) # <<>>
  BY <1>1, <1>3
<1>5. h(p)[1] = PathCost(p) /\ h(q)[1] = PathCost(q)
  OBVIOUS
<1>6. LexLess(s, t)
  BY DEF Before
<1> HIDE DEF h
<1>7. s \in Seq(Int) /\ s # <<>> /\ s[1] = h(p)[1]
  BY <1>3, <1>4, HeadStays
<1>8. t \in Seq(Int) /\ t # <<>> /\ t[1] = h(q)[1]
  BY <1>3, <1>4, HeadStays
<1> HIDE DEF s, t
<1>9. s[1] <= t[1]
  BY <1>6, <1>7, <1>8, LexFirst
<1> QED BY <1>5, <1>7, <1>8, <1>9

\* What the search says of a path depends on the network and the incident alone.
LEMMA SameNetwork ==
  ASSUME UNCHANGED <<net, incident>>
  PROVE  /\ Crossings' = Crossings
         /\ \A p : PathCost(p)' = PathCost(p)
         /\ \A p : GoesAround(p)' <=> GoesAround(p)
         /\ \A a, b : Detours(a, b)' = Detours(a, b)
<1>1. Crossings' = Crossings
  BY DEF Crossings, Boundary, Joined
<1>2. ASSUME NEW p PROVE PathCost(p)' = PathCost(p)
  BY DEF PathCost, DearSteps
<1>3. ASSUME NEW p PROVE GoesAround(p)' <=> GoesAround(p)
  BY DEF GoesAround, Joined
<1>4. ASSUME NEW a, NEW b PROVE Detours(a, b)' = Detours(a, b)
  BY <1>3 DEF Detours
<1> QED BY <1>1, <1>2, <1>3, <1>4

LEMMA SameWalk ==
  ASSUME UNCHANGED <<net, incident>>, NEW p, NEW entry
  PROVE  Walk(p, entry)' <=> Walk(p, entry)
BY SameNetwork DEF Walk

LEMMA SameCheapest ==
  ASSUME UNCHANGED <<net, incident>>, NEW p
  PROVE  Cheapest(p)' <=> Cheapest(p)
<1>1. NoneCheaper(p)' <=> NoneCheaper(p)
  BY SameNetwork DEF NoneCheaper
<1> QED BY <1>1, SameNetwork, SameWalk DEF Cheapest

\* Detours are sequences of nodes between their ends.
LEMMA DetourShape ==
  ASSUME NEW e \in Grid \X Grid, NEW d \in Detours(e[1], e[2])
  PROVE  /\ d \in Seq(Grid) /\ d # <<>> /\ d[1] = e[1] /\ d[Len(d)] = e[2]
         /\ IsInjective(d) /\ GoesAround(d)
<1>1. e = <<e[1], e[2]>>
  OBVIOUS
<1>2. d \in SimplePaths[e] /\ GoesAround(d)
  BY <1>1 DEF Detours
<1>3. d \in SeqOf(Grid, Cardinality(Grid)) /\ d # <<>> /\ d[1] = e[1] /\ d[Len(d)] = e[2]
      /\ IsInjective(d)
  BY <1>2 DEF SimplePaths
<1>4. d \in Seq(Grid)
  BY <1>3 DEF SeqOf
<1> QED BY <1>2, <1>3, <1>4

LEMMA CrossingEnds ==
  ASSUME NetOK, NEW e \in Crossings
  PROVE  /\ e \in Grid \X Grid /\ e = <<e[1], e[2]>> /\ e[1] # e[2]
         /\ e[1] # incident /\ e[2] # incident
<1>1. e \in Boundary(incident) \X Boundary(incident) /\ e[1] # e[2]
  BY DEF Crossings
<1>2. \A n \in Boundary(incident) : n \in Grid /\ n # incident
  BY NoLoop DEF Boundary
<1> QED BY <1>1, <1>2

\* A path with one corridor more.
LEMMA ExtensionWalks ==
  ASSUME NEW p, NEW entry, Walk(p, entry), NEW x \in Extensions(p)
  PROVE  Walk(x, entry)
<1>1. PICK n \in Grid \ {incident} :
        x = Append(p, n) /\ Joined(p[Len(p)], n) /\ n \notin Range(p)
  BY DEF Extensions
<1>2. /\ p \in Seq(Grid) /\ Len(p) \in Nat /\ Len(p) >= 1 /\ p[1] = entry
      /\ GoesAround(p) /\ \A i, k \in 1 .. Len(p) : p[i] = p[k] => i = k
  BY DEF Walk, IsInjective
<1>3. x \in Seq(Grid) /\ x # <<>> /\ Len(x) = Len(p) + 1 /\ x[Len(p) + 1] = n
      /\ \A i \in 1 .. Len(p) : x[i] = p[i]
  BY <1>1, <1>2
<1>4. \A i \in 1 .. Len(p) : p[i] # n /\ p[i] # incident
  BY <1>1, <1>2 DEF GoesAround, Range
<1>5. \A i, k \in 1 .. Len(x) : x[i] = x[k] => i = k
  <2> SUFFICES ASSUME NEW i \in 1 .. Len(x), NEW k \in 1 .. Len(x), x[i] = x[k]
               PROVE  i = k
    OBVIOUS
  <2>1. (i \in 1 .. Len(p) \/ i = Len(p) + 1) /\ (k \in 1 .. Len(p) \/ k = Len(p) + 1)
    BY <1>2, <1>3
  <2> QED BY <1>2, <1>3, <1>4, <2>1
<1>6. IsInjective(x)
  BY <1>3, <1>5 DEF IsInjective
<1>7. incident \notin Range(x)
  <2> SUFFICES ASSUME NEW i \in 1 .. Len(x) PROVE x[i] # incident
    BY <1>3 DEF Range
  <2>1. i \in 1 .. Len(p) \/ i = Len(p) + 1
    BY <1>2, <1>3
  <2> QED BY <1>1, <1>3, <1>4, <2>1
<1>8. ASSUME NEW k \in 1 .. Len(x) - 1 PROVE Joined(x[k], x[k + 1])
  <2>1. CASE k = Len(p)
    BY <1>1, <1>2, <1>3, <2>1
  <2>2. CASE k # Len(p)
    <3>1. k \in 1 .. Len(p) - 1 /\ k \in 1 .. Len(p) /\ k + 1 \in 1 .. Len(p)
      BY <1>2, <1>3, <2>2
    <3> QED BY <1>2, <1>3, <3>1 DEF GoesAround
  <2> QED BY <2>1, <2>2
<1>9. x[1] = entry
  BY <1>2, <1>3
<1> QED BY <1>3, <1>6, <1>7, <1>8, <1>9 DEF Walk, GoesAround

\* A detour that goes on where a path ends begins with one of its extensions.
LEMMA DetourGoesOn ==
  ASSUME NEW e \in Grid \X Grid, NEW d \in Detours(e[1], e[2]),
         NEW p, Walk(p, e[1]), Opens(p, d), p[Len(p)] # e[2]
  PROVE  \E x \in Extensions(p) : Opens(x, d)
<1>1. /\ d \in Seq(Grid) /\ Len(d) \in Nat /\ d[Len(d)] = e[2]
      /\ \A i, k \in 1 .. Len(d) : d[i] = d[k] => i = k
      /\ GoesAround(d)
  BY DetourShape DEF IsInjective
<1>2. /\ p \in Seq(Grid) /\ Len(p) \in Nat /\ Len(p) >= 1 /\ Len(p) <= Len(d)
      /\ \A i \in 1 .. Len(p) : p[i] = d[i]
  BY DEF Walk, Opens
<1>3. Len(p) # Len(d)
  BY <1>1, <1>2
<1> DEFINE n == d[Len(p) + 1]
<1>4. Len(p) + 1 \in 1 .. Len(d) /\ Len(p) \in 1 .. Len(d) - 1
  BY <1>1, <1>2, <1>3
<1>5. n \in Grid /\ n # incident /\ Joined(p[Len(p)], n)
  <2>1. n \in Grid
    BY <1>1, <1>4
  <2>2. n # incident
    BY <1>1, <1>4 DEF GoesAround, Range
  <2>3. Joined(d[Len(p)], d[Len(p) + 1])
    BY <1>1, <1>4 DEF GoesAround
  <2> QED BY <1>2, <2>1, <2>2, <2>3
<1>6. n \notin Range(p)
  <2> SUFFICES ASSUME NEW i \in 1 .. Len(p), p[i] = n PROVE FALSE
    BY <1>2 DEF Range
  <2>1. i \in 1 .. Len(d) /\ d[i] = d[Len(p) + 1]
    BY <1>2, <1>4
  <2> QED BY <1>1, <1>2, <1>4, <2>1
<1> HIDE DEF n
<1>7. Append(p, n) \in Extensions(p)
  BY <1>5, <1>6 DEF Extensions
<1>8. Len(Append(p, n)) = Len(p) + 1 /\ Append(p, n)[Len(p) + 1] = n
      /\ \A i \in 1 .. Len(p) : Append(p, n)[i] = p[i]
  BY <1>2, <1>5
<1>9. \A i \in 1 .. Len(p) + 1 : Append(p, n)[i] = d[i]
  <2> SUFFICES ASSUME NEW i \in 1 .. Len(p) + 1 PROVE Append(p, n)[i] = d[i]
    OBVIOUS
  <2>1. CASE i = Len(p) + 1
    BY <1>8, <2>1 DEF n
  <2>2. CASE i # Len(p) + 1
    <3>1. i \in 1 .. Len(p)
      BY <1>2, <2>2
    <3> QED BY <1>2, <1>8, <3>1
  <2> QED BY <2>1, <2>2
<1>10. Opens(Append(p, n), d)
  BY <1>4, <1>8, <1>9 DEF Opens
<1> QED BY <1>7, <1>10

LEMMA GenerateSearches == SearchInv /\ Generate => SearchInv'
<1> SUFFICES ASSUME SearchInv, Generate PROVE SearchInv'
  OBVIOUS
<1>1. /\ UNCHANGED <<net, incident, pending, paths, candidates>>
      /\ stage' \in {"searching", "reported"}
      /\ stage' = "searching" => unsearched' = Crossings
  BY DEF Generate, NeedsReview
<1>2. NetOK' /\ CandidateShapes'
  BY <1>1 DEF SearchInv, NetOK, CandidateShapes
<1>3. CandidatesAreCheapest'
  BY <1>1 DEF CandidatesAreCheapest
<1>4. stage = "arrived" /\ pending = {} /\ paths = {}
  BY DEF Generate, SearchInv
<1>5. stage' = "searching" => FoundInv' /\ HeapInv'
  BY <1>1, <1>4, SameNetwork DEF FoundInv, HeapInv
<1> QED BY <1>1, <1>2, <1>3, <1>5 DEF SearchInv

\* A pair that was settled stays so.
LEMMA StaysSettled ==
  ASSUME UNCHANGED <<net, incident>>, paths \subseteq paths', NEW e, Settled(e)
  PROVE  Settled(e)'
BY SameNetwork DEF Settled

LEMMA SearchNextInv == SearchInv /\ SearchNext => SearchInv'
<1> SUFFICES ASSUME SearchInv, SearchNext PROVE SearchInv'
  OBVIOUS
<1>1. PICK next \in unsearched :
        unsearched' = unsearched \ {next} /\ ends' = next /\ pending' = {<<next[1]>>}
  BY DEF SearchNext
<1>2. /\ UNCHANGED <<net, incident, paths, candidates, stage>>
      /\ stage = "searching" /\ pending = {}
  BY DEF SearchNext
<1>3. NetOK' /\ CandidateShapes' /\ CandidatesAreCheapest'
  BY <1>2 DEF SearchInv, NetOK, CandidateShapes, CandidatesAreCheapest
<1>4. FoundInv /\ NetOK
  BY <1>2 DEF SearchInv
<1>5. next \in Crossings
  BY <1>4 DEF FoundInv
<1>6. /\ next \in Grid \X Grid /\ next[1] # incident
  BY <1>4, <1>5, CrossingEnds
<1>7. FoundInv'
  <2>1. unsearched' \subseteq Crossings'
    BY <1>1, <1>2, <1>4, SameNetwork DEF FoundInv
  <2>2. \A p \in paths' : Cheapest(p)'
    BY <1>2, <1>4, SameCheapest DEF FoundInv
  <2>3. ASSUME NEW e \in Crossings' \ unsearched'
        PROVE  Settled(e)' \/ (pending' # {} /\ e = ends')
    <3>1. CASE e = next
      BY <1>1, <3>1
    <3>2. CASE e # next
      <4>1. e \in Crossings \ unsearched
        BY <1>1, <1>2, <2>3, <3>2, SameNetwork
      <4>2. Settled(e)
        BY <1>2, <1>4, <4>1 DEF FoundInv
      <4> QED BY <1>2, <4>2, StaysSettled
    <3> QED BY <3>1, <3>2
  <2> QED BY <2>1, <2>2, <2>3 DEF FoundInv
<1>8. HeapInv'
  <2>1. ends' \in Crossings'
    BY <1>1, <1>2, <1>5, SameNetwork
  <2>2. Walk(<<next[1]>>, next[1])
    BY <1>6 DEF Walk, GoesAround, Range, IsInjective
  <2>3. (\A p \in pending : Walk(p, ends[1]))'
    BY <1>1, <1>2, <2>2, SameWalk
  <2>4. ASSUME NEW d \in Detours(ends[1], ends[2])'
        PROVE  \E p \in pending' : Opens(p, d)'
    <3>1. d \in Detours(next[1], next[2])
      BY <1>1, <1>2, <2>4, SameNetwork
    <3>2. d \in Seq(Grid) /\ d # <<>> /\ d[1] = next[1]
      BY <1>6, <3>1, DetourShape
    <3>3. Opens(<<next[1]>>, d)
      BY <3>2 DEF Opens
    <3> QED BY <1>1, <3>3 DEF Opens
  <2> QED BY <2>1, <2>3, <2>4 DEF HeapInv
<1> QED BY <1>2, <1>3, <1>7, <1>8 DEF SearchInv

\* The path that is returned is the cheapest of its ends.
LEMMA BestIsCheapest ==
  ASSUME NetOK, HeapInv, NEW best \in pending,
         \A q \in pending \ {best} : CheaperPath(best, q), best[Len(best)] = ends[2]
  PROVE  Cheapest(best)
<1>1. ends \in Crossings /\ Walk(best, ends[1])
  BY DEF HeapInv
<1>2. ends \in Grid \X Grid /\ ends = <<ends[1], ends[2]>>
  BY <1>1, CrossingEnds
<1>3. best[1] = ends[1] /\ best \in Seq(Grid) /\ best # <<>>
  BY <1>1 DEF Walk
<1>4. ASSUME NEW d \in Detours(ends[1], ends[2])
      PROVE  PathCost(best) <= PathCost(d)
  <2>1. PICK p \in pending : Opens(p, d)
    BY <1>4 DEF HeapInv
  <2>2. p \in Seq(Grid) /\ p # <<>> /\ d \in Seq(Grid) /\ d # <<>>
    BY <1>2, <1>4, DetourShape DEF HeapInv, Walk
  <2>3. PathCost(p) <= PathCost(d)
    BY <2>1, <2>2, OpeningIsNoDearer
  <2>4. CASE p = best
    BY <2>3, <2>4
  <2>5. CASE p # best
    <3>1. PathCost(best) <= PathCost(p)
      BY <1>3, <2>2, <2>5, CheaperIsNoDearer
    <3> QED BY <1>3, <2>2, <2>3, <3>1, CostIsNat
  <2> QED BY <2>4, <2>5
<1>5. NoneCheaper(best)
  BY <1>3, <1>4 DEF NoneCheaper
<1> QED BY <1>1, <1>2, <1>3, <1>5 DEF Cheapest

LEMMA ExpandInv == SearchInv /\ Expand => SearchInv'
<1> SUFFICES ASSUME SearchInv, Expand PROVE SearchInv'
  OBVIOUS
<1>1. PICK best \in pending :
        /\ \A q \in pending \ {best} : CheaperPath(best, q)
        /\ IF best[Len(best)] = ends[2]
           THEN pending' = {} /\ paths' = paths \cup {best}
           ELSE /\ pending' = (pending \ {best}) \cup Extensions(best)
                /\ UNCHANGED paths
  BY DEF Expand
<1>2. /\ UNCHANGED <<net, incident, ends, unsearched, candidates, stage>>
      /\ stage = "searching"
  BY DEF Expand
<1>3. NetOK' /\ CandidateShapes' /\ CandidatesAreCheapest'
  BY <1>2 DEF SearchInv, NetOK, CandidateShapes, CandidatesAreCheapest
<1>4. FoundInv /\ HeapInv /\ NetOK
  BY <1>2 DEF SearchInv
<1>5. ends \in Crossings /\ Walk(best, ends[1])
  BY <1>4 DEF HeapInv
<1>6. ends \in Grid \X Grid
  BY <1>4, <1>5, CrossingEnds
<1>7. paths \subseteq paths' /\ unsearched' \subseteq Crossings'
  BY <1>1, <1>2, <1>4, SameNetwork DEF FoundInv
<1>8. CASE best[Len(best)] = ends[2]
  <2>1. Cheapest(best) /\ best[1] = ends[1]
    BY <1>1, <1>4, <1>5, <1>8, BestIsCheapest DEF Walk
  <2>2. \A p \in paths' : Cheapest(p)'
    BY <1>1, <1>2, <1>4, <1>8, <2>1, SameCheapest DEF FoundInv
  <2>3. ASSUME NEW e \in Crossings' \ unsearched' PROVE Settled(e)'
    <3>1. e \in Crossings \ unsearched
      BY <1>2, <2>3, SameNetwork
    <3>2. CASE e = ends
      <4>1. best \in paths' /\ best[1] = e[1] /\ best[Len(best)] = e[2]
        BY <1>1, <1>8, <2>1, <3>2
      <4> QED BY <4>1 DEF Settled
    <3>3. CASE e # ends
      <4>1. Settled(e)
        BY <1>4, <3>1, <3>3 DEF FoundInv
      <4> QED BY <1>2, <1>7, <4>1, StaysSettled
    <3> QED BY <3>2, <3>3
  <2>4. FoundInv'
    BY <1>7, <2>2, <2>3 DEF FoundInv
  <2>5. HeapInv'
    BY <1>1, <1>8 DEF HeapInv
  <2> QED BY <1>2, <1>3, <2>4, <2>5 DEF SearchInv
<1>9. CASE best[Len(best)] # ends[2]
  <2>1. pending' = (pending \ {best}) \cup Extensions(best) /\ paths' = paths
    BY <1>1, <1>9
  <2>2. ASSUME NEW d \in Detours(ends[1], ends[2])
        PROVE  \E p \in pending' : Opens(p, d)
    <3>1. PICK p \in pending : Opens(p, d)
      BY <1>4, <2>2 DEF HeapInv
    <3>2. CASE p = best
      BY <1>5, <1>6, <1>9, <2>1, <2>2, <3>1, <3>2, DetourGoesOn
    <3>3. CASE p # best
      BY <2>1, <3>1, <3>3
    <3> QED BY <3>2, <3>3
  <2>3. HeapInv'
    <3>1. \A p \in pending' : Walk(p, ends[1])
      BY <1>4, <1>5, <2>1, ExtensionWalks DEF HeapInv
    <3>2. (\A p \in pending : Walk(p, ends[1]))'
      BY <1>2, <3>1, SameWalk
    <3>3. ASSUME NEW d \in Detours(ends[1], ends[2])'
          PROVE  \E p \in pending' : Opens(p, d)'
      <4>1. d \in Detours(ends[1], ends[2])
        BY <1>2, <3>3, SameNetwork
      <4> QED BY <2>2, <4>1 DEF Opens
    <3>4. ends' \in Crossings'
      BY <1>2, <1>5, SameNetwork
    <3> QED BY <3>2, <3>3, <3>4 DEF HeapInv
  <2>4. ASSUME NEW e \in Crossings' \ unsearched'
        PROVE  Settled(e)' \/ (pending' # {} /\ e = ends')
    <3>1. e \in Crossings \ unsearched
      BY <1>2, <2>4, SameNetwork
    <3>2. CASE Settled(e)
      BY <1>2, <1>7, <3>2, StaysSettled
    <3>3. CASE e = ends /\ Detours(e[1], e[2]) = {}
      BY <1>2, <3>3, SameNetwork DEF Settled
    <3>4. CASE e = ends /\ Detours(e[1], e[2]) # {}
      <4>1. pending' # {}
        BY <2>2, <3>4
      <4> QED BY <1>2, <3>4, <4>1
    <3> QED BY <1>4, <3>1, <3>2, <3>3, <3>4 DEF FoundInv
  <2>5. \A p \in paths' : Cheapest(p)'
    BY <1>2, <1>4, <2>1, SameCheapest DEF FoundInv
  <2> QED BY <1>2, <1>3, <1>7, <2>3, <2>4, <2>5 DEF SearchInv, FoundInv
<1> QED BY <1>8, <1>9

LEMMA ShortlistInv == SearchInv /\ Shortlist => SearchInv'
<1> SUFFICES ASSUME SearchInv, Shortlist PROVE SearchInv'
  OBVIOUS
<1>1. /\ UNCHANGED <<net, incident>> /\ stage' \in {"reported", "generated"}
      /\ stage = "searching" /\ pending = {} /\ unsearched = {}
  BY DEF Shortlist, NeedsReview
<1>2. NetOK' /\ NetOK /\ FoundInv /\ CandidateShapes
  BY <1>1 DEF SearchInv, NetOK
<1>3. CASE paths = {}
  <2>1. stage' = "reported" /\ candidates' = candidates
    BY <1>3 DEF Shortlist, NeedsReview
  <2>2. CandidateShapes' /\ CandidatesAreCheapest'
    BY <1>2, <2>1 DEF CandidateShapes, CandidatesAreCheapest
  <2> QED BY <1>2, <2>1, <2>2 DEF SearchInv
<1>4. CASE paths # {}
  <2>1. candidates' \in Shortlists /\ stage' = "generated"
    BY <1>4 DEF Shortlist
  <2> DEFINE c == candidates'
  <2>2. /\ c \in SeqOf(paths, 3)
        /\ Len(c) = 3 \/ Range(c) = paths
        /\ \A i \in DOMAIN c, p \in paths \ Range(c) : Before(c[i], p)
    BY <2>1 DEF Shortlists
  <2>3. c \in Seq(paths) /\ Len(c) <= 3 /\ Range(c) \subseteq paths
    <3>1. PICK m \in 0 .. 3 : c \in [1 .. m -> paths]
      BY <2>2 DEF SeqOf
    <3>2. Range(c) \subseteq paths
      BY <3>1 DEF Range
    <3> QED BY <3>1, <3>2
  <2>4. ASSUME NEW p \in paths
        PROVE  /\ p \in Seq(Grid) /\ p # <<>> /\ GoesAround(p) /\ IsInjective(p)
               /\ <<p[1], p[Len(p)]>> \in Crossings /\ NoneCheaper(p) /\ Len(p) >= 2
    <3>1. Cheapest(p)
      BY <1>2 DEF FoundInv
    <3>2. p \in Seq(Grid) /\ p # <<>> /\ Len(p) \in Nat /\ Len(p) >= 1
      BY <3>1 DEF Cheapest, Walk
    <3>3. p[1] # p[Len(p)]
      BY <3>1 DEF Cheapest, Crossings
    <3> QED BY <3>1, <3>2, <3>3 DEF Cheapest, Walk
  <2>5. CandidateShapes'
    <3>1. paths \subseteq Seq(Grid)
      BY <2>4
    <3>2. c \in Seq(Seq(Grid))
      BY <2>3, <3>1
    <3>3. \A p \in Range(c) : Len(p) >= 2 /\ IsInjective(p)
      BY <2>3, <2>4
    <3> QED BY <2>3, <3>2, <3>3 DEF CandidateShapes
  <2>6. \A p \in Range(c) :
           /\ <<p[1], p[Len(p)]>> \in Crossings'
           /\ GoesAround(p)' /\ IsInjective(p)
           /\ \A d \in Detours(p[1], p[Len(p)])' : PathCost(p)' <= PathCost(d)'
    BY <1>1, <2>3, <2>4, SameNetwork DEF NoneCheaper
  <2>7. ASSUME NEW e \in Crossings, ~ \E p \in Range(c) : p[1] = e[1] /\ p[Len(p)] = e[2],
               Detours(e[1], e[2]) # {}
        PROVE  /\ Len(c) = 3
               /\ \A p \in Range(c), d \in Detours(e[1], e[2]) : PathCost(p) <= PathCost(d)
    <3>1. PICK f \in paths : f[1] = e[1] /\ f[Len(f)] = e[2]
      BY <1>1, <1>2, <2>7 DEF FoundInv, Settled
    <3>2. f \notin Range(c)
      BY <2>7, <3>1
    <3>3. Len(c) = 3
      BY <2>2, <3>2
    <3>4. ASSUME NEW p \in Range(c), NEW d \in Detours(e[1], e[2])
          PROVE  PathCost(p) <= PathCost(d)
      <4>1. Before(p, f)
        BY <2>2, <3>2 DEF Range
      <4>2. p \in Seq(Grid) /\ p # <<>> /\ f \in Seq(Grid) /\ f # <<>>
        BY <2>3, <2>4
      <4>3. PathCost(p) <= PathCost(f)
        BY <4>1, <4>2, BeforeIsNoDearer
      <4>4. PathCost(f) <= PathCost(d)
        BY <2>4, <3>1, <3>4 DEF NoneCheaper
      <4>5. d \in Seq(Grid) /\ d # <<>>
        BY <1>2, <3>4, CrossingEnds, DetourShape
      <4> QED BY <4>2, <4>3, <4>4, <4>5, CostIsNat
    <3> QED BY <3>3, <3>4
  <2>8. \A e \in Crossings' :
           \/ \E p \in Range(c) : p[1] = e[1] /\ p[Len(p)] = e[2]
           \/ Detours(e[1], e[2])' = {}
           \/ /\ Len(c) = 3
              /\ \A p \in Range(c), d \in Detours(e[1], e[2])' : PathCost(p)' <= PathCost(d)'
    BY <1>1, <2>7, SameNetwork
  <2>9. CandidatesAreCheapest'
    BY <2>6, <2>8 DEF CandidatesAreCheapest
  <2> QED BY <1>2, <2>1, <2>5, <2>9 DEF SearchInv
<1> QED BY <1>3, <1>4

\* Every other step leaves the search alone.
LEMMA SearchIsOver ==
  ASSUME SearchInv, UNCHANGED <<net, incident, candidates>>,
         stage' \notin {"idle", "arrived", "searching", "generated"}
  PROVE  SearchInv'
BY DEF SearchInv, NetOK, CandidateShapes, CandidatesAreCheapest

LEMMA SearchStutters ==
  ASSUME SearchInv, UNCHANGED <<net, incident, candidates, stage, searchVars>>
  PROVE  SearchInv'
<1>1. UNCHANGED <<unsearched, ends, pending, paths>>
  BY DEF searchVars
<1>2. NetOK' /\ CandidateShapes'
  BY DEF SearchInv, NetOK, CandidateShapes
<1>3. CandidatesAreCheapest'
  <2> SUFFICES ASSUME stage = "generated" PROVE CandidatesAreCheapest'
    BY DEF CandidatesAreCheapest
  <2>1. CandidatesAreCheapest
    BY DEF SearchInv
  <2>2. \A c \in Range(candidates') :
           /\ <<c[1], c[Len(c)]>> \in Crossings'
           /\ GoesAround(c)' /\ IsInjective(c)
           /\ \A d \in Detours(c[1], c[Len(c)])' : PathCost(c)' <= PathCost(d)'
    BY <2>1, SameNetwork DEF CandidatesAreCheapest
  <2>3. \A e \in Crossings' :
           \/ \E c \in Range(candidates') : c[1] = e[1] /\ c[Len(c)] = e[2]
           \/ Detours(e[1], e[2])' = {}
           \/ /\ Len(candidates') = 3
              /\ \A c \in Range(candidates'), d \in Detours(e[1], e[2])' :
                    PathCost(c)' <= PathCost(d)'
    BY <2>1, SameNetwork DEF CandidatesAreCheapest
  <2> QED BY <2>2, <2>3 DEF CandidatesAreCheapest
<1>4. ASSUME stage = "searching" PROVE FoundInv' /\ HeapInv'
  <2>1. FoundInv /\ HeapInv
    BY <1>4 DEF SearchInv
  <2>2. \A e : Settled(e) => Settled(e)'
    BY <1>1, StaysSettled
  <2>3. FoundInv'
    BY <1>1, <2>1, <2>2, SameNetwork, SameCheapest DEF FoundInv
  <2>4. HeapInv'
    BY <1>1, <2>1, SameNetwork, SameWalk DEF HeapInv, Opens
  <2> QED BY <2>3, <2>4
<1> QED BY <1>1, <1>2, <1>3, <1>4 DEF SearchInv

\* The search keeps its invariant on every network, with every budget.
THEOREM SearchInvariant == RouteSpec => []SearchInv
<1>1. RouteInit => SearchInv
  <2> SUFFICES ASSUME RouteInit PROVE SearchInv
    OBVIOUS
  <2>1. 0 \in Grid
    <3>1. Width \in Nat \ {0} /\ Height \in Nat \ {0}
      BY RoutingAssumption
    <3>2. Width * Height - 1 >= 0 /\ Width * Height - 1 \in Int
      BY <3>1
    <3> QED BY <3>2 DEF Grid
  <2>2. NetOK
    BY <2>1 DEF RouteInit, NetOK
  <2>3. CandidateShapes
    BY DEF RouteInit, CandidateShapes, Range
  <2> QED BY <2>2, <2>3 DEF RouteInit, SearchInv, CandidatesAreCheapest
<1>2. SearchInv /\ [RouteNext]_routeVars => SearchInv'
  <2> SUFFICES ASSUME SearchInv, [RouteNext]_routeVars PROVE SearchInv'
    OBVIOUS
  <2>1. CASE Arrive
    <3>1. NetOK'
      BY <2>1 DEF Arrive, NetOK
    <3>2. /\ UNCHANGED <<candidates, pending, paths>> /\ stage = "idle" /\ stage' = "arrived"
      BY <2>1 DEF Arrive, searchVars
    <3> QED BY <3>1, <3>2 DEF SearchInv, CandidateShapes, CandidatesAreCheapest
  <2>2. CASE Generate
    BY <2>2, GenerateSearches
  <2>3. CASE SearchNext
    BY <2>3, SearchNextInv
  <2>4. CASE Expand
    BY <2>4, ExpandInv
  <2>5. CASE BudgetExceeded
    BY <2>5, SearchIsOver DEF BudgetExceeded, NeedsReview
  <2>6. CASE Shortlist
    BY <2>6, ShortlistInv
  <2>7. CASE Forecast
    BY <2>7, SearchIsOver DEF Forecast
  <2>8. CASE EvaluationRaises
    BY <2>8, SearchIsOver DEF EvaluationRaises
  <2>9. CASE Evaluate
    BY <2>9, SearchIsOver DEF Evaluate
  <2>10. CASE Show
    BY <2>10, SearchIsOver DEF Show
  <2>11. CASE UNCHANGED routeVars
    BY <2>11, SearchStutters DEF routeVars
  <2> QED BY <2>1, <2>2, <2>3, <2>4, <2>5, <2>6, <2>7, <2>8, <2>9, <2>10, <2>11
          DEF RouteNext
<1> QED BY <1>1, <1>2, PTL DEF RouteSpec

\* The candidates are detours around the incident, none of which has a cheaper one
\* between the same ends, and two neighbours with a detour are left out only for three
\* candidates that are no dearer: for every network, incident and budget.
THEOREM CandidatesCheapest == RouteSpec => []CandidatesAreCheapest
<1>1. SearchInv => CandidatesAreCheapest
  BY DEF SearchInv
<1> QED BY <1>1, SearchInvariant, PTL

-----------------------------------------------------------------------------
(* What the page makes of the result.                                      *)

\* A report with evaluations is one the page accepts: recommendations of a succeeded
\* job that passed, or evaluations of which none did.
ReportInv ==
    /\ stage \notin {"reported", "shown"} => evaluations = <<>> /\ outcome = "succeeded"
    /\ evaluations # <<>> =>
          /\ Len(evaluations) <= 3 /\ \A e \in Range(evaluations) : ValidEvaluation(e)
          /\ \/ /\ outcome = "succeeded"
                /\ recommended # <<>> /\ Len(recommended) <= 3
                /\ \A e \in Range(recommended) : e \in Range(evaluations) /\ Passed(e)
             \/ outcome = "needs_review" /\ \A e \in Range(evaluations) : ~ Passed(e)
    /\ EveryRouteIsShown

\* A delay is never negative.
LEMMA DelayIsNat ==
  ASSUME NEW path \in Seq(Grid), path # <<>>
  PROVE  DelayProxy(path) >= 0
<1> DEFINE slow == {i \in 1 .. Len(Tail(path)) : traffic[Tail(path)[i]] \in {"slow"}}
<1>1. Len(Tail(path)) \in Nat
  OBVIOUS
<1>2. IsFiniteSet(1 .. Len(Tail(path)))
  BY <1>1, FS_Interval
<1>3. Cardinality(slow) \in Nat
  <2>1. slow \subseteq 1 .. Len(Tail(path))
    OBVIOUS
  <2>2. IsFiniteSet(slow)
    BY <1>2, <2>1, FS_Subset
  <2> QED BY <2>2, FS_CardinalityType
<1>4. DelayProxy(path) \in {0, Len(Tail(path)) + Cardinality(slow)}
  BY DEF DelayProxy
<1> HIDE DEF slow
<1> QED BY <1>1, <1>3, <1>4

\* The page accepts the evaluation of every candidate.
LEMMA CandidateIsAccepted ==
  ASSUME CandidateShapes, NEW c \in Range(candidates)
  PROVE  ValidEvaluation(Evaluated(c))
<1>1. c \in Seq(Grid) /\ Len(c) >= 2 /\ IsInjective(c)
  <2>1. Range(candidates) \subseteq Seq(Grid)
    BY DEF CandidateShapes, Range
  <2> QED BY <2>1 DEF CandidateShapes
<1>2. c # <<>> /\ Len(c) \in Nat
  BY <1>1
<1>3. PathCost(c) > 0
  BY <1>1, <1>2, CostIsNat
<1>4. DelayProxy(c) >= 0
  BY <1>1, <1>2, DelayIsNat
<1>5. /\ Evaluated(c).path = c /\ Evaluated(c).delay = DelayProxy(c)
      /\ Evaluated(c).complete = EvidenceComplete(c)
  BY DEF Evaluated
<1>6. Passed(Evaluated(c)) => EvidenceComplete(c)
  BY DEF Passed, Evaluated
<1> QED BY <1>1, <1>3, <1>4, <1>5, <1>6 DEF ValidEvaluation, ValidRoute

\* The first of a sequence are a sequence.
LEMMA FirstThree ==
  ASSUME NEW n \in Nat, NEW S, NEW f \in [1 .. n -> S], FirstOf(3, f) # <<>>
  PROVE  Len(FirstOf(3, f)) <= 3
<1> DEFINE k == IF n <= 3 THEN n ELSE 3
<1>1. {i \in DOMAIN f : i <= 3} = 1 .. k /\ k \in Nat /\ k <= 3
  OBVIOUS
<1>2. FirstOf(3, f) = [i \in 1 .. k |-> f[i]]
  BY <1>1 DEF FirstOf
<1> HIDE DEF k
<1> QED BY <1>1, <1>2

LEMMA FirstOfSome ==
  ASSUME NEW n \in Nat, NEW S, NEW f \in [1 .. n -> S], FirstOf(3, f) = <<>>
  PROVE  n = 0
<1>1. DOMAIN FirstOf(3, f) = {i \in 1 .. n : i <= 3}
  BY DEF FirstOf
<1>2. DOMAIN FirstOf(3, f) = {}
  OBVIOUS
<1>3. n >= 1 => 1 \in {i \in 1 .. n : i <= 3}
  OBVIOUS
<1> QED BY <1>1, <1>2, <1>3

LEMMA EvaluateReports ==
  ASSUME SearchInv, ReportInv, Evaluate
  PROVE  ReportInv'
<1>1. /\ stage = "forecast" /\ stage' = "reported" /\ UNCHANGED <<net, candidates>>
      /\ evaluations' = [i \in 1 .. Len(candidates) |-> Evaluated(candidates[i])]
      /\ outcome' = IF recommended' = <<>> THEN "needs_review" ELSE outcome
  BY DEF Evaluate
<1>2. PICK order \in SetToSeqs(Eligible(evaluations')) : recommended' = FirstOf(3, order)
  BY DEF Evaluate
<1>3. CandidateShapes /\ Len(candidates) \in Nat /\ Len(candidates) <= 3
  BY DEF SearchInv, CandidateShapes
<1>4. outcome = "succeeded"
  BY <1>1 DEF ReportInv
<1> DEFINE E == Eligible(evaluations')
           n == Len(candidates)
<1>5. Len(evaluations') = n /\ DOMAIN evaluations' = 1 .. n
  BY <1>1, <1>3
<1>6. ASSUME NEW e \in Range(evaluations')
      PROVE  ValidEvaluation(e)' /\ (Passed(e) => e.complete)
  <2>1. PICK i \in 1 .. n : e = Evaluated(candidates[i])
    BY <1>1, <1>5 DEF Range
  <2>2. candidates[i] \in Range(candidates)
    BY <1>3, <2>1 DEF Range, CandidateShapes
  <2>3. ValidEvaluation(e)
    BY <1>3, <2>1, <2>2, CandidateIsAccepted
  <2>4. ValidEvaluation(e)'
    BY <1>1, <2>3 DEF ValidEvaluation, ValidRoute, PathCost, DearSteps
  <2> QED BY <2>3, <2>4 DEF ValidEvaluation
<1>7. IsFiniteSet(E)
  <2>1. evaluations' \in Surjection(1 .. n, Range(evaluations'))
    BY <1>1, <1>5 DEF Surjection, Range
  <2>2. IsFiniteSet(1 .. n)
    BY <1>3, FS_Interval
  <2>3. IsFiniteSet(Range(evaluations'))
    BY <2>1, <2>2, FS_Surjection
  <2>4. E \subseteq Range(evaluations')
    BY DEF Eligible
  <2> QED BY <2>3, <2>4, FS_Subset
<1>8. order \in [1 .. Cardinality(E) -> E] /\ Cardinality(E) \in Nat
  BY <1>2, <1>7, FS_CardinalityType DEF SetToSeqs
<1>9. \A e \in E : e \in Range(evaluations') /\ Passed(e)
  BY DEF Eligible
<1>10. E = {} => \A e \in Range(evaluations') : ~ Passed(e)
  BY <1>6 DEF Eligible
<1>11. Range(recommended') \subseteq E
  <2>1. Range(order) \subseteq E
    BY <1>8 DEF Range
  <2> QED BY <1>2, <2>1, FirstOfRange
<1> HIDE DEF E
<1>12. CASE recommended' = <<>>
  <2>1. Cardinality(E) = 0
    BY <1>2, <1>8, <1>12, FirstOfSome
  <2>2. E = {}
    BY <1>7, <2>1, FS_EmptySet
  <2> QED BY <1>1, <1>3, <1>5, <1>6, <1>10, <1>12, <2>2
          DEF ReportInv, EveryRouteIsShown
<1>13. CASE recommended' # <<>>
  <2>1. Len(recommended') <= 3
    BY <1>2, <1>8, <1>13, FirstThree
  <2> QED BY <1>1, <1>3, <1>4, <1>5, <1>6, <1>9, <1>11, <1>13, <2>1
          DEF ReportInv, EveryRouteIsShown
<1> QED BY <1>12, <1>13

LEMMA ShowReports ==
  ASSUME ReportInv, Show
  PROVE  ReportInv'
<1>1. PICK requested, scope :
        view' = [routes    |-> RoutesShown.routes,
                 malformed |-> RoutesShown.malformed,
                 rows      |-> ImpactShown(ImpactRows(requested), scope),
                 scope     |-> scope]
  BY DEF Show
<1>2. /\ UNCHANGED <<net, evaluations, recommended, outcome>>
      /\ stage = "reported" /\ stage' = "shown"
  BY DEF Show
<1>3. view'.routes = RoutesShown.routes
  BY <1>1
<1>4. ASSUME evaluations # <<>>
      PROVE  RoutesShown.routes = IF outcome = "succeeded" THEN recommended ELSE evaluations
  <2>1. CASE outcome = "succeeded"
    <3>1. /\ recommended # <<>> /\ Len(recommended) <= 3
          /\ \A e \in Range(recommended) : ValidEvaluation(e) /\ Passed(e)
      BY <1>4, <2>1 DEF ReportInv
    <3>2. \A e \in Range(recommended) : Passed(e) = (outcome = "succeeded")
      BY <2>1, <3>1 DEF Passed
    <3> QED BY <2>1, <3>1, <3>2 DEF RoutesShown
  <2>2. CASE outcome = "needs_review"
    <3>1. /\ Len(evaluations) <= 3
          /\ \A e \in Range(evaluations) : ValidEvaluation(e) /\ ~ Passed(e)
      BY <1>4, <2>2 DEF ReportInv
    <3>2. \A e \in Range(evaluations) : Passed(e) = (outcome = "succeeded")
      BY <2>2, <3>1 DEF Passed
    <3> QED BY <1>4, <2>2, <3>1, <3>2 DEF RoutesShown
  <2> QED BY <1>4, <2>1, <2>2 DEF ReportInv
<1>5. EveryRouteIsShown'
  BY <1>2, <1>3, <1>4 DEF EveryRouteIsShown
<1>6. \A e : ValidEvaluation(e)' <=> ValidEvaluation(e)
  BY <1>2 DEF ValidEvaluation, ValidRoute, PathCost, DearSteps
<1> QED BY <1>2, <1>5, <1>6 DEF ReportInv

\* A step that evaluates nothing.
LEMMA NothingToShow ==
  ASSUME ReportInv, stage \notin {"reported", "shown"}, UNCHANGED evaluations,
         stage' # "shown", outcome' = "succeeded" \/ stage' = "reported"
  PROVE  ReportInv'
BY DEF ReportInv, EveryRouteIsShown

THEOREM ReportInvariant == RouteSpec => []ReportInv
<1>1. RouteInit => ReportInv
  BY DEF RouteInit, ReportInv, EveryRouteIsShown
<1>2. SearchInv /\ ReportInv /\ [RouteNext]_routeVars => ReportInv'
  <2> SUFFICES ASSUME SearchInv, ReportInv, [RouteNext]_routeVars PROVE ReportInv'
    OBVIOUS
  <2>0. stage \notin {"reported", "shown"} => outcome = "succeeded"
    BY DEF ReportInv
  <2>1. CASE Arrive
    BY <2>0, <2>1, NothingToShow DEF Arrive
  <2>2. CASE Generate
    BY <2>0, <2>2, NothingToShow DEF Generate, NeedsReview
  <2>3. CASE SearchNext
    BY <2>0, <2>3, NothingToShow DEF SearchNext
  <2>4. CASE Expand
    BY <2>0, <2>4, NothingToShow DEF Expand
  <2>5. CASE BudgetExceeded
    BY <2>0, <2>5, NothingToShow DEF BudgetExceeded, NeedsReview
  <2>6. CASE Shortlist
    BY <2>0, <2>6, NothingToShow DEF Shortlist, NeedsReview
  <2>7. CASE Forecast
    BY <2>0, <2>7, NothingToShow DEF Forecast
  <2>8. CASE EvaluationRaises
    BY <2>0, <2>8, NothingToShow DEF EvaluationRaises
  <2>9. CASE Evaluate
    BY <2>9, EvaluateReports
  <2>10. CASE Show
    BY <2>10, ShowReports
  <2>11. CASE UNCHANGED routeVars
    <3>1. UNCHANGED <<stage, net, evaluations, recommended, outcome, view>>
      BY <2>11 DEF routeVars
    <3>2. \A e : ValidEvaluation(e)' <=> ValidEvaluation(e)
      BY <3>1 DEF ValidEvaluation, ValidRoute, PathCost, DearSteps
    <3> QED BY <3>1, <3>2 DEF ReportInv, EveryRouteIsShown
  <2> QED BY <2>1, <2>2, <2>3, <2>4, <2>5, <2>6, <2>7, <2>8, <2>9, <2>10, <2>11
          DEF RouteNext
<1> QED BY <1>1, <1>2, SearchInvariant, PTL DEF RouteSpec

\* The page takes no recommendation of a succeeded job for malformed, and no rejected
\* candidate of one that needs review: whatever was found and forecast.
THEOREM EveryRouteShown == RouteSpec => []EveryRouteIsShown
<1>1. ReportInv => EveryRouteIsShown
  BY DEF ReportInv
<1> QED BY <1>1, ReportInvariant, PTL

=============================================================================
