---------------------------- MODULE WhatIfWorkflow ----------------------------
(***************************************************************************)
(* One run of the what-if workflow (WhatIfOrchestrator.run, orchestrator.py)*)
(* with the counterfactual safety loop inside it (safety_loop.py).  Nodes   *)
(* run in sequence: baseline forecast, scenario forecast, legal evidence,   *)
(* safety loop, diversion routes.  Before each node the elapsed time is     *)
(* compared with the deadline; time passes while a node runs.  The          *)
(* forecasters, the legal tier and the route generator and evaluator are    *)
(* adapters: what they answer, and whether they answer or raise, is a       *)
(* choice.  A green-time ratio is a level 0..MaxRatio (MaxRatio is 1.0),    *)
(* and RefineStep is the refiner's step.                                    *)
(***************************************************************************)
EXTENDS Integers, Sequences, FiniteSets

CONSTANTS
    MaxRatio,        \* the level that stands for a green-time ratio of 1.0
    RefineStep,      \* GreenTimeRatioRefiner._step, in levels
    MaxIterations,   \* MAX_ITERATIONS of the safety loop
    Routes,          \* diversion candidates a generator may find
    Null             \* Python's None

ASSUME RatioAssumption     == MaxRatio \in Nat /\ RefineStep \in 1 .. MaxRatio
ASSUME IterationAssumption == MaxIterations \in Nat \ {0}
ASSUME RoutesAssumption    == IsFiniteSet(Routes)

MaxRecommended == 3   \* filter_and_rank keeps passing[:3]

VARIABLES
    request,   \* the WhatIfJobRequest and the composition that serves it
    node,      \* the node to run next, or being run
    phase,     \* "check": check_timeout comes next; "run": inside the node
    late,      \* the elapsed time has reached timeout_seconds
    job,       \* the OrchestratorState
    current,   \* CounterfactualSafetyLoop.run: current_action
    trail,     \* CounterfactualSafetyLoop.run: iterations
    result     \* the WhatIfJobResult, Null while the run goes on

workVars == <<request, node, phase, late, job, current, trail, result>>

Ratios == 0 .. MaxRatio

\* A forecast says, of each of its three worst scores, whether it is within
\* its threshold, above it, or no number: neither comparison holds of NaN.
Scores == {"within", "above", "nan"}

Forecasts == [action : Ratios, vc : Scores, uncertainty : Scores, ood : Scores]

Gates == {"vc_ratio", "citations", "uncertainty", "ood"}

Iterations == [action : Ratios, forecast : Forecasts, failed : SUBSET Gates]

\* A route's evaluation: the action it was evaluated with and its verdict.
RouteEvaluations == [route : Routes, action : Ratios, passed : BOOLEAN]

\* None is neither an action nor a forecast.
ASSUME NoneAssumption == Null \notin Ratios /\ Null \notin Forecasts

Statuses == {"running", "succeeded", "needs_review", "failed", "expired"}
Ended    == Statuses \ {"running"}

Requests == [ratio : Ratios, incident : BOOLEAN, topology : BOOLEAN,
             evaluator : BOOLEAN]

Nodes == {"baseline", "scenario", "rag", "safety", "routing", "deadline",
          "finalize", "done"}

-----------------------------------------------------------------------------
(* The clock and the exits of the graph.                                    *)

NewState ==
    [status |-> "running", selected |-> Null, forecast |-> Null, cited |-> FALSE,
     checks |-> <<>>, attempted |-> FALSE, evaluations |-> {}, recommended |-> {}]

WorkInit ==
    /\ request \in Requests
    /\ node = "baseline" /\ phase = "check" /\ late = FALSE
    /\ job = NewState
    /\ current = request.ratio /\ trail = <<>>
    /\ result = Null

Running == node \notin {"finalize", "done"}

\* Time passes inside a node.
DeadlinePasses ==
    /\ Running /\ phase = "run" /\ ~late
    /\ late' = TRUE
    /\ UNCHANGED <<request, node, phase, job, current, trail, result>>

\* Defect: no check after the last node.
CheckTimeoutNotAtEnd ==
    /\ Running /\ phase = "check"
    /\ IF late /\ node # "deadline"
         THEN /\ job' = [job EXCEPT !.status = "expired"]
              /\ node' = "finalize"
              /\ UNCHANGED phase
         ELSE /\ node' = IF node = "deadline" THEN "finalize" ELSE node
              /\ phase' = IF node = "deadline" THEN "check" ELSE "run"
              /\ UNCHANGED job
    /\ UNCHANGED <<request, late, current, trail, result>>

\* check_timeout() before a node, and once more after the last.
CheckTimeout ==
    /\ Running /\ phase = "check"
    /\ IF late
         THEN /\ job' = [job EXCEPT !.status = "expired"]
              /\ node' = "finalize"
              /\ UNCHANGED phase
         ELSE /\ node' = IF node = "deadline" THEN "finalize" ELSE node
              /\ phase' = IF node = "deadline" THEN "check" ELSE "run"
              /\ UNCHANGED job
    /\ UNCHANGED <<request, late, current, trail, result>>

\* An adapter called in node n raises: a TimeoutError expires the job, any
\* other exception fails it, and what the node had assigned stays assigned.
Raises(n, state) ==
    /\ node = n /\ phase = "run"
    /\ \E status \in {"expired", "failed"} :
          job' = [state EXCEPT !.status = status]
    /\ node' = "finalize" /\ phase' = "check"
    /\ UNCHANGED <<request, late, current, trail, result>>

GoTo(n) == node' = n /\ phase' = "check"

-----------------------------------------------------------------------------
(* The nodes before the safety loop.                                        *)

Baseline ==
    /\ node = "baseline" /\ phase = "run"
    /\ GoTo("scenario")
    /\ UNCHANGED <<request, late, job, current, trail, result>>

\* gate_surrogate_result: a score above its threshold sends the job to review.
GateBlocks(forecast) == "above" \in {forecast.uncertainty, forecast.ood}

\* Only the gate's verdict changes the state: the run returns early, straight
\* to _finalize, when the job is no longer running.
Scenario ==
    /\ node = "scenario" /\ phase = "run"
    /\ \E f \in [action : {request.ratio}, vc : Scores, uncertainty : Scores,
                 ood : Scores] :
          /\ job' = [job EXCEPT !.selected = request.ratio, !.forecast = f,
                                !.status = IF GateBlocks(f) THEN "needs_review"
                                                            ELSE @]
          /\ GoTo(IF GateBlocks(f) THEN "finalize" ELSE "rag")
    /\ UNCHANGED <<request, late, current, trail, result>>

\* Sufficient evidence becomes the job's citations; anything else is review.
LegalEvidence(sufficient) ==
    /\ job' = IF sufficient THEN [job EXCEPT !.cited = TRUE]
                            ELSE [job EXCEPT !.status = "needs_review"]
    /\ GoTo(IF sufficient THEN "safety" ELSE "finalize")

Rag ==
    /\ node = "rag" /\ phase = "run"
    /\ \E sufficient \in BOOLEAN : LegalEvidence(sufficient)
    /\ UNCHANGED <<request, late, current, trail, result>>

-----------------------------------------------------------------------------
(* The safety loop: one action per iteration.  Its variables are local to   *)
(* the loop: the job learns of them only when the loop returns.             *)

\* Defect: only a score above its threshold fails a gate.
FailedGatesAboveOnly(forecast) ==
    {g \in Gates :
        CASE g = "vc_ratio"    -> forecast.vc = "above"
          [] g = "uncertainty" -> forecast.uncertainty = "above"
          [] g = "ood"         -> forecast.ood = "above"
          [] g = "citations"   -> ~job.cited}

\* _evaluate_iteration: a gate is passed when its score compares as <=.
FailedGates(forecast) ==
    {g \in Gates :
        CASE g = "vc_ratio"    -> forecast.vc # "within"
          [] g = "uncertainty" -> forecast.uncertainty # "within"
          [] g = "ood"         -> forecast.ood # "within"
          [] g = "citations"   -> ~job.cited}

\* Defect: any failed gate leads to another candidate.
RefinedAfterAnyFailure(ratio, failed) ==
    LET next == IF ratio + RefineStep > MaxRatio THEN MaxRatio
                                                 ELSE ratio + RefineStep
    IN  IF next > ratio THEN next ELSE Null

\* GreenTimeRatioRefiner.refine: the next ratio, or Null.
Refined(ratio, failed) ==
    LET next == IF ratio + RefineStep > MaxRatio THEN MaxRatio
                                                 ELSE ratio + RefineStep
    IN  IF failed = {"vc_ratio"} /\ next > ratio THEN next ELSE Null

\* _node_safety once the loop has returned: checks, selected action, forecast.
LoopReturns(iterations, action, passed) ==
    /\ job' = [job EXCEPT
                 !.checks   = iterations,
                 !.selected = action,
                 !.forecast = iterations[Len(iterations)].forecast,
                 !.status   = IF passed THEN "succeeded" ELSE "needs_review"]
    /\ GoTo("routing")
    /\ current' = action

\* Defect: the last iteration refines too, and its hypothesis is reported.
ConcludeAfterRefining(iterations, failed) ==
    LET next == Refined(current, failed)
    IN  IF failed = {} \/ next = Null
          THEN LoopReturns(iterations, current, failed = {})
          ELSE IF Len(iterations) = MaxIterations
          THEN LoopReturns(iterations, next, FALSE)
          ELSE /\ current' = next
               /\ UNCHANGED <<job, node, phase>>

\* What the loop does with the iteration it has just recorded.
Conclude(iterations, failed) ==
    LET next == Refined(current, failed)
    IN  IF failed = {} \/ Len(iterations) = MaxIterations \/ next = Null
          THEN LoopReturns(iterations, current, failed = {})
          ELSE /\ current' = next
               /\ UNCHANGED <<job, node, phase>>

\* The first iteration reuses the scenario node's forecast; a refined
\* candidate is forecast anew.
Candidates ==
    IF trail = <<>>
      THEN {job.forecast}
      ELSE [action : {current}, vc : Scores, uncertainty : Scores, ood : Scores]

SafetyIteration ==
    /\ node = "safety" /\ phase = "run"
    /\ \E f \in Candidates :
          LET failed     == FailedGates(f)
              iterations == Append(trail, [action |-> current, forecast |-> f,
                                           failed |-> failed])
          IN  trail' = iterations /\ Conclude(iterations, failed)
    /\ UNCHANGED <<request, late, result>>

-----------------------------------------------------------------------------
(* Diversion routes.                                                        *)

RoutingApplies ==
    job.status = "succeeded" /\ request.incident /\ request.topology

\* Defect: routes are evaluated with the requested action.
VerdictsOfRequest(candidates, passing) ==
    {[route |-> r, action |-> request.ratio, passed |-> r \in passing] :
        r \in candidates}

\* Verdicts of evaluate_all: every candidate, with the selected action.
Verdicts(candidates, passing) ==
    {[route |-> r, action |-> job.selected, passed |-> r \in passing] :
        r \in candidates}

\* RouteSafetyGate.filter_and_rank keeps at most three passing evaluations.
Recommended(evaluations) ==
    LET passing == {e \in evaluations : e.passed}
    IN  {kept \in SUBSET passing :
            IF Cardinality(passing) <= MaxRecommended
              THEN kept = passing
              ELSE Cardinality(kept) = MaxRecommended}

\* No evaluator: review.
RoutingUnavailable ==
    /\ ~request.evaluator
    /\ job' = [job EXCEPT !.attempted = TRUE, !.status = "needs_review"]

\* The generator finds no candidate or rejects the graph (RoutingError).
NoDiversion ==
    /\ request.evaluator
    /\ job' = [job EXCEPT !.attempted = TRUE, !.status = "needs_review"]

\* Every candidate is evaluated; review when none passes.
RoutesEvaluated ==
    /\ request.evaluator
    /\ \E candidates \in (SUBSET Routes) \ {{}} : \E passing \in SUBSET candidates :
          LET evaluations == Verdicts(candidates, passing)
          IN  \E kept \in Recommended(evaluations) :
                job' = [job EXCEPT
                          !.attempted   = TRUE,
                          !.evaluations = evaluations,
                          !.recommended = kept,
                          !.status      = IF kept = {} THEN "needs_review" ELSE @]

Routing ==
    /\ node = "routing" /\ phase = "run"
    /\ IF RoutingApplies
         THEN RoutingUnavailable \/ NoDiversion \/ RoutesEvaluated
         ELSE UNCHANGED job
    /\ GoTo("deadline")
    /\ UNCHANGED <<request, late, current, trail, result>>

-----------------------------------------------------------------------------
(* Exceptions and the result.                                               *)

NodeRaises ==
    \/ Raises("baseline", job)
    \/ Raises("scenario", [job EXCEPT !.selected = request.ratio])
    \/ Raises("rag", job)
    \/ trail # <<>> /\ Raises("safety", job)
    \/ RoutingApplies /\ request.evaluator
         /\ Raises("routing", [job EXCEPT !.attempted = TRUE])

\* _finalize: the action fields follow the status; evidence is what the state
\* holds.  recommended_action carries the recommended routes, candidate_action
\* every evaluation.
Report(state) ==
    LET action == IF state.selected = Null THEN request.ratio ELSE state.selected
    IN  [status      |-> state.status,
         recommended |-> IF state.status = "succeeded" THEN action ELSE Null,
         candidate   |-> IF state.status = "needs_review" THEN action ELSE Null,
         routes      |-> CASE state.status = "succeeded"    -> state.recommended
                           [] state.status = "needs_review" -> state.evaluations
                           [] OTHER                         -> {},
         cited       |-> state.cited,
         checks      |-> state.checks,
         forecast    |-> state.forecast]

Finalize ==
    /\ node = "finalize"
    /\ result' = Report(job)
    /\ node' = "done"
    /\ UNCHANGED <<request, phase, late, job, current, trail>>

WorkNext ==
    \/ DeadlinePasses \/ CheckTimeout
    \/ Baseline \/ Scenario \/ Rag \/ SafetyIteration \/ Routing
    \/ NodeRaises \/ Finalize

WorkSpec == WorkInit /\ [][WorkNext]_workVars

-----------------------------------------------------------------------------
JobStates ==
    [status : Statuses, selected : Ratios \cup {Null},
     forecast : Forecasts \cup {Null}, cited : BOOLEAN, checks : Seq(Iterations),
     attempted : BOOLEAN, evaluations : SUBSET RouteEvaluations,
     recommended : SUBSET RouteEvaluations]

Results ==
    [status : Ended, recommended : Ratios \cup {Null},
     candidate : Ratios \cup {Null}, routes : SUBSET RouteEvaluations,
     cited : BOOLEAN, checks : Seq(Iterations), forecast : Forecasts \cup {Null}]

WorkTypeOK ==
    /\ request \in Requests
    /\ node \in Nodes /\ phase \in {"check", "run"} /\ late \in BOOLEAN
    /\ job \in JobStates
    /\ current \in Ratios /\ trail \in Seq(Iterations)
    /\ result \in Results \cup {Null}

Reported == result # Null

\* A recommended action is the very action of the last evaluation, which passed
\* every gate with legal evidence, and the forecast shown beside it is that
\* evaluation's: its scores are numbers within their thresholds.
RecommendationIsEvidenced ==
    Reported /\ result.recommended # Null =>
        LET last == result.checks[Len(result.checks)]
        IN  /\ result.cited /\ result.checks # <<>>
            /\ last.action = result.recommended /\ last.failed = {}
            /\ last.forecast = result.forecast
            /\ result.forecast = [action |-> result.recommended, vc |-> "within",
                                  uncertainty |-> "within", ood |-> "within"]

\* Routes are evidence for the action they are reported with.  A recommendation
\* for an incident on a known network names one to three of them, all passing.
RoutesBelongToAction ==
    Reported =>
        /\ \A e \in result.routes : e.action \in {result.recommended, result.candidate}
        /\ result.recommended # Null /\ request.incident /\ request.topology =>
              /\ Cardinality(result.routes) \in 1 .. MaxRecommended
              /\ \A e \in result.routes : e.passed

\* An action handed to an operator for review was evaluated: it is the action of
\* the reported forecast, never a refinement nobody has forecast.
ReviewedActionWasEvaluated ==
    Reported /\ result.candidate # Null =>
        /\ result.forecast # Null /\ result.forecast.action = result.candidate
        /\ result.checks # <<>> =>
              result.checks[Len(result.checks)].action = result.candidate

\* The loop tries at most MaxIterations candidates, each with a larger ratio than
\* the one before, and goes on only after an isolated V/C failure.
RefinementsAreIsolated ==
    /\ Len(trail) <= MaxIterations
    /\ \A i \in 1 .. Len(trail) - 1 :
          trail[i].failed = {"vc_ratio"} /\ trail[i].action < trail[i + 1].action

\* A run whose deadline passed inside any of its nodes recommends nothing.
LateNeverRecommended == Reported /\ late => result.recommended = Null

\* The deadline is passed to every tool: past it no refined candidate is sent to
\* the forecaster.  The loop does not look at the clock: a second forecast that
\* runs past the deadline is followed by a third.
NoForecastAfterDeadline ==
    [][node = "safety" /\ trail # <<>> /\ late => UNCHANGED current]_workVars

=============================================================================
