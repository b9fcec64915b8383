------------------------------- MODULE Routing -------------------------------
(***************************************************************************)
(* The routing node of the workflow and what the page makes of its result: *)
(* path search around an incident (routing.py), evaluation and ranking     *)
(* (route_evaluation.py), the network impact grid (network_impact.py) and  *)
(* the view models of dashboard-state.js.                                  *)
(*                                                                         *)
(* A topology is a grid of nodes with two-way corridors (network_topology  *)
(* .py demands one of 5 x 4); an edge is the pair of its ends.  What the   *)
(* forecaster says of a node is one of a few kinds; every node has one     *)
(* kind, the same for each candidate.                                      *)
(***************************************************************************)
EXTENDS Integers, Sequences, FiniteSets, SequencesExt

CONSTANTS
    Width, Height,       \* the grid
    MaxPathExpansions,   \* max_path_expansions of the search
    MaxOdd,              \* bound: nodes whose forecast is not "clear"
    DearCorridors        \* bound: the corridors that may be dear

ASSUME RoutingAssumption ==
    {Width, Height, MaxPathExpansions} \subseteq Nat \ {0} /\ MaxOdd \in Nat

VARIABLES
    stage,        \* how far the analysis has come
    net,          \* the topology: edges, the dear ones, and whether its
                  \* version is the expected one
    incident,     \* the affected node: the project contract allows one
    traffic,      \* traffic[n]: what the forecaster says of node n
    unsearched,   \* pairs of ends that the generator has not come to
    ends,         \* the ends of the search in progress
    pending,      \* its heap: paths from the entry
    expansions,   \* paths it has taken from the heap
    paths,        \* the cheapest path of every pair that has one
    candidates,   \* candidates, in order
    evaluations,  \* their evaluations, in the same order
    recommended,  \* the ranked recommendations
    outcome,      \* status of the job
    view          \* what the page shows

searchVars == <<unsearched, ends, pending, expansions, paths>>
routeVars == <<stage, net, incident, traffic, searchVars, candidates, evaluations,
               recommended, outcome, view>>

Grid == 0 .. Width * Height - 1

Adjacent(a, b) ==
    LET gap(m, n) == IF m > n THEN m - n ELSE n - m
    IN  gap(a % Width, b % Width) + gap(a \div Width, b \div Width) = 1

Corridors == {{a, b} : a \in Grid, b \in Grid} \cap
             {c \in SUBSET Grid : Cardinality(c) = 2 /\ \A a, b \in c : a # b => Adjacent(a, b)}

Kinds == {"clear", "slow", "stopped", "congested", "unsure", "missing", "stale", "nan"}

NoView == [routes |-> <<>>, malformed |-> FALSE, rows |-> {}, scope |-> {}]

RouteInit ==
    /\ stage = "idle"
    /\ net = [edges |-> {}, dear |-> {}, expected |-> TRUE]
    /\ incident = 0
    /\ traffic = [n \in Grid |-> "clear"]
    /\ unsearched = {} /\ ends = <<>>
    /\ pending = {} /\ expansions = 0 /\ paths = {}
    /\ candidates = <<>> /\ evaluations = <<>> /\ recommended = <<>>
    /\ outcome = "succeeded"
    /\ view = NoView

\* A job reaches the routing node, with the topology of this deployment.
Arrive ==
    /\ stage = "idle"
    /\ \E edges \in SUBSET Corridors, dear \in SUBSET DearCorridors, expected \in BOOLEAN :
          net' = [edges |-> edges, dear |-> dear, expected |-> expected]
    /\ incident' \in Grid
    /\ stage' = "arrived"
    /\ UNCHANGED <<traffic, searchVars, candidates, evaluations, recommended,
                   outcome, view>>

-----------------------------------------------------------------------------
\* The generator.

Joined(a, b) == {a, b} \in net.edges

\* _reachable, from every node.
Reachable(from) ==
    LET grow[k \in Nat] ==
          IF k = 0 THEN {from}
          ELSE LET known == grow[k - 1]
               IN  known \cup {n \in Grid : \E m \in known : Joined(m, n)}
    IN  grow[Cardinality(Grid)]

\* validate_topology, of a grid whose corridors are two-way.
ValidTopology == \A n \in Grid : Reachable(n) = Grid

\* A corridor costs 1, a dear one 4.
DearSteps(path) ==
    {i \in 1 .. Len(path) - 1 : {path[i], path[i + 1]} \in net.dear}

PathCost(path) == Len(path) - 1 + 3 * Cardinality(DearSteps(path))

\* Python compares tuples lexicographically.
LexLess(s, t) ==
    \/ IsStrictPrefix(s, t)
    \/ \E i \in 1 .. Len(s) :
          /\ i <= Len(t) /\ s[i] < t[i]
          /\ \A k \in 1 .. i - 1 : s[k] = t[k]

\* Defect: the costs of the corridors are not counted.
ShorterPath(p, q) == LexLess(<<Len(p)>> \o p, <<Len(q)>> \o q)

CheaperPath(p, q) == LexLess(<<PathCost(p)>> \o p, <<PathCost(q)>> \o q)

Extensions(path) ==
    {Append(path, n) : n \in {m \in Grid \ {incident} :
        Joined(path[Len(path)], m) /\ m \notin Range(path)}}

Boundary(node) == {n \in Grid : Joined(n, node)}

\* Every two neighbours of the incident, as entry and exit.
Crossings == {e \in Boundary(incident) \X Boundary(incident) : e[1] # e[2]}

NeedsReview ==
    /\ outcome' = "needs_review"
    /\ stage' = "reported"
    /\ UNCHANGED <<candidates, evaluations, recommended>>

\* generate: a topology that is not valid, or not the expected one, is a RoutingError,
\* for which the job needs review.
Generate ==
    /\ stage = "arrived"
    /\ IF ~ ValidTopology \/ ~ net.expected
       THEN NeedsReview /\ UNCHANGED unsearched
       ELSE /\ unsearched' = Crossings
            /\ stage' = "searching"
            /\ UNCHANGED <<candidates, evaluations, recommended, outcome>>
    /\ UNCHANGED <<net, incident, traffic, ends, pending, expansions, paths, view>>

\* The next entry and exit, in the order of their names.
SearchNext ==
    /\ stage = "searching" /\ pending = {}
    /\ \E next \in unsearched :
          /\ \A other \in unsearched \ {next} : LexLess(next, other)
          /\ unsearched' = unsearched \ {next}
          /\ ends' = next
          /\ pending' = {<<next[1]>>}
    /\ expansions' = 0
    /\ UNCHANGED <<stage, net, incident, traffic, paths, candidates, evaluations,
                   recommended, outcome, view>>

\* _shortest_simple_path: the cheapest pending path is the one looked for if it ends
\* in the exit, and is extended by every corridor otherwise.
Expand ==
    /\ stage = "searching" /\ expansions < MaxPathExpansions
    /\ \E best \in pending :
          /\ \A q \in pending \ {best} : CheaperPath(best, q)
          /\ IF best[Len(best)] = ends[2]
             THEN pending' = {} /\ paths' = paths \cup {best}
             ELSE /\ pending' = (pending \ {best}) \cup Extensions(best)
                  /\ UNCHANGED paths
    /\ expansions' = expansions + 1
    /\ UNCHANGED <<stage, net, incident, traffic, unsearched, ends, candidates,
                   evaluations, recommended, outcome, view>>

\* RoutingError: the budget of expansions is used up.
BudgetExceeded ==
    /\ stage = "searching" /\ pending # {} /\ expansions = MaxPathExpansions
    /\ NeedsReview
    /\ UNCHANGED <<net, incident, traffic, searchVars, view>>

\* By cost, distance, number of nodes, ends, nodes.
Before(p, q) ==
    LET key(path) == <<PathCost(path), Len(path) - 1, Len(path),
                       path[1], path[Len(path)]>> \o path
    IN  LexLess(key(p), key(q))

\* The paths in that order, or the first three of them.
Shortlists ==
    {c \in SeqOf(paths, 3) :
        /\ Len(c) = 3 \/ Range(c) = paths
        /\ \A i, k \in DOMAIN c : i < k => Before(c[i], c[k])
        /\ \A i \in DOMAIN c, p \in paths \ Range(c) : Before(c[i], p)}

\* Every pair has been searched; without a candidate the job needs review.
Shortlist ==
    /\ stage = "searching" /\ pending = {} /\ unsearched = {}
    /\ IF paths = {}
       THEN NeedsReview
       ELSE /\ candidates' \in Shortlists
            /\ stage' = "generated"
            /\ UNCHANGED <<evaluations, recommended, outcome>>
    /\ UNCHANGED <<net, incident, traffic, searchVars, view>>

-----------------------------------------------------------------------------
\* The evaluator.

OnRoute(path, kind) == \E n \in Range(path) : traffic[n] = kind

\* _path_is_valid.
PathIsValid(path) ==
    /\ Range(path) \subseteq Grid
    /\ incident \notin Range(path)
    /\ \A i \in 1 .. Len(path) - 1 : Joined(path[i], path[i + 1])

\* Defect: the versions of the forecast are not compared.
EvidenceOfAnyVersion(path) ==
    /\ PathIsValid(path)
    /\ \A kind \in {"missing", "nan"} : ~ OnRoute(path, kind)

\* Every node forecast for every horizon, by the expected versions, in numbers.
EvidenceComplete(path) ==
    /\ PathIsValid(path)
    /\ \A kind \in {"missing", "stale", "nan"} : ~ OnRoute(path, kind)

\* _travel_time_proxy: hops at the forecast speed, two at a slow node; zero
\* without a forecast, and also when the forecast says that nothing moves.
DelayProxy(path) ==
    LET targets == Tail(path)
        of(kinds) == {i \in 1 .. Len(targets) : traffic[targets[i]] \in kinds}
    IN  IF of({"missing", "stopped"}) # {} THEN 0
        ELSE Len(targets) + Cardinality(of({"slow"}))

\* _evaluate_one.
Evaluated(path) ==
    [path     |-> path,
     complete |-> EvidenceComplete(path),
     delay    |-> DelayProxy(path),
     reasons  |-> {r \in {"invalid_path", "missing_evidence", "high_vc_ratio", "high_uncertainty"} :
                     CASE r = "invalid_path"     -> ~ PathIsValid(path)
                       [] r = "missing_evidence" -> ~ EvidenceComplete(path)
                       [] r = "high_vc_ratio"    -> OnRoute(path, "congested")
                       [] r = "high_uncertainty" -> OnRoute(path, "unsure")}]

Passed(e) == e.reasons = {}

\* predict_route for the candidates.
Forecast ==
    /\ stage = "generated"
    /\ \E odd \in {s \in SUBSET Grid : Cardinality(s) <= MaxOdd}, kind \in Kinds :
          traffic' = [n \in Grid |-> IF n \in odd THEN kind ELSE "clear"]
    /\ stage' = "forecast"
    /\ UNCHANGED <<net, incident, searchVars, candidates, evaluations, recommended,
                   outcome, view>>

\* max() forgets a NaN that does not come first, the mean never does: the
\* evaluation then holds no finite number and the job fails.
EvaluationRaises ==
    /\ stage = "forecast"
    /\ \E i \in 1 .. Len(candidates) : OnRoute(candidates[i], "nan")
    /\ outcome' = "failed"
    /\ stage' = "reported"
    /\ UNCHANGED <<net, incident, traffic, searchVars, candidates, evaluations,
                   recommended, view>>

\* Of these, RouteSafetyGate.filter_and_rank makes the recommendations, in order.
Eligible(evals) == {e \in Range(evals) : Passed(e) /\ e.complete}

InOrder(order) ==
    LET key(e) == <<e.delay, PathCost(e.path), Len(e.path)>> \o e.path
    IN  \A i, k \in DOMAIN order : i < k => LexLess(key(order[i]), key(order[k]))

FirstOf(n, seq) == [i \in {k \in DOMAIN seq : k <= n} |-> seq[i]]

\* evaluate_all and filter_and_rank.
Evaluate ==
    /\ stage = "forecast"
    /\ evaluations' = [i \in 1 .. Len(candidates) |-> Evaluated(candidates[i])]
    /\ \E order \in SetToSeqs(Eligible(evaluations')) :
          InOrder(order) /\ recommended' = FirstOf(3, order)
    /\ outcome' = IF recommended' = <<>> THEN "needs_review" ELSE outcome
    /\ stage' = "reported"
    /\ UNCHANGED <<net, incident, traffic, searchVars, candidates, view>>

-----------------------------------------------------------------------------
\* Impact evidence and the page.

\* build_network_impact: one row for every node of the topology, when each was
\* forecast; otherwise the orchestrator reports no impact.
Role(n) ==
    CASE n = incident -> "incident"
      [] n # incident /\ Joined(incident, n) -> "adjacent"
      [] OTHER -> "network"

ImpactRows(requested) ==
    IF requested = Grid THEN {[node |-> n, role |-> Role(n)] : n \in Grid} ELSE {}

\* deriveNetworkImpactViewModel: one row outside the operator's scope hides all.
ImpactShown(rows, scope) ==
    IF outcome # "failed" /\ \A row \in rows : row.node \in scope THEN rows ELSE {}

\* isValidRoute.
ValidRoute(path) == Len(path) >= 2 /\ IsInjective(path) /\ PathCost(path) > 0

\* Defect: a delay of zero counts as missing.
ValidIfDelayed(e) ==
    /\ ValidRoute(e.path) /\ e.delay > 0
    /\ Passed(e) => e.complete

\* isValidEvaluation.
ValidEvaluation(e) ==
    /\ ValidRoute(e.path) /\ e.delay >= 0
    /\ Passed(e) => e.complete

\* deriveRouteViewModel: recommendations of a succeeded job, rejected candidates
\* of one that needs review; an empty list counts as malformed.
RoutesShown ==
    LET raw == IF outcome = "succeeded" THEN recommended ELSE evaluations
        ok  == /\ raw # <<>> /\ Len(raw) <= 3
               /\ \A e \in Range(raw) : ValidEvaluation(e)
                     /\ Passed(e) = (outcome = "succeeded")
    IN  IF outcome = "failed" THEN [routes |-> <<>>, malformed |-> FALSE]
        ELSE [routes |-> IF ok THEN raw ELSE <<>>, malformed |-> ~ ok]

Show ==
    /\ stage = "reported"
    /\ \E requested, scope \in {Grid, Grid \ {0}} :
          view' = [routes    |-> RoutesShown.routes,
                   malformed |-> RoutesShown.malformed,
                   rows      |-> ImpactShown(ImpactRows(requested), scope),
                   scope     |-> scope]
    /\ stage' = "shown"
    /\ UNCHANGED <<net, incident, traffic, searchVars, candidates, evaluations,
                   recommended, outcome>>

RouteNext ==
    \/ Arrive
    \/ Generate \/ SearchNext \/ Expand \/ BudgetExceeded \/ Shortlist
    \/ Forecast \/ EvaluationRaises \/ Evaluate
    \/ Show

RouteSpec == RouteInit /\ [][RouteNext]_routeVars

-----------------------------------------------------------------------------
\* The simple paths of the grid, for every two ends.
SimplePaths ==
    [e \in Grid \X Grid |->
       {p \in SeqOf(Grid, Cardinality(Grid)) :
           p # <<>> /\ p[1] = e[1] /\ p[Len(p)] = e[2] /\ IsInjective(p)}]

\* A path avoids the incident and uses corridors of the network.
GoesAround(path) ==
    /\ incident \notin Range(path)
    /\ \A k \in 1 .. Len(path) - 1 : Joined(path[k], path[k + 1])

Detours(entry, exit) == {p \in SimplePaths[<<entry, exit>>] : GoesAround(p)}

\* Every candidate is a detour between two neighbours of the incident, and no other
\* detour between the two is cheaper, although the search looks at one end only; no
\* two neighbours with a detour are left out, but for three candidates that are no
\* dearer.
CandidatesAreCheapest ==
    stage = "generated" =>
        /\ \A c \in Range(candidates) :
              /\ <<c[1], c[Len(c)]>> \in Crossings
              /\ GoesAround(c) /\ IsInjective(c)
              /\ \A d \in Detours(c[1], c[Len(c)]) : PathCost(c) <= PathCost(d)
        /\ \A e \in Crossings :
              \/ \E c \in Range(candidates) : c[1] = e[1] /\ c[Len(c)] = e[2]
              \/ Detours(e[1], e[2]) = {}
              \/ /\ Len(candidates) = 3
                 /\ \A c \in Range(candidates), d \in Detours(e[1], e[2]) :
                       PathCost(c) <= PathCost(d)

Quiet == {"clear", "slow", "stopped"}

\* It also has complete forecasts within the thresholds.
SafePath(path) == GoesAround(path) /\ \A n \in Range(path) : traffic[n] \in Quiet

\* What the page shows of a succeeded job are safe paths, whatever the search, the
\* forecaster and the ranking did, and no row of the impact that is outside the
\* operator's scope.
ShownRoutesAreSafe ==
    stage = "shown" =>
        /\ outcome = "succeeded" =>
              recommended # <<>> /\ \A e \in Range(view.routes) : SafePath(e.path)
        /\ \A row \in view.rows : row.node \in view.scope

\* The page takes no recommendation of a succeeded job for malformed, and no rejected
\* candidate of one that needs review.
EveryRouteIsShown ==
    stage = "shown" /\ evaluations # <<>> =>
        view.routes = IF outcome = "succeeded" THEN recommended ELSE evaluations

=============================================================================
