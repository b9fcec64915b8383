CONSTANTS
    MaxRatio = 4
    RefineStep = 1
    MaxIterations = 3
    Routes = {r1, r2, r3, r4}
    Null = Null
    Width = 3
    Height = 2
    MaxPathExpansions = 6
    MaxOdd = 1
    DearCorridors <- TwoCorridors
    Laws <- TwoLaws
    Provisions = {"Dieu1"}
    SyntheticProvisions = {"Dieu1"}
    Services = {s1, s2}
    ReadOnly = {s2}
    RetrievalLimit = 2
    MaxEdition = 2
    MaxIngests = 2
    MaxStarts = 2
    Lengths = {9, 34}
    HistorySteps = 3
    ForecastSteps = 2
    Dirs = {d1, d2}
    Root = root
    BaseImage = base
    HeldOut = held
    Pool = {new, held}
    MaxPacks = 1
    MaxBuilds = 2
SPECIFICATION PathSpec
INVARIANTS
    RecommendationIsEvidenced
    RoutesBelongToAction
    ReviewedActionWasEvaluated
    RefinementsAreIsolated
    LateNeverRecommended
    CandidatesAreCheapest
    ShownRoutesAreSafe
    EveryRouteIsShown
    EvidenceIsOwnCorpus
    GatesWereEarned
    SplitsDoNotLeak
    HeldOutStaysHeldOut
CHECK_DEADLOCK FALSE
