CONSTANTS
    Parts = {"jobs", "detector", "scores", "board", "hermes"}
    Jobs = {j1}
    Operators = {o1}
    Apis = {a1}
    Workers = {w1, w2}
    Clients = {a1, w1, w2}
    Null = Null
    MaxDeaths = 1
    MaxFaults = 1
    MaxRedeliveries = 1
    MaxTrainings = 3
    s1 = s1
    s2 = s2
    l1 = l1
    Seeds = {s1, s2}
    Mentions <- Naming
    ItemLabels <- Labelling
    ItemState <- Staging
    States = {"Backlog", "Todo"}
    Page = 2
    Edited = Edited
    MaxCreates = 3
    Tickets = {t1, t2}
    onlyA = onlyA
    onlyB = onlyB
    eitherFile = eitherFile
    anyFile = anyFile
    fileA = fileA
    fileB = fileB
    Files = {fileA, fileB}
    Patterns <- SomePatterns
    Matched <- FilesMatched
    Wild = {anyFile}
    Bracketed = {eitherFile}
    Related <- SamePath
    Packets <- WithoutBrackets
    MaxPackets = 3
    Labelled <- SomeLabels
    Detected <- SomeDetections
    Threshold <- AtHalf
    Side = 6
    MinArea = 2
    Scale = 6
    MaxLabels = 2
    MaxDetected = 3
SYMMETRY PartsSymmetry
SPECIFICATION PartsSpec
INVARIANTS
    SoleExecutor
    ExecutorHoldsLock
    ApprovedOnlySucceeded
    ReplyIsRecorded
    LiveJobIsCarried
    LoadedWasReleased
    ErrorsAreExplained
    FullScoreIsEarned
    OneIssuePerSeed
    ReviewedWorkIsDisjoint
CHECK_DEADLOCK FALSE
