CONSTANTS
    Jobs = {j1, j2}
    Operators = {me, other}
    Null = Null
    TheJob = j1
    Viewers = {v1}
    MaxCuts = 2
    Me = me
    Results = {"succeeded"}
    Decisions = {"approved"}
    MaxStarts = 2
    MaxFaults = 1
    MaxBreaks = 1
    Threads = 2
    JobConcurrency = 1
    MaxDecisions = 1
SPECIFICATION PagesSpec
INVARIANTS
    EachEventOnce
    EndedAfterTerminalEvent
    FollowedJobIsSaved
    RecordedIsMine
    NothingIgnored
PROPERTIES
    EndIsSeen
    TerminalStaysShown
    EndIsShown
    AmendableContract
    ProvisionalJobEnds
CHECK_DEADLOCK FALSE
