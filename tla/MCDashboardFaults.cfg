CONSTANTS
    Jobs = {j1, j2}
    Operators = {me, other}
    Null = Null
    Me = me
    Results = {"succeeded"}
    Decisions = {"approved"}
    MaxStarts = 1
    MaxFaults = 1
    MaxBreaks = 0
SPECIFICATION FairDashSpec
PROPERTIES
    EndIsShownDespiteFaults
CHECK_DEADLOCK FALSE
