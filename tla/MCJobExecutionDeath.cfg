CONSTANTS
    Jobs = {j1}
    Operators = {o1}
    Apis = {a1}
    Workers = {w1, w2}
    Clients = {a1, w1, w2}
    Null = Null
    MaxDeaths = 1
    MaxFaults = 0
    MaxRedeliveries = 0
SPECIFICATION FairExecSpec
PROPERTIES
    StartedJobEnds
CHECK_DEADLOCK FALSE
