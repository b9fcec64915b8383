CONSTANTS
    Jobs = {j1}
    Operators = {o1, o2}
    Apis = {a1, a2}
    Workers = {w1}
    Clients = {a1, a2, w1}
    Null = Null
    MaxDeaths = 0
    MaxFaults = 0
    MaxRedeliveries = 0
SYMMETRY Symmetry
SPECIFICATION ExecSpec
INVARIANT
    ReplyIsRecorded
