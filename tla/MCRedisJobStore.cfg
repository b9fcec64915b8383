CONSTANTS
    Jobs = {j1}
    Operators = {o1}
    Clients = {c1, c2}
    Null = Null
SYMMETRY Symmetry
SPECIFICATION StoreSpec
INVARIANTS
    StoreTypeOK
    SequenceNumbersLog
    LogTellsOutcome
    CleanReadIsCurrent
    UnlockIsOwn
PROPERTIES
    ContractSpec
    OutcomeIsFinal
