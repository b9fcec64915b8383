CONSTANT MaxTrainings = 3
SPECIFICATION ReleaseSpec
INVARIANTS
    LoadedMeetsGate
CHECK_DEADLOCK FALSE
