CONSTANTS
    MaxRatio = 4
    RefineStep = 1
    MaxIterations = 3
    Routes = {r1}
    Null = Null
SPECIFICATION WorkSpec
PROPERTIES
    NoForecastAfterDeadline
CHECK_DEADLOCK FALSE
