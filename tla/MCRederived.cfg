CONSTANTS
    Dirs = {d1, d2}
    Root = root
    BaseImage = base
    HeldOut = held
    Pool = {first, second}
    MaxPacks = 1
    MaxBuilds = 2
SPECIFICATION VisionSpec
INVARIANT RecordsHaveOwnFiles
CHECK_DEADLOCK FALSE
