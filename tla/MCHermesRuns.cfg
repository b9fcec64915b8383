CONSTANTS
    Tickets = {t1, t2}
    onlyA = onlyA
    onlyB = onlyB
    eitherFile = eitherFile
    anyFile = anyFile
    fileA = fileA
    fileB = fileB
    Files = {fileA, fileB}
    Patterns <- SomePatterns
    Matched <- FilesMatched
    Wild = {anyFile}
    Bracketed = {eitherFile}
    Related <- SamePath
    Packets <- OnePattern
    MaxPackets = 2
SPECIFICATION HermesSpec
INVARIANTS
    BatchPresentsDisjointFiles
CHECK_DEADLOCK FALSE
