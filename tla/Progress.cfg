SPECIFICATION ProgressSpec
CONSTANTS
    w1 = w1
    w2 = w2
    k1 = k1
    Workers = {w1, w2}
    Puzzles = {1}
    LegacyPuzzles = {}
    MinSectorSize = 1
    TargetSectors = 2
    VchunkCount <- Count2
    Perm <- Perm2
    MaxAllocProbes = 2
    MaxRun = 2
    TimeoutMinutes = 0
    Keys = {k1}
    TestRanges <- NoTestRanges
    ImportSets <- ImportsSome
    MaxTestChunks = 0
    NoWorker = NoWorker
    NoKey = NoKey
    NoRange = NoRange
    Survivors = {w1}
PROPERTIES EventuallyCovered StaleRowsEnd
