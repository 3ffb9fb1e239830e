SPECIFICATION Spec
CONSTANTS
    w1 = w1
    w2 = w2
    k1 = k1
    Workers = {w1, w2}
    Puzzles = {1}
    LegacyPuzzles = {}
    MinSectorSize = 1
    TargetSectors = 2
    VchunkCount <- Count1
    Perm <- Perm1
    MaxAllocProbes = 1
    MaxRun = 1
    TimeoutMinutes = 0
    Keys = {k1}
    TestRanges <- NoTestRanges
    ImportSets <- NoImports
    MaxTestChunks = 0
    NoWorker = NoWorker
    NoKey = NoKey
    NoRange = NoRange
INVARIANTS LateFoundHeard
