SPECIFICATION RestartSpec
CONSTANTS
    w1 = w1
    w2 = w2
    k1 = k1
    k2 = k2
    Workers = {w1, w2}
    Puzzles = {1}
    LegacyPuzzles = {}
    MinSectorSize = 1
    TargetSectors = 2
    VchunkCount <- Count1
    Perm <- Perm1
    MaxAllocProbes = 1
    MaxRun = 1
    TimeoutMinutes = 0
    Keys = {k1, k2}
    TestRanges <- TestRangeOn
    ImportSets <- NoImports
    MaxTestChunks = 1
    NoWorker = NoWorker
    NoKey = NoKey
    NoRange = NoRange
    MaxRestarts = 2
CONSTRAINT TwoRows
SYMMETRY WorkerSymmetry
INVARIANTS OneJobPerWorker FindingsMatchChunks BingoOnlyCommitted
PROPERTIES ResultsSurviveRestart
