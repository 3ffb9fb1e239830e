SPECIFICATION Spec
CONSTANTS
    w1 = w1
    w2 = w2
    k1 = k1
    Workers = {w1, w2}
    Puzzles = {1}
    LegacyPuzzles = {}
    MinSectorSize = 1
    TargetSectors = 2
    VchunkCount <- Count2
    Perm <- Perm2
    MaxAllocProbes = 2
    MaxRun = 2
    TimeoutMinutes = 0
    Keys = {k1}
    TestRanges <- TestRangesOnOff
    ImportSets <- NoImports
    MaxTestChunks = 1
    NoWorker = NoWorker
    NoKey = NoKey
    NoRange = NoRange
SYMMETRY WorkerSymmetry
INVARIANTS LeaseShape FindingsMatchChunks OneTestChunkOut StatsAddUp LiveJobsShown
PROPERTIES ImplementsLedger FinishedIsFinal NoDirectHandover
