SPECIFICATION CacheSpec
CONSTANTS
    w1 = w1
    r1 = r1
    heatmap = heatmap
    hilbert = hilbert
    Workers = {w1}
    Puzzles = {1, 2}
    LegacyPuzzles = {}
    MinSectorSize = 1
    TargetSectors = 2
    VchunkCount <- Count1
    Perm <- Perm1
    MaxAllocProbes = 1
    MaxRun = 1
    TimeoutMinutes = 0
    Keys = {}
    TestRanges <- NoTestRanges
    ImportSets <- ImportsSome
    MaxTestChunks = 0
    NoWorker = NoWorker
    NoKey = NoKey
    NoRange = NoRange
    Readers = {r1}
    Views = {heatmap, hilbert}
    NoView = NoView
    MaxRevision = 4
INVARIANTS ServedSinceInvalidation
