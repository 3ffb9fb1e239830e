SPECIFICATION Spec
CONSTRAINT FourRows
CONSTANTS
    w1 = w1
    Workers = {w1}
    Puzzles = {1, 2}
    LegacyPuzzles = {2}
    MinSectorSize = 1
    TargetSectors = 2
    VchunkCount <- CountFiveThree
    Perm <- PermFiveThree
    MaxAllocProbes = 4
    MaxRun = 2
    TimeoutMinutes = 0
    Keys = {}
    TestRanges <- NoTestRanges
    ImportSets <- ImportsInnerAll
    MaxTestChunks = 0
    NoWorker = NoWorker
    NoKey = NoKey
    NoRange = NoRange
INVARIANTS TypeOK NoDoubleIssue JobsInsideKeyspace OneJobPerWorker StageCountsJobs ExhaustedMeansSearched SectorsFree
PROPERTIES FreshJobsAvoidBlocked
