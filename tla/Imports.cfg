SPECIFICATION BlockedSpec
CONSTANTS
    here = here
    there = there
    Sources = {here, there}
    PuzzleStart = 2
    PuzzleEnd = 11
    VchunkSize = 2
    Bases = {0, 1}
    Steps = {1, 3}
    RangeIds = {0, 1, 2, 3, 4, 6, 9}
    MaxIds = 2
SYMMETRY SourceSymmetry
INVARIANTS BlocksExactly RowsApart IndexExact CountedOnce
PROPERTIES ReimportChangesNothing
