SPECIFICATION StatusSpec
CONSTANTS
    h1 = h1
    w1 = w1
    w2 = w2
    a1 = a1
    null = null
    Names <- MCNames
    CanonicalName <- MCCanonicalName
    Addresses = {a1}
    Workers = {w1, w2}
    Keys = {1, 2}
    Configs <- MCConfigs
    Handlers = {h1}
    NoTarget = null
    MaxPuzzles = 2
    MaxFindings = 2
    MaxClock = 1
INVARIANTS
    SolvedMeansFound
    ShownWasTrue
    UnconfiguredShowsNothing
PROPERTY
    SolvedForGood
