SPECIFICATION RegistrySpec
CONSTANTS
    Requests <- Bodies
    Fallback <- FallbackPuzzle
    DefaultSize = 2
    Strategy = "virtual_random_chunks_v1"
    Configs <- AllConfigs
    MaxPuzzles = 3
INVARIANTS OneActive AllSeeded
PROPERTIES ActiveSurvivesStart JobsKeepTheirUnits BlockedKeepTheirUnits
