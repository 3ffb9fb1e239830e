SPECIFICATION MigrationSpec
CONSTANT MaxStarts = 2
INVARIANT UpgradesEveryDatabase
CHECK_DEADLOCK FALSE
