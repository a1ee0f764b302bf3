CONSTANTS
    i1 = i1  i2 = i2
    Instances = {i1, i2}
    Releases = {1, 2}
    MaxStarts = 6
SPECIFICATION SvSpec
SYMMETRY Symmetric
INVARIANTS StTypeOK SvTypeOK ServingIsMigrated RecordedIsCreated HalfwayHasWorker MigrateIsRepeatable HandlersFindTheKey
CHECK_DEADLOCK FALSE
