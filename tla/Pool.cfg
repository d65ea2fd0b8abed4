SPECIFICATION FairSpec
CONSTANTS
    Procs = {p1, p2}
    Spawners = {s1, s2}
    Handlers = {h1, h2}
    Kinds <- ThreeShapes
    NoProc = NoProc
    MinPoolSize = 1
    MaxPoolSize = 1
    SpawnSlots = 1
    MaxSpawnAttempts = 2
    SimpleCommand = FALSE
    MaxCalls = 2
    MaxResets = 1
CHECK_DEADLOCK FALSE
INVARIANTS ExclusiveUse SpawnersSendOnOpenChannel NoOrphans
PROPERTIES ShutdownFinishes RetriesSettle CallsFinish
