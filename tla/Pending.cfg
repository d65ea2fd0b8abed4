SPECIFICATION FairRegistrySpec
CONSTANTS
    Requests = {r1, r2}
    Ids = {i1, i2}
    NoRequest = NoRequest
    RegisterTicks = 1
    Timeouts <- TwoTimeouts
    BroadcastCap = 1
CHECK_DEADLOCK FALSE
INVARIANTS RegisteredIsOpen OwnAnswer
PROPERTIES RequestsEnd RegistryDrains
