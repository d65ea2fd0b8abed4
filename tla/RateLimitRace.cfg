SPECIFICATION Spec
CONSTANTS
    Callers = {c1, c2}
    Ticker = Ticker
    Second = 2
    Minute = 2
    DefaultConfig <- SmallBuckets
    Forms <- SubmittedForms
    FormDefaults <- LargeBuckets
    Profiles <- CheapProfiles
    InferredCostMultiplier = 3
    Interleaved = TRUE
    MaxTime = 8
    MaxCalls = 2
    MaxAdmin = 0
    MaxRestarts = 0
    MaxSaves = 1
CHECK_DEADLOCK FALSE
INVARIANT WithinBudget
