SPECIFICATION Spec
CONSTANTS
    Callers = {c1}
    Ticker = Ticker
    Second = 2
    Minute = 2
    DefaultConfig <- SmallBuckets
    Forms <- SubmittedForms
    FormDefaults <- LargeBuckets
    Profiles <- OneProfile
    InferredCostMultiplier = 2
    Interleaved = FALSE
    MaxTime = 8
    MaxCalls = 2
    MaxAdmin = 1
    MaxRestarts = 1
    MaxSaves = 1
CHECK_DEADLOCK FALSE
INVARIANTS TypeOK WithinBudget RefillKeepsUp
