SPECIFICATION FairQueueSpec
CONSTANTS
    Approvals = {a1}
    Deciders = {d1, d2}
    NoApproval = NoApproval
    UserApprovalTimeout = 0
    AdminApprovalTimeout = 0
    ApprovalTimeout = 2
    DefaultUserTimeout = 1
    RetentionPeriod = 1
    HasExecutor = TRUE
    MaxTime = 4
    MaxRestarts = 1
CHECK_DEADLOCK FALSE
INVARIANTS ExecutionsAreGranted
PROPERTIES ImplementsLifecycle OverdueSettles ExecutingEnds
