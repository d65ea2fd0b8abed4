SPECIFICATION FairSpec
CONSTANTS
    Admins = {a1}
    Workers = {w1, w2}
    Listers = {w2}
    None = None
    MaxVersion = 2
    MaxRestarts = 1
CHECK_DEADLOCK FALSE
INVARIANTS UncachedIsExplained
PROPERTIES CacheCatchesUp UnavailableRecovers
