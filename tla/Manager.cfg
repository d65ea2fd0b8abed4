SPECIFICATION FairSpec
CONSTANTS
    Backends = {b1}
    Users = {u1, u2}
    Envs = {e1, e2}
    Pools = {p1, p2, p3}
    NoPool = NoPool
    Callers = {c1, c2}
    Sweeps <- AllSweeps
    MaxGets = 3
    MaxSweeps = 1
    Pages = {g1}
    MaxReports = 1
CHECK_DEADLOCK FALSE
INVARIANTS OwnPool MappedIsOpen LostOnlyToNewEnvironment
PROPERTY GetReturns
