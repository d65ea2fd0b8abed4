SPECIFICATION FairSpec
CONSTANTS
    Admins = {a1, a2}
    Callers = {c1}
    Users = {u1, u2}
    Admin = Admin
    Values = {v1, v2, v3}
    Incomplete = {v3}
    None = None
    MaxEdits = 2
    MaxRestarts = 1
CHECK_DEADLOCK FALSE
INVARIANTS MapFollowsTable NoOverridePassedOver
PROPERTY StoredComesIntoForce
