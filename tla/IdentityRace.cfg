SPECIFICATION Spec
CONSTANTS
    Emails = {e1}
    Clients = {c1, c2}
    Verifiers = {v1}
    None = None
    Requests = {r1, r2}
    InviteAllowExisting = FALSE
    Faults = {}
    CodeTTL = 0
    TokenTTL = 0
    InviteTTL = 0
    MaxTime = 1
    MaxAccounts = 2
    MaxCodes = 1
    MaxSessions = 2
    MaxKeys = 1
    MaxInvites = 1
SYMMETRY IdentitySymmetry
CHECK_DEADLOCK FALSE
INVARIANT CodeIsUsedOnce
