SPECIFICATION Spec
CONSTANTS
    Browsers = {b1, b2}
    Passwords = {p1, p2}
    NoPassword = NoPassword
    Values = {v1, v2}
    Salts = {1, 2, 3, 4}
    Refs = {1, 2, 3, 4, 5, 6}
    None = None
    InviteAllowExisting = TRUE
    MaxBegun = 5
SYMMETRY AccountSymmetry
CHECK_DEADLOCK FALSE
INVARIANTS TypeOK TokenIsLastSaved KeysAreApart SecondFactorIsPassed
