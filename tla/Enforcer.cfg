SPECIFICATION FairSpec
CONSTANTS
    Callers = {c1}
    Admins = {a1}
    Policies = {p1, p2}
    Tools = {"t1", "t2"}
    Bodies <- SmallBodies
    None = None
    Backend = "backend"
    Profiles <- SmallProfiles
    MaxEdits = 1
INVARIANTS MostRestrictiveWins 
PROPERTY EditTakesEffect
