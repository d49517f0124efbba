SPECIFICATION Spec
CONSTANTS
    r1 = r1
    r2 = r2
    p = p
    q = q
    Ids = {r1, r2}
    Methods = {"GET", "POST"}
    Paths = {p, q}
    MethodSets <- MCMethodSets
    Tenanted = {r1, r2}
    AppEnv = "prd"
    EventEnvs = {""}
    OurEnvs = {""}
    EventTenants = {TRUE}
    Habits = {"early"}
    Initial <- MCApart
    MaxWrites = 1
    MaxQueue = 2
CHECK_DEADLOCK FALSE
INVARIANT TableFollowsStore
