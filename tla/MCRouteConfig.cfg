SPECIFICATION FairSpec
CONSTANTS
    r1 = r1
    r2 = r2
    p = p
    q = q
    Ids = {r1, r2}
    Methods = {"GET", "POST"}
    Paths = {p, q}
    MethodSets <- MCMethodSets
    Tenanted = {r1}
    AppEnv = "prd"
    EventEnvs = {"prod", "staging"}
    OurEnvs = {"prod"}
    EventTenants = {TRUE, FALSE}
    Habits = {"early", "drop_key", "remove_first", "announce_first", "faults"}
    Initial <- MCInitial
    MaxWrites = 2
    MaxQueue = 1
CHECK_DEADLOCK FALSE
INVARIANTS
    AnnouncedRoutesServed
PROPERTIES
    NoVersionRegression
    UnchangedRoutesStay
    TableConverges
