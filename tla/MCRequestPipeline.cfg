SPECIFICATION Spec
CONSTANTS
    q1 = q1
    Requests = {q1}
    Types <- MCTypes
    Lists <- MCLists
    CacheTypes = {"cache"}
    AfterRaises = {"plugin_error", "exception"}
    Registered <- MCRegistered
    Reloads <- MCReloads
    MaxUpstream = 3
CHECK_DEADLOCK FALSE
INVARIANTS
    NoneBypassed
    RefusedGoesNoFurther
    HooksOrdered
    AccountedOnce
PROPERTY KeepsContract
