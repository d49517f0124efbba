SPECIFICATION FairCacheSpec
CONSTANTS
    s1 = s1
    s2 = s2
    None = None
    Coroutines = {s1, s2}
    Tenants <- MCTenants
    Methods = {"GET", "POST"}
    Pieces = {"GET", "POST", ":", "?", "t", "/a", "/b"}
    Paths <- MCPaths
    Listed <- MCListed
    PluginTtl <- MCPluginTtl
    RouteTtl <- MCRouteTtl
    DefaultTtl = 1
    Cases <- MCCases
    MaxDelay = 1
    AgeCap = 4
INVARIANTS
    HitIsOwn
    StalenessBounded
PROPERTY CacheConverges
