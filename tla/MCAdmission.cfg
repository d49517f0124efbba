SPECIFICATION Spec
CONSTANTS
    Segments = {"", "t", "u", "users", "me", "me "}
    One = {"{id}"}
    Rest = {"{all:.*}"}
    Width <- MCWidth
    Trim <- MCTrim
    Consumers = {"c1", "c2", "c3"}
    About <- MCAbout
    Secrets = {"k1", "k2"}
    Permissions <- MCPermissions
    Scenarios <- MCScenarios
    MaxEdits = 2
INVARIANTS
    TypeOK
    RoutedToLongest
    HistoryDoesNotMatter
    TenantCutOnce
    Entitled
    NoFalseRefusal
