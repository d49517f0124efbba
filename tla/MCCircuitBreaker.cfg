SPECIFICATION FairSpec
CONSTANTS
    s1 = s1
    s2 = s2
    s3 = s3
    patient = patient
    hasty = hasty
    alone = alone
    shared = shared
    own = own
    Slots <- MCSlots
    Routes <- MCRoutes
    Keys <- MCKeys
    KeyOf <- MCKeyOf
    Threshold <- MCThreshold
    RecoveryTimeout <- MCRecoveryTimeout
    StreakCap = 4
INVARIANTS
    OutageIsNoticed
    OpenIsEarned
PROPERTIES
    OpenExpires
    OnlyStragglersShorten
