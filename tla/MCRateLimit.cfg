SPECIFICATION Spec
CONSTANTS
    r1 = r1
    r2 = r2
    r3 = r3
    r4 = r4
    r5 = r5
    alice = alice
    nobody = nobody
    Requests = {r1, r2, r3, r4, r5}
    NoConsumer = nobody
    ConsumerOf <- MCConsumerOf
    TagsOf <- MCTagsOf
    ByConsumer = TRUE
    BaseConfig <- MCBase
    ConsumerLimits <- MCConsumerLimits
    TagLimits <- MCTagLimits
    Start = 20
    Horizon = 22
    MaxDelay = 1
    MaxRepeats = 1
SYMMETRY Alike
INVARIANTS AtMostLimit RefusedOnlyOverLimit NoOrphanCounter
CHECK_DEADLOCK FALSE
