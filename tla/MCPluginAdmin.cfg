SPECIFICATION Spec
CONSTANTS
    s1 = s1
    s2 = s2
    s3 = s3
    l1 = l1
    l2 = l2
    l3 = l3
    Types = {"audit", "signer"}
    ForwardTypes = {"signer"}
    Savers = {s1, s2, s3}
    Reloaders = {l1, l2, l3}
SYMMETRY Alike
INVARIANTS OneDocPerType SavedIsServed
CHECK_DEADLOCK FALSE
