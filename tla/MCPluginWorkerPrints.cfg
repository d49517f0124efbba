SPECIFICATION WorkerSpec
CONSTANTS
    c1 = c1
    c2 = c2
    c3 = c3
    Nobody = Nobody
    Calls = {c1, c2, c3}
    Prints = TRUE
CHECK_DEADLOCK FALSE
INVARIANT PassedWasApproved
