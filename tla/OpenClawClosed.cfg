SPECIFICATION OcSpec
CONSTANTS
    Users = {u1, u2}
    Workers = {w1, w2}
    MaxOutages = 2
    Nobody = Nobody
INVARIANT ClosedForGood
CHECK_DEADLOCK FALSE
