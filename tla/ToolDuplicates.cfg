SPECIFICATION ToolSpec
CONSTANTS
    c1 = c1
    c2 = c2
    Calls = {c1, c2}
    Keys = {"verified", "blind", "read"}
    Args = {"args", "other"}
    Workloads <- MCWorkloads
    Mutations = {"verified", "blind"}
    Verifiable = {"verified"}
    Sensitive = {"blind"}
    NoVerdict = NoVerdict
INVARIANT AtMostOneWrite
CHECK_DEADLOCK FALSE
