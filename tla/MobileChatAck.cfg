SPECIFICATION Spec
CONSTANTS
    Messages = {m1}
    Payloads = {p1}
    Deliveries = {d1, d2}
    Transports = {"http", "sse", "ws"}
    m1 = m1
    p1 = p1
    d1 = d1
    d2 = d2
    None = None
    Retention = 1
    MaxTime = 1
    MaxChunks = 1
    MaxCrashes = 0
    LongRuns = FALSE
PROPERTIES InProgressMeansExecuting
CHECK_DEADLOCK FALSE
