SPECIFICATION ConversationSpec
CONSTANTS
    m1 = m1
    m2 = m2
    d1 = d1
    d2 = d2
    d3 = d3
    original = original
    changed = changed
    Messages = {m1, m2}
    Payloads = {original, changed}
    Deliveries = {d1, d2, d3}
    Transports = {"http", "sse", "ws"}
    None = None
    Retention = 1
    MaxTime = 2
    MaxChunks = 2
    MaxCrashes = 1
    LongRuns = FALSE
    N = 4
    Resources = {"k", "l", "m", "n"}
    Plans <- MCPlans
    MaxParallelReads = 2
    NoRecord = NoRecord
    p1 = p1
    p2 = p2
    Procs = {p1, p2}
    Timers = {"timer"}
    Alarms = {"alarm"}
    Day = 1
    Span = 1
    Horizon = 2
    MaxRounds = 2
    MaxFaults = 1
    MaxStops = 1
    Nil = Nil
    u1 = u1
    u2 = u2
    Users = {u1, u2}
    w1 = w1
    w2 = w2
    Workers = {w1, w2}
    MaxOutages = 2
    Nobody = Nobody
    CalendarEvents = {event}
    Reported = {fired}
    MaxPerSession = 1
    Lookback = 1
    Expire = 1
    MaxSessions = 2
    NoCue = NoCue
INVARIANTS
    ReplaysMatch
    RevokedIsWithheld
    NoConflictingOverlap
    SafeToStart
    OnlyUnsafeSkipped
    AnnouncedOnce
    SleepsUntilNext
    ReadyMeansFresh
PROPERTIES
    NeverAgainSoon
    KeepsPromise
    EveryMessageSettles
    EveryNodeSettles
    SavedIsKept
    NeverAskedAgain
    DueFires
    Recovers
CHECK_DEADLOCK FALSE
