SPECIFICATION BackgroundSpec
CONSTANTS
    Pids = {1, 2, 3, 4}
    None = None
    MaxRestarts = 1
    Window = 2
    Backoff = 1
    StartTimeout = 1
    MaxAge = 1
    Faults = 3
    Starts = 2
    l1 = l1
    l2 = l2
    Jobs = {"reminder_check"}
    SetupJobs = {}
    Loops = {l1, l2}
    Callers = {u1}
    u1 = u1
    Interval = 1
    MaxEdits = 2
    MaxCrashes = 1
    Absent = Absent
    ReminderIds = {"reminder"}
    Check = "reminder_check"
    MaxUpsets = 1
    c1 = c1
    c2 = c2
    Calls = {c1, c2}
    Keys = {"verified", "blind", "read"}
    Args = {"args", "other"}
    Workloads <- MCWorkloads
    Mutations = {"verified", "blind"}
    Verifiable = {"verified"}
    Sensitive = {"blind"}
    NoVerdict = NoVerdict
INVARIANTS
    NoStrays
    ReadyMeansBound
    CoreRestartsBounded
    NotifiedOnce
    RewritesHaveCause
    FailureIsTheHandlers
    VerifiedIsTrue
PROPERTIES
    Settles
    DownStaysDown
    DueReminderFires
    RevisedInCompany
    Answered
CHECK_DEADLOCK FALSE
