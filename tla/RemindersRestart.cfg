SPECIFICATION SvcFairSpec
CONSTANTS
    Jobs = {"reminder_check"}
    SetupJobs = {}
    Loops = {l1, l2}
    Callers = {c1}
    Interval = 1
    MaxEdits = 1
    MaxCrashes = 1
    Absent = Absent
    ReminderIds = {r1}
    Check = "reminder_check"
    MaxUpsets = 1
PROPERTY DueFiresAfterRestart
CHECK_DEADLOCK FALSE
