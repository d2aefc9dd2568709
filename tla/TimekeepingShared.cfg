SPECIFICATION TimeSpec
CONSTANTS
    p1 = p1
    p2 = p2
    Procs = {p1, p2}
    Timers = {"timer"}
    Alarms = {"alarm"}
    Day = 1
    Span = 1
    Horizon = 1
    MaxRounds = 1
    MaxFaults = 0
    MaxStops = 0
    Nil = Nil
PROPERTIES NothingSavedIsLost
CHECK_DEADLOCK FALSE
