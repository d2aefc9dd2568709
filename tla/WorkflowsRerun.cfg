SPECIFICATION WfSpec
CONSTANTS
    StepDefs <- MCStepDefs
    Length = 3
    send = send
    tidy = tidy
    Runners = {cmd1, cmd2}
    Approvals = {ap1, ap2}
    MaxCommands = 3
    Nothing = Nothing
INVARIANT KeysOnceOnRerun
CHECK_DEADLOCK FALSE
