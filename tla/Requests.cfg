SPECIFICATION RequestsSpec
CONSTANTS
    Users = {u1}
    Keys = {k1}
    Bindings = {b1}
    SessionIds = {1, 2, 3}
    TokenIds = {1, 2, 3}
    ChallengeIds = {c1}
    PairIds = {1, 2}
    None = None
    RefreshTTL = 2
    ChallengeTTL = 1
    GrantTTL = 1
    MaxTime = 2
    CheckTransport = TRUE
    Requests = {r1, r2}
    StrongIds = {a1}
    Commands = {lock, unlock}
    StrongTTL = 1
    ApprovalTTL = 1
    StepDefs <- MCStepDefs
    Length = 3
    send = send
    tidy = tidy
    Runners = {cmd1, cmd2}
    Approvals = {ap1, ap2}
    MaxCommands = 4
    Nothing = Nothing
    voice = voice
    language = language
    Models = {voice, language}
    Cost <- MCCost
    Budgets = {1, 2}
    Tasks = {th1, th2}
    Unheld = Unheld
    Speakers = {kitchen}
    Levels = {1, 2}
    Deliveries = {d1, d2}
    NoVolume = NoVolume
    MaxMishaps = 2
SYMMETRY Symmetry
INVARIANTS
    ApprovalSpentOnce
    ExecutesWhatWasSigned
    LoadsAreAtomic
    KeysOnce
    CompletedIsHonest
    BudgetHolds
    LeaseStays
    NoCircularWait
    IInv
    VolumeComesBack
PROPERTIES
    EndedSessionsStayEnded
    CalledWithApproval
CHECK_DEADLOCK FALSE
