SPECIFICATION FairSpec
CONSTANTS
    Accounts = {a1}
    NoAccount = none
    Configs = {c1}
    RapidAttempts = 1
    MaxCommands = 1
    MaxRuns = 3
    MaxAttempts = 2
    MaxExits = 1
    MaxFaults = 1
    MaxCrashes = 1
INVARIANTS
    OpenRunIsHeld
    StartedAttemptIsHeld
PROPERTIES
    FollowsQueue
    FollowsLedger
    Converges
    CommandsEnd
CHECK_DEADLOCK FALSE
