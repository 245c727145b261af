SPECIFICATION FairSpec
CONSTANTS
    Accounts = {a1}
    NoAccount = none
    Configs = {c1}
    RapidAttempts = 1
    MaxCommands = 2
    MaxRuns = 3
    MaxAttempts = 2
    MaxExits = 0
    MaxFaults = 1
    MaxCrashes = 0
PROPERTIES
    ObservedConverges
CHECK_DEADLOCK FALSE
