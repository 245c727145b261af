SPECIFICATION Spec
CONSTANTS
    Accounts = {a1}
    NoAccount = none
    Configs = {c1}
    RapidAttempts = 1
    MaxCommands = 1
    MaxRuns = 3
    MaxAttempts = 2
    MaxExits = 1
    MaxFaults = 0
    MaxCrashes = 0
PROPERTIES
    CrashIsRecovered
CHECK_DEADLOCK FALSE
