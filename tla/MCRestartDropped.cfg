SPECIFICATION Spec
CONSTANTS
    Accounts = {a1}
    NoAccount = none
    Configs = {c1}
    RapidAttempts = 1
    MaxCommands = 3
    MaxRuns = 3
    MaxAttempts = 2
    MaxExits = 0
    MaxFaults = 0
    MaxCrashes = 0
PROPERTIES
    RestartIsNotDropped
CHECK_DEADLOCK FALSE
