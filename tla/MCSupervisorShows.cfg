SPECIFICATION FairSpec
CONSTANTS
    Accounts = {a1}
    NoAccount = none
    Configs = {c1, c2}
    RapidAttempts = 1
    MaxCommands = 1
    MaxRuns = 3
    MaxAttempts = 2
    MaxExits = 1
    MaxFaults = 1
    MaxCrashes = 0
PROPERTIES
    ShownSettles
    ChannelsConverge
CHECK_DEADLOCK FALSE
