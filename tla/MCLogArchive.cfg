\* Two runs of one account that may keep a single compressed part.
SPECIFICATION Spec
CONSTANTS
    Runs = {r1, r2}
    Followed = {}
    Main = main
    MaxParts = 1
    PartLines = 3
    Limit = 1
    MaxFaults = 1
    MaxCrashes = 1
INVARIANTS
    ActivePartIsLeftAlone
PROPERTIES
    OnlyOlderPartsGo
    PendingIsRetried
    LimitIsRestored
CHECK_DEADLOCK FALSE
