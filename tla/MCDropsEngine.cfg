\* Two channels, a drop and the one that it unlocks.
SPECIFICATION Spec
CONSTANTS
    Last = 2
    Final = 2
    Need = 1
    Refresh = 2
    Stall = 3
    Slowest = 2
    Patience = 2
    MaxFaults = 2
INVARIANTS
    TypeOK
    ProgressIsCredited
    ClaimsAreTrue
PROPERTIES
    EarnedIsClaimed
    StalledIsLeft
CHECK_DEADLOCK FALSE
