\* One run that is followed while its parts are rotated, compressed and pruned.
SPECIFICATION Spec
CONSTANTS
    Runs = {r1}
    Followed = {r1}
    Main = main
    MaxParts = 3
    PartLines = 2
    Limit = 1
    MaxFaults = 1
    MaxCrashes = 1
INVARIANTS
    TypeOK

    
CHECK_DEADLOCK FALSE
