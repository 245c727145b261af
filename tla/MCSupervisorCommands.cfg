\* Two commands, and two mishaps: a child that exits and a failure, or two
\* failures, of which one may hit the cleanup after the other.
SPECIFICATION Spec
CONSTANTS
    Accounts = {a1}
    NoAccount = none
    Configs = {c1}
    RapidAttempts = 1
    MaxCommands = 2
    MaxRuns = 3
    MaxAttempts = 2
    MaxExits = 1
    MaxFaults = 2
    MaxCrashes = 0
CONSTRAINT TwoMishaps
INVARIANTS
    TypeOK
    OnePendingAttempt
    RunningIsTruthful
    ChildIsOwned
    LiveRunIsOpen
PROPERTIES
    
    IncidentClosesSettled
CHECK_DEADLOCK FALSE
