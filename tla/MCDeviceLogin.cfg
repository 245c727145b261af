SPECIFICATION LoginSpec
CONSTANTS
    Accounts = {a1}
    MaxCommands = 2
    MaxRequests = 2
    MaxCodes = 1
    MaxMishaps = 1
INVARIANTS
    LoginTypeOK
    OneActivePerAction
    LeasedIsHeld
PROPERTIES
    TerminalIsFinal
    
    ReconnectReplacesSession
    LoginSettles
CHECK_DEADLOCK FALSE
