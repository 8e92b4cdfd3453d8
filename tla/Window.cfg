SPECIFICATION Spec
CONSTANTS
    Activations <- MCActivations
    Windows <- AllWindows
    NoWindow = NoWindow
    NoTime = NoTime
    NoFlight = NoFlight
    MaxMissed = 1
    StaleCache = TRUE
    MaxTime = 7
    MaxEdits = 2
    MaxFaults = 1
INVARIANTS TypeOK HashCertifiesTimes
PROPERTIES ClosedOutsideWindow ClosedWhenSetOpens
CHECK_DEADLOCK FALSE
