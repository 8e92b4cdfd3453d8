SPECIFICATION Spec
CONSTANTS
    Activations <- MCActivations
    Windows <- OneWindow
    NoWindow = NoWindow
    NoTime = NoTime
    NoFlight = NoFlight
    MaxMissed = 10
    StaleCache = FALSE
    MaxTime = 7
    MaxEdits = 1
    MaxFaults = 0
PROPERTIES OpensOnTime
CHECK_DEADLOCK FALSE
