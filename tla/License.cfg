SPECIFICATION Spec
CONSTANTS
    Licenses = {1, 2, 9}
    Refused = {9}
    Grace = 3
    Minute = 2
    NoLicense = NoLicense
    NoTimer = NoTimer
    NoFlight = NoFlight
    MaxTime = 6
    MaxEdits = 2
    MaxFaults = 1
INVARIANTS TypeOK ExpiryNoticed PairIntact
PROPERTIES StatusFollowsSecret RelayFollowsSecret
CHECK_DEADLOCK FALSE
