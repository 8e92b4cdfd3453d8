SPECIFICATION FairSpec
CONSTANTS
    TenMinutes = 3
    ThirtyMinutes = 4
    TokenDuration = 0
    Lifetimes = {5, 7}
    ReadableTokens = TRUE
    Intervals = {4, 5}
    NoToken = NoToken
    NoFlight = NoFlight
    Slack = 1
    Lag = 1
    MaxTime = 6
    MaxEdits = 1
    MaxFaults = 1
INVARIANTS TypeOK RecordedIsDelivered AgentNotLockedOut
PROPERTIES WithdrawnOnlyIfApplied TokenDoesNotLinger
CHECK_DEADLOCK FALSE
