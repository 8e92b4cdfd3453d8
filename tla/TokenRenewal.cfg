SPECIFICATION Spec
CONSTANTS
    TenMinutes = 2
    ThirtyMinutes = 3
    Intervals = {2, 4, 5}
    TokenDuration = 0
    Lifetimes = {3, 5, 7}
    ReadableTokens = TRUE
    InitialKey = "kubeconfig"
    RenewalKey = "re-kubeconfig"
    NoKey = NoKey
    Missing = Missing
    NoFlight = NoFlight
    MaxContexts = 2
    Slack = 1
    MaxTime = 9
    MaxEdits = 1
    MaxFaults = 2
INVARIANTS TypeOK KeyResolves RecordedIsStored UndisturbedInTime
