SPECIFICATION Spec
CONSTANTS
    TenMinutes = 2
    ThirtyMinutes = 3
    Intervals = {4}
    TokenDuration = 0
    Lifetimes = {3, 4, 6, 7}
    ReadableTokens = TRUE
    InitialKey = "kubeconfig"
    RenewalKey = "re-kubeconfig"
    NoKey = NoKey
    Missing = Missing
    NoFlight = NoFlight
    MaxContexts = 2
    Slack = 1
    MaxTime = 9
    MaxEdits = 0
    MaxFaults = 1
INVARIANTS RenewedBeforeExpiry
