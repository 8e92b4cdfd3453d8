SPECIFICATION Spec
CONSTANTS
    Kinds = {"pod", "ring"}
    Builtin = {"pod"}
    Ids <- TwoIds
    Values = {"web"}
    NoLabel = NoLabel
    Resource <- States
    Gone = Gone
    Any = Any
    NoScript = NoScript
    Broken = Broken
    Checks <- MCChecks
    Readiness <- MCReadiness
    Liveness <- MCLiveness
    NoFlight = NoFlight
    MaxChanges = 1
    MaxEdits = 1
    MaxFaults = 1
INVARIANTS TypeOK PassedChecksHeld FailedForAReason
PROPERTIES ReadyEarned BecomesReady FailureFollowsLiveness
