SPECIFICATION Spec
CONSTANTS
    Threshold = 2
    MaxFailures = 3
    PullMode = FALSE
    StaleCache = FALSE
    Reshard = FALSE
    Recreate = FALSE
    MayUnsetGrace = FALSE
    Graces = {1}
    NoGrace = NoGrace
    AutoPause = {TRUE}
    Conditions = {"ok", "noClient", "noVersion", "renewFails", "notReady", "notLive"}
    Absent = Absent
    LastDeletion = 0
    MaxTime = 0
    MaxEdits = 1
    MaxFaults = 2
INVARIANTS TypeOK DownMeansThresholdReached
PROPERTIES RecoveryAnnounced GaugesMirrorStatus ImplementsMonitor
