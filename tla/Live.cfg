SPECIFICATION FairSpec
CONSTANTS
    Threshold = 2
    MaxFailures = 2
    PullMode = FALSE
    StaleCache = TRUE
    Reshard = FALSE
    Recreate = FALSE
    MayUnsetGrace = TRUE
    Graces = {1}
    NoGrace = NoGrace
    AutoPause = {}
    Conditions = {"ok", "noClient"}
    Absent = Absent
    LastDeletion = 0
    MaxTime = 1
    MaxEdits = 1
    MaxFaults = 1
PROPERTIES VerifiedContinuously OutageDetected RecoveryDetected FinalizerFollowsGrace DeletionCompletes
CHECK_DEADLOCK FALSE
