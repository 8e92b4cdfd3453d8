SPECIFICATION FairSpec
CONSTANTS
    Threshold = 2
    MaxFailures = 2
    PullMode = FALSE
    StaleCache = FALSE
    Reshard = TRUE
    Recreate = FALSE
    MayUnsetGrace = FALSE
    Graces = {}
    NoGrace = NoGrace
    AutoPause = {}
    Conditions = {"ok", "noVersion"}
    Absent = Absent
    LastDeletion = 0
    MaxTime = 0
    MaxEdits = 2
    MaxFaults = 0
PROPERTIES VerifiedContinuously
