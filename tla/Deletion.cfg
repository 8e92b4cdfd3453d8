SPECIFICATION Spec
CONSTANTS
    Threshold = 2
    MaxFailures = 2
    PullMode = FALSE
    StaleCache = TRUE
    Reshard = FALSE
    Recreate = FALSE
    MayUnsetGrace = FALSE
    Graces = {1, 2}
    NoGrace = NoGrace
    AutoPause = {}
    Conditions = {"ok"}
    Absent = Absent
    LastDeletion = 1
    MaxTime = 3
    MaxEdits = 3
    MaxFaults = 1
PROPERTIES GraceHonoured ReleasedWithoutGauges
CHECK_DEADLOCK FALSE
