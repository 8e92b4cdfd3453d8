SPECIFICATION Spec
CONSTANTS
    Threshold = 2
    MaxFailures = 2
    PullMode = TRUE
    StaleCache = TRUE
    Reshard = TRUE
    Recreate = TRUE
    MayUnsetGrace = FALSE
    Graces = {}
    NoGrace = NoGrace
    AutoPause = {}
    Conditions = {"ok", "renewFails", "agentQuiet"}
    Absent = Absent
    LastDeletion = 0
    MaxTime = 0
    MaxEdits = 2
    MaxFaults = 1
PROPERTIES OutageAnnounced AgentReportsKept
