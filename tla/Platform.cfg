CONSTANTS
    Process = {w1, w2}
    Limit = 2
    Window = 2
    MaxFaults = 1
    MaxTime = 2
    Browser = {w1, w2}
    Timeout = 0
    MaxTokens = 2
    MaxResets = 1
    Ops = {"profile", "password", "everywhere", "google", "reset"}
    MaxAttempts = 1
    MaxResends = 1
    Expiry = 1
    TrustTime = 2
    MaxPasses = 2
    Task = {"digest"}
    Job = "digest"
    Run = {w1, w2}
    RunningStale = 2
    Late = 1
    Key = {"memory"}
    Admin = {w3, w4}
    Renotify = 1
    Ttl = 2
    MaxLoads = 2
    DumpId = {1, 2, 3}
    MinKept = 2
    RetentionDays = 2
    LastDay = 3
    Nothing = Nothing
SPECIFICATION MCSpec
SYMMETRY Perms
INVARIANTS AccountsSafe UpkeepSafe
PROPERTIES LimiterHolds SessionsStep EverybodyIsTold
CHECK_DEADLOCK FALSE
