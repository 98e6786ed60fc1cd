CONSTANTS
    Turn = {1, 2}
    Conn = {c1, c2}
    Candidates = 2
    CallTime = 1
    StaleTime = 1
    MaxKills = 1
    MaxAsks = 1
    Ops = {"edit", "disconnect", "refuse"}
    NoTurn = NoTurn
    Category = {technology}
    None = None
SPECIFICATION MCSpec
INVARIANTS ReplySafe RequestSafe
PROPERTIES  PendingResolves
CHECK_DEADLOCK FALSE
