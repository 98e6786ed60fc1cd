CONSTANTS
    Turn = {1, 2}
    Conn = {c1, c2}
    Candidates = 1
    CallTime = 1
    StaleTime = 2
    MaxKills = 0
    MaxAsks = 1
    Ops = {"edit"}
    NoTurn = NoTurn
SPECIFICATION Spec
INVARIANTS EditDiscards
CHECK_DEADLOCK FALSE
