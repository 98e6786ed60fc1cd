CONSTANTS
    Turn = {1}
    Conn = {c1, c2}
    Candidates = 2
    CallTime = 1
    StaleTime = 1
    MaxKills = 0
    MaxAsks = 1
    Ops = {}
    NoTurn = NoTurn
SPECIFICATION Spec
INVARIANTS OneCallPerReply
CHECK_DEADLOCK FALSE
