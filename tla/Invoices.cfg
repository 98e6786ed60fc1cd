CONSTANTS
    Invoice = {i1, i2}
    Claim = {c1, c2, c3}
    RefundWindow = 1
    MaxDay = 3
    NoInvoice = NoInvoice
    None = None
    Model = {m1}
    Claude = m1
    Request = {a1, a2}
    MaxPosts = 2
    Dept = {d1}
    Cap = {0, 100, 200}
    Mark = {0, 159, 160, 199, 200}
    MaxRows = 2
    MaxChanges = 2
    Blank = Blank
    User = {a1, a2}
    MaxTurns = 2
SPECIFICATION MCSpec
SYMMETRY Perms
INVARIANTS RefundedOnce WindowNeverStretched PagesSafe
PROPERTIES RefundedIsClosed UnreviewedRefundInTime LedgerSpec
CHECK_DEADLOCK FALSE
