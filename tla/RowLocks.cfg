CONSTANTS
    Invoice = {i1, i2, i3}
    Claim = {c1, c2}
    Request = {r1, r2}
    Offer = {o1, o2}
    Ops = {"submit", "verify", "reject", "toggle", "refund", "approve", "decline", "checkout"}
    RefundWindow = 0
    MaxDay = 1
    None = None
    Conv = {o1, o2}
    Worker = {r1, r2}
    SessionCap = 1
    RequestCap = 2
    ConvCap = 2
    TokenCap = 1
    KindCap <- MCKindCap
    MaxWindows = 2
    MaxMessages = 3
    NoInvoice = NoInvoice
    Nobody = Nobody
SPECIFICATION MCSpec
SYMMETRY Perms
INVARIANTS DecidesOnFreshRow NoDuplicateCheckout QuotaSafe
PROPERTIES Spec TogglesFlip OnlyRewritesReturn
CHECK_DEADLOCK FALSE
