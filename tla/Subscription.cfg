CONSTANTS
    Invoice = {1, 2}
    Plan = {"Demo", "A"}
    DemoPlan = {"Demo"}
    FirstPlan = "Demo"
    Rate <- MCRate
    Durations = {1}
    MonthDays = 2
    DemoDays = 1
    Worker = {w1, w2}
    MaxDay = 1
    MaxConfirm = 1
    Ops = {"generate", "reopen", "refund", "remove", "admin", "crash"}
    NoPlan = NoPlan
    NoInvoice = NoInvoice
SPECIFICATION MCSpec
INVARIANTS PlanWasPaidOrGiven SubscriptionSafe
PROPERTIES PlanArrives
CHECK_DEADLOCK FALSE
