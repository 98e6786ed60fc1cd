CONSTANTS
    Invoice = {1, 2, 3, 4}
    Cycle = 2
    Ahead = 1
    DueIn <- MCDueIn
    ReminderChoices = {0, 1}
    MaxDay = 2
    MaxFails = 1
    Worker = {}
    Window = {1, 2}
    Visitor = {r1}
    Times = {1, 2}
    Ttl = 2
    MaxTime = 3
    NoWindow = NoWindow
    Choice = {p1}
    MaxTx = 0
    Model = {m1}
    MaxChanges = 0
    MaxActs = 0
    NoticeDays = 1
    Term = 2
    WarningGap = 1
    LastDay = 0
    MaxWarnings = 0
    MaxFaults = 0
    MaxRetries = 0
    MaxClicks = 0
SPECIFICATION SchedulesSpec
INVARIANTS CycleBilledOnce TasksSafe StateSafe
PROPERTIES TasksCatchUp
CHECK_DEADLOCK FALSE
