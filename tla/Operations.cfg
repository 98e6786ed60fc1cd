CONSTANTS
    Invoice = {1}
    Cycle = 2
    Ahead = 1
    DueIn <- MCDueIn
    ReminderChoices = {0}
    MaxDay = 0
    MaxFails = 1
    Worker = {1, 2}
    Window = {1}
    Visitor = {1}
    Times = {1, 2}
    Ttl = 1
    MaxTime = 3
    NoWindow = NoWindow
    Choice = {p1, p2, p3}
    MaxTx = 3
    Model = {m1, m2}
    MaxChanges = 2
    MaxActs = 3
    NoticeDays = 1
    Term = 2
    WarningGap = 1
    LastDay = 4
    MaxWarnings = 3
    MaxFaults = 1
    MaxRetries = 3
    MaxClicks = 3
SPECIFICATION OperationsSpec
INVARIANTS CatalogueSafe NotificationsSafe NoticesSafe
PROPERTIES LateJobsUndoNothing BackgroundWorkEnds
CHECK_DEADLOCK FALSE
