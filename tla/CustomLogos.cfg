CONSTANTS
    u1 = u1
    u2 = u2
    u3 = u3
    t1 = t1
    t2 = t2
    d1 = d1
    d2 = d2
    m1 = m1
    p1 = p1
    p2 = p2
    b1 = b1
    b2 = b2
    c1 = c1
    c2 = c2
    c3 = c3
    l1 = l1
    v1 = v1
    None = None
    New = New
    Gone = Gone
    User <- MCUser
    Team <- MCTeam
    Dept <- MCDept
    DeptOf <- MCDeptOf
    Slots = 2
    MaxRequests = 3
    File <- MCFile
    DirOf <- MCDirOf
    Worker = {1, 2}
    MaxJobs = 2
    MaxScans = 1
    MaxDeletes = 1
    Admin = {1, 2}
    Reader = {3}
    Design = {c1, c2}
    PaleDesigns = {c2}
    BrokenDesign = c3
    MaxSaves = 3
    Model = {1, 2}
    Tier <- MCTier
    EU = {2}
    Trains = {2}
    Claude = {1}
    Pool = {2}
    Plans <- MCPlans
    MaxActs = 2
    Feature <- MCFeature
    Post = {1, 2}
    Visit = {1}
    MaxCommits = 2
    Column = {1, 2, 3}
    Gate = 1
    Trait = 2
    Offer = 3
    Form = {1, 2}
    ServerConfig = {c1, c2}
    Password = {p1, p2}
    Working <- MCWorking
    Tester = {1, 2}
    MaxTests = 3
    Account = {u1, u2}
    Limit = {l1}
    Invoice = {v1}
    MaxSteps = 3
SPECIFICATION FilesSpec
INVARIANTS CustomLogosKept
CHECK_DEADLOCK FALSE
