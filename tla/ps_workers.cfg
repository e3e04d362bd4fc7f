SPECIFICATION Spec
CONSTANTS
    master = master
    userRead = userRead
    p1 = p1
    p2 = p2
    q1 = q1
    Rule = {master, userRead}
    Master = master
    Seed <- File
    Worker = {"w1", "w2"}
    Slot = {p1, p2, q1}
    WorkerOf <- TwoWorkers
    None = None
INVARIANTS
    TypeOK
    MasterInService
    MemoryIsTable
    RevokedForGood
SYMMETRY Threads
