SPECIFICATION Spec
CONSTANTS
    c1 = c1
    c2 = c2
    w1 = w1
    w2 = w2
    p1 = p1
    p2 = p2
    p3 = p3
    Nil = Nil
    Conns = {c1, c2}
    MaxReq = 2
    Workers = {w1, w2}
    Packages = {p1, p2, p3}
    InitPackages = {p1, p2}
    IncNum = 1
    RecvLimit = 2
    SendLimit = 2
    QueueLimit = 1
    PipeCap = 2
    ReadMax = 2
    MaxPills = 2
    Outcomes = {"push", "destroy", "crash"}
SYMMETRY Symmetry
INVARIANTS TypeOK NoLostWakeup OneOwner RequestCarried PillsAccounted QueueLimitKept
PROPERTY KeepsPromise
