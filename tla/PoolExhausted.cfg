SPECIFICATION Spec
CONSTANTS
    c1 = c1
    c2 = c2
    w1 = w1
    w2 = w2
    p1 = p1
    p2 = p2
    p3 = p3
    Nil = Nil
    Conns = {c1}
    MaxReq = 3
    Workers = {w1, w2}
    Packages = {p1, p2, p3}
    InitPackages = {p1, p2}
    IncNum = 0
    RecvLimit = 2
    SendLimit = 1
    QueueLimit = 0
    PipeCap = 1
    ReadMax = 2
    MaxPills = 0
    Outcomes = {"push", "destroy", "crash"}
INVARIANT ExhaustionRefused
