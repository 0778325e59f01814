SPECIFICATION Spec
CONSTANTS
    t1 = t1
    t2 = t2
    t3 = t3
    v1 = v1
    v2 = v2
    NoThread = NoThread
    Threads = {t1, t2, t3}
    Values = {v1, v2}
    Limit = 1
    MaxLen = 3
SYMMETRY Symmetry
INVARIANTS TypeOK EveryItemHasATaker
PROPERTY Linearizable
