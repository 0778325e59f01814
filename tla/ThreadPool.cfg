SPECIFICATION FairSpec
CONSTANTS
    t1 = t1
    t2 = t2
    t3 = t3
    NoThread = NoThread
    Threads = {t1, t2, t3}
    Failures = {"attr"}
INVARIANTS TypeOK UnlockedAccessSafe NoUseAfterDelete PoolAccurate
PROPERTY StopReturns
