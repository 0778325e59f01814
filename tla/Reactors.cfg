SPECIFICATION ConnectorSpec
CONSTANTS
    t1 = t1
    t2 = t2
    NoTimer = NoTimer
    NumHandlers = 2
    Listeners = {2}
    Timers = {t1, t2}
    PerSec = 3
    Delays = {4}
    Horizon = 7
INVARIANTS TypeOK HandlersHaveData WaitsUntilDeadline DetachedWhenIdle SocketsOwned
PROPERTIES TimersKept TimersEnd AttemptsEnd
