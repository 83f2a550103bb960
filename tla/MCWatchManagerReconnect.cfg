CONSTANTS
    Context = {c1}
    Thread = {t1, t2}
    Watcher = {w1, w2}
    NoWatcher = NoWatcher
    NoClient = NoClient
    NoContext = NoContext
    MaxGen = 1
SPECIFICATION Spec
INVARIANTS
    ReconnectIsFresh
CHECK_DEADLOCK FALSE
