CONSTANTS
    List = {none, one}
    Empty = none
    Watcher = {w1, w2}
    NoWatcher = NoWatcher
    MaxChange = 1
    MaxMount = 2
    MaxInbox = 1
    MaxRequest = 2
SPECIFICATION Spec
INVARIANT SyncEntryMeansSynced
CHECK_DEADLOCK FALSE
