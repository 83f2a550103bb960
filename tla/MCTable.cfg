CONSTANTS
    List = {none, one}
    Empty = none
    Watcher = {w1, w2}
    NoWatcher = NoWatcher
    MaxChange = 1
    MaxMount = 2
    MaxInbox = 1
    MaxRequest = 2
    Contextual = {x1, x2}
    NoAccess = NoAccess
    View = {v1, v2}
    NoView = NoView
    CanSync = {x2}
    MaxStop = 2
    MaxLists = 2
SPECIFICATION TableSpec
INVARIANTS
    TableTypeOK
    QuietPageIsCurrent
    InactiveIsEmpty
    ViewIsServed
CHECK_DEADLOCK FALSE
