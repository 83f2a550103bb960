CONSTANTS
    Kind = {Pod, APIService}
    Listed = {Pod, APIService}
    Group = {{APIService}}
    ClusterScoped = {APIService}
    CanCluster = {Pod, APIService}
    CanScoped = {Pod}
    Served = {Pod, APIService}
    Flusher = {f1, f2}
    NoWatcher = NoWatcher
    Lists = {none, one}
    NoRows = none
    TableWatchers = {w1}
    MaxChange = 2
    MaxMount = 2
    MaxInbox = 2
    MaxRequest = 2
SPECIFICATION WatchSpec
INVARIANTS
    TypeOK
    WakeupNotLost
    AnnounceMeansSynced
PROPERTIES
    DrainsAfterStop
    ImplementsChangeNotice
    AnnouncedIfServed
    Converges
CHECK_DEADLOCK FALSE
