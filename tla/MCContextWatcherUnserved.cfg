CONSTANTS
    Kind = {Pod, ServiceCIDR}
    Listed = {Pod, ServiceCIDR}
    Group = {}
    ClusterScoped = {ServiceCIDR}
    CanCluster = {Pod, ServiceCIDR}
    CanScoped = {Pod}
    Served = {Pod}
    Flusher = {f1}
SPECIFICATION Spec
PROPERTY EveryKindAnnounced
CHECK_DEADLOCK FALSE
