CONSTANTS
    Contexts = {a, b}
    Pods = {p}
    Others = {d, e}
    NoContext = NoContext
    None = None
    MaxStack = 1
    Clusters = {a, b, c}
    Namespaces = {n}
    GroupIds = {g}
    NoGroup = NoGroup
    NoSession = NoSession
    MaxMissing = 1
    Filtered = {{a, b}}
    Applications = {app1, app2}
    Submissions = {s1, s2, s3}
    Tabs = {t1, t2}
    Runs = {r1, r2}
    Forwards = {f1, f2}
    MaxCalls = 3
    Repos = {bitnami, grafana}
    HelmCalls = {h1, h2}
SPECIFICATION PageSpec
INVARIANTS
    PageTypeOK
    GroupIsShown
    FreshUnlessLate
    ListenersAreListed
    QuietPageAgrees
    ReposAreWhole
PROPERTIES
    RestartRestores
    TypedUnlessLate
    ReviewedUnlessMoved
    TerminalsCleanUp
CHECK_DEADLOCK FALSE
