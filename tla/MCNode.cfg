CONSTANTS
    Pod = {web, db, agent}
    Exempt = {agent}
    Drainer = {d1, d2}
    MaxUid = 2
    Calling = {d1}
    Few = {web, agent}
    Shells = {r1, r2}
SPECIFICATION NodeSpec
INVARIANTS
    TypeOK
    OneDrain
    DoneMeansGone
    ReplacementIsSpared
PROPERTIES
    MarkIsCleared
    PodIsRemoved
CHECK_DEADLOCK FALSE
