CONSTANTS
    Pod = {web, agent}
    Exempt = {agent}
    Drainer = {d1, d2}
    MaxUid = 2
SPECIFICATION Spec
CHECK_DEADLOCK FALSE
PROPERTY ReadOnlyIsHard
