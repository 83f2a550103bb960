CONSTANTS
    Contexts = {a, b}
    Pods = {p}
    Others = {d}
    NoContext = NoContext
    None = None
    MaxStack = 1
SPECIFICATION Spec
PROPERTY AppliedWasReviewed
CHECK_DEADLOCK FALSE
