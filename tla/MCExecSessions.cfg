CONSTANTS
    Session = {s1, s2}
    NoSession = NoSession
    QueueCap = 1
    Typed = {s1}
SPECIFICATION Spec
INVARIANTS
    TypeOK
    ResizeIsSafe
    RunningIsReachable
PROPERTIES
    LeftIsStopped
    InputsReturn
    EndIsSeen
CHECK_DEADLOCK FALSE
