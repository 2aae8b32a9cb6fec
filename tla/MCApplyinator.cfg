SPECIFICATION Spec
CONSTANTS
    Keys = {p1, p2, p3}
    Workers = {w1, w2}
    NoKey = NoKey
INVARIANTS
    TypeOK
    Stingy
    QueueConsistent
PROPERTY
    PromiseSpec
CHECK_DEADLOCK FALSE
