SPECIFICATION Spec
CONSTANTS
    Projects = {p}
    Namespaces = {n}
    System = System
    NoProject = NoProject
    Untracked = Untracked
    Initial = {p}
    MaxEvents = 2
INVARIANTS
    TypeOK
    NeverOrphanedInUse
    TrackedAtRest
    LabelFollows
PROPERTIES
    RegisteredInTheEnd
