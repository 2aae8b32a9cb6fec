SPECIFICATION Spec
CONSTANTS
    Projects = {p}
    Namespaces = {n}
    System = System
    NoProject = NoProject
    Untracked = Untracked
    Initial = {p}
    MaxEvents = 1
PROPERTIES
    OrphanedInTheEnd
