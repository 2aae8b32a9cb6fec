\* The release is uninstalled, with or without its history, while one API call fails or the
\* operator is restarted.
SPECIFICATION SpecListed
CONSTANTS
    k1 = k1
    k2 = k2
    a = a
    b = b
    NoKey = NoKey
    Keys = {k1}
    Resources = {a}
    Kinds = {"ConfigMap"}
    Kind <- OneKind
    Manifest <- OneResource
    Watchers = {w1}
    Uninstalled = {k1}
    Deleted = {}
    MaxRevision = 1
    Capacity = 2
    MaxDrift = 0
    Faults = {"write", "restart"}
    MaxFaults = 1
    MaxObjects = 7
VIEW View
INVARIANTS
    StoreFollows
PROPERTIES
    PurgedInTheEnd
    LockReleased
