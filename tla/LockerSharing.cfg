\* Two releases whose charts contain the same resource, with one watch that fails or a
\* restart, after which the channel may be full before the first list.
SPECIFICATION SafeListed
CONSTANTS
    k1 = k1
    k2 = k2
    a = a
    b = b
    NoKey = NoKey
    Keys = {k1, k2}
    Resources = {a, b}
    Kinds = {"ConfigMap", "Secret"}
    Kind <- TwoKinds
    Manifest <- Sharing
    Watchers = {w1}
    Uninstalled = {}
    Deleted = {}
    MaxRevision = 1
    Capacity = 1
    MaxDrift = 0
    Faults = {"watch", "restart"}
    MaxFaults = 1
    MaxObjects = 8
VIEW View
INVARIANTS
    LockedWhole
PROPERTIES
    LocksAsPromised
    NoStealing
CHECK_DEADLOCK FALSE
