\* The HelmRelease of a deployed release is deleted.
SPECIFICATION SafeListed
CONSTANTS
    k1 = k1
    k2 = k2
    a = a
    b = b
    NoKey = NoKey
    Keys = {k1}
    Resources = {a}
    Kinds = {"ConfigMap"}
    Kind <- OneKind
    Manifest <- OneResource
    Watchers = {w1}
    Uninstalled = {}
    Deleted = {k1}
    MaxRevision = 1
    Capacity = 2
    MaxDrift = 0
    Faults = {}
    MaxFaults = 0
    MaxObjects = 7
VIEW View
PROPERTIES
    RemovalKeepsResources
