\* From the first event on, and from a restart on: the HelmRelease may be deleted, a user may modify the
\* resource, and the channel has room for what setState sends before the first list.
SPECIFICATION Spec
CONSTANTS
    k1 = k1
    k2 = k2
    a = a
    b = b
    NoKey = NoKey
    Keys = {k1}
    Resources = {a}
    Kinds = {"ConfigMap"}
    Kind <- OneKind
    Manifest <- OneResource
    Watchers = {w1}
    Uninstalled = {}
    Deleted = {k1}
    MaxRevision = 1
    Capacity = 2
    MaxDrift = 1
    Faults = {"write", "watch", "restart"}
    MaxFaults = 1
    MaxObjects = 9
VIEW View
PROPERTIES
    Converges
