\* An upgrade that drops a resource, and a user, with a channel of one slot.
SPECIFICATION SpecListed
CONSTANTS
    k1 = k1
    k2 = k2
    a = a
    b = b
    NoKey = NoKey
    Keys = {k1}
    Resources = {a, b}
    Kinds = {"ConfigMap", "Secret"}
    Kind <- TwoKinds
    Manifest <- Upgrade
    Watchers = {w1}
    Uninstalled = {}
    Deleted = {}
    MaxRevision = 2
    Capacity = 1
    MaxDrift = 1
    Faults = {}
    MaxFaults = 0
    MaxObjects = 7
VIEW View
INVARIANTS
    TypeOK
    LocksOnlyDeployed
    StoreFollows
    LockedAtRest
PROPERTIES
    LocksAsPromised
    Converges
