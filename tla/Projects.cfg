SPECIFICATION Spec
CONSTANTS
    Charts = {c1, c2}
    Touched = {c1}
    Closed = {}
    Faults = {"restart"}
    NoOwner = NoOwner
    MaxEvents = 1
    Keys = {"global", "cattle", "url", "systemDefaultRegistry", "clusterId", "projectNamespaces",
            "projectID", "releaseProjectID", "projectNamespaceSelector", "matchLabels",
            "matchExpressions", "app"}
    Leaves = {"default", "required", "spec", "projectLabel", "helm.cattle.io/projectId", "user",
              "operator", "x", "y"}
    MaxDepth = 4
    UserValues <- MCUserValues
    OverrideValues <- MCOverrideValues
    Trees <- MCTrees
    Paths <- MCPaths
INVARIANTS
    TypeOK
    OneClaim
    OwnerClaims
    ValuesMerge
    ValuesRequired
    ValuesOverridden
PROPERTIES
    DeployedInTheEnd
    ClaimsResolved
