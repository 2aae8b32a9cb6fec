SPECIFICATION Spec
CONSTANTS
    Charts = {c1}
    Touched = {c1}
    Closed = {c1}
    Faults = {"apply", "restart"}
    NoOwner = NoOwner
    MaxEvents = 3
    Keys = {"global", "cattle", "url", "systemDefaultRegistry", "clusterId", "projectNamespaces",
            "projectID", "releaseProjectID", "projectNamespaceSelector", "matchLabels",
            "matchExpressions", "app"}
    Leaves = {"default", "required", "spec", "projectLabel", "helm.cattle.io/projectId", "user",
              "operator", "x", "y"}
    MaxDepth = 3
    UserValues = {}
    OverrideValues = {}
    Trees = {}
    Paths = {}
INVARIANTS
    OwnerClaims
PROPERTIES
    ReleasedInTheEnd
