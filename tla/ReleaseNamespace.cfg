CONSTANTS
    MaxEvents = 2
    Subjects = {"user", "account"}
    Accounts = {"account"}
    RoleBindings = {"rb"}
    ClusterBindings = {"crb"}
    ClusterRoles = {"c1", "c2"}
    Roles = {"r1"}
    RoleRef <- MCRoleRef
    Options <- MCOptions
    ChartRoles <- MCChartRoles

SPECIFICATION FairSpec
INVARIANTS TypeOK HardenedAtRest RevokedAtRest
PROPERTIES SyncedInTheEnd
