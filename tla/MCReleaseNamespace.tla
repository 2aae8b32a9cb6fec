-------------------------- MODULE MCReleaseNamespace --------------------------
(***************************************************************************)
(* A user and a service account; a RoleBinding and a ClusterRoleBinding of *)
(* the same ClusterRole; one Role of the release.  The second choice of    *)
(* options has one ClusterRole for two roles.                              *)
(***************************************************************************)
EXTENDS ReleaseNamespace

MCRoleRef    == [b \in {"rb", "crb"} |-> "c1"]
MCChartRoles == [r \in {"r1"} |-> "admin"]
MCOptions    == {[admin |-> "c1", view |-> "c2"], [admin |-> "c1", view |-> "c1"]}
=============================================================================
