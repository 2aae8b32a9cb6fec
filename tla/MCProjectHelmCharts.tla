------------------------- MODULE MCProjectHelmCharts -------------------------
(***************************************************************************)
(* Two ProjectHelmCharts of the same name are enough for a conflict: what  *)
(* one of them sees of the others is whether any of them tracks the        *)
(* release.                                                                *)
(*                                                                         *)
(* The values of the release are a matter of operators only, which the     *)
(* initial states are enough to evaluate.                                  *)
(***************************************************************************)
EXTENDS ProjectHelmCharts, ReleaseValues

\* All maps of some keys and values.
MapsOf(keys, vs) == UNION {[d -> vs] : d \in SUBSET keys}

\* Maps of leaves and of maps of leaves, and the paths in them.
MCTrees == LET above == {Leaf("x")} \cup {MapOf(f) : f \in MapsOf({"url", "app"}, {Leaf("x"), Leaf("y")})}
           IN  {MapOf(f).map : f \in MapsOf({"url", "app"}, above)}
MCPaths == UNION {[1..n -> {"url", "app"}] : n \in 1..3}

\* What somebody may provide of global.cattle, at some keys.
Provided(who, keys) ==
    LET at == {Leaf(who), MapOf(<<>>), MapOf([matchExpressions |-> Leaf(who)]),
               MapOf([matchLabels |-> MapOf([app |-> Leaf(who)])])}
    IN  {MapOf([global |-> v]).map : v \in {Leaf(who), MapOf([cattle |-> Leaf(who)])}}
        \cup {InCattle(f) : f \in MapsOf(keys, at)}

MCUserValues     == Provided("user", {"clusterId", "url", "projectNamespaceSelector"})
MCOverrideValues == Provided("operator", {"url", "projectNamespaceSelector"})

\* MergeMaps agrees with its definition path by path (merge.go:7-19).
ValuesMerge == Init => MergesPathwise

\* Nobody gets rid of the values that the operator requires (values.go:25-38).
ValuesRequired == Init => RequiredStays

\* What the operator was configured to override wins over the user's values, and
\* they over the defaults (values.go:9-23).
ValuesOverridden == Init => OverridesWin
=============================================================================
