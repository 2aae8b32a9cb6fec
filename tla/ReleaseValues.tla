----------------------------- MODULE ReleaseValues -----------------------------
(***************************************************************************)
(* The values.yaml of a release (src/pkg/controllers/project/values.go,    *)
(* merge.go, utils.go): defaults, what the user provides, what the         *)
(* operator was configured to override, and what must be there, one merged *)
(* over the other.                                                         *)
(*                                                                         *)
(* A value is a map from keys to values, or a leaf: anything else, also a  *)
(* typed map of Go such as map[string]string, which MergeMaps replaces as  *)
(* a whole, and a map with a key that is no string.                        *)
(***************************************************************************)
EXTENDS Integers, Sequences

CONSTANTS Keys,           \* of maps
          Leaves,         \* what is in a leaf
          MaxDepth,       \* bound: how deep the values in a map are nested
          UserValues,     \* what ProjectHelmCharts provide
          OverrideValues, \* what the operator may be configured with
          Trees, Paths    \* maps that are merged, and where they are compared

Leaf(x)   == [leaf |-> x]
Absent    == [absent |-> TRUE]        \* where a map does not have a key
MapOf(f)  == [map |-> [k \in Keys |-> IF k \in DOMAIN f THEN f[k] ELSE Absent]]
IsMap(v)  == "map" \in DOMAIN v
IsLeaf(v) == "leaf" \in DOMAIN v

\* The values in which n maps at most are nested, and the maps of such values.
Values[n \in 0..MaxDepth] ==
    [leaf : Leaves] \cup (IF n = 0 THEN {} ELSE [map : [Keys -> Values[n - 1] \cup {Absent}]])

Maps(n) == [Keys -> Values[n] \cup {Absent}]
Map     == Maps(MaxDepth)

ASSUME ValuesAssumption ==
    /\ MaxDepth \in Nat /\ MaxDepth >= 3
    /\ {"global", "cattle", "url", "systemDefaultRegistry", "clusterId", "projectNamespaces",
        "projectID", "releaseProjectID", "projectNamespaceSelector", "matchLabels",
        "matchExpressions"} \subseteq Keys
    /\ {"default", "required", "spec", "projectLabel", "helm.cattle.io/projectId"} \subseteq Leaves
    /\ UserValues \subseteq Map /\ OverrideValues \subseteq Map
    /\ Trees \subseteq Map /\ Paths \subseteq Seq(Keys)

\* Mutant of MergeMaps: a map of the overlay replaces what the base has.
Overlay(base, overlay) == [k \in Keys |-> IF overlay[k] = Absent THEN base[k] ELSE overlay[k]]

\* Maps are merged key by key where both have one; what else the overlay has
\* replaces what is in the base.
Merged[base \in Map] == [overlay \in Map |-> [k \in Keys |->
    IF IsMap(base[k]) /\ IsMap(overlay[k]) THEN [map |-> Merged[base[k].map][overlay[k].map]]
    ELSE IF overlay[k] = Absent THEN base[k] ELSE overlay[k]]]

MergeMaps(base, overlay) == Merged[base][overlay]

-----------------------------------------------------------------------------
(* The values of a release *)

\* With a project label and dedicated release namespaces, without the latter, and
\* without both, when the ProjectHelmChart has, or does not have, a selector.
Modes == {"release", "label", "selector", "none"}

\* What the operator knows of the project.  Labels are a map[string]string and
\* expressions a slice: both are leaves.
Selector(mode) ==
    CASE mode = "none"     -> MapOf(<<>>)
      [] mode = "selector" -> MapOf([matchLabels |-> Leaf("spec"), matchExpressions |-> Leaf("spec")])
      [] mode = "label"    -> MapOf([matchLabels |-> Leaf("projectLabel")])
      [] mode = "release"  -> MapOf([matchLabels |-> Leaf("helm.cattle.io/projectId")])

InCattle(f) == MapOf([global |-> MapOf([cattle |-> MapOf(f)])]).map

Defaults == InCattle([url |-> Leaf("default"), systemDefaultRegistry |-> Leaf("default")])

Required(mode) == InCattle([clusterId |-> Leaf("required"), projectNamespaces |-> Leaf("required"),
                            projectID |-> Leaf("required"), releaseProjectID |-> Leaf("required"),
                            projectNamespaceSelector |-> Selector(mode)])

\* Mutants of getValues: what the user provides, or what the operator is configured
\* to override, comes last but one, or last.
UserLater(user, override, mode) ==
    MergeMaps(MergeMaps(MergeMaps(Defaults, override), user), Required(mode))

OverridesLast(user, override, mode) ==
    MergeMaps(MergeMaps(MergeMaps(Defaults, user), Required(mode)), override)

getValues(user, override, mode) ==
    MergeMaps(MergeMaps(MergeMaps(Defaults, user), override), Required(mode))

-----------------------------------------------------------------------------
(* Properties *)

\* What is under a key, and under global.cattle.
Get(v, k)         == IF IsMap(v) THEN v.map[k] ELSE Absent
Cattle(values, k) == Get(Get(values["global"], "cattle"), k)

\* What is found on the way along a path, after each of its keys.
Along(v, p) == LET at[i \in 0..Len(p)] == IF i = 0 THEN v ELSE Get(at[i - 1], p[i])
               IN  at

\* MergeMaps against what it is to do at each path: a leaf of the overlay is in the
\* result, and a map of it has become a map; where the overlay has nothing the result
\* has what the base has, unless a leaf of the overlay is above.
MergesPathwise ==
    \A base, overlay \in Trees, p \in Paths :
        LET n == Len(p)
            b == Along([map |-> base], p)
            o == Along([map |-> overlay], p)
            m == Along([map |-> MergeMaps(base, overlay)], p)
            hidden == \E i \in 1..n : IsLeaf(o[i])
        IN  /\ IsLeaf(o[n]) => m[n] = o[n]
            /\ IsMap(o[n]) => IsMap(m[n])
            /\ o[n] = Absent => m[n] = IF hidden THEN Absent ELSE b[n]

\* What must be there is there as the operator has it, whatever the user and the
\* operator's configuration provide in its place, at any level (values.go:25-38).
RequiredStays ==
    \A user \in UserValues, override \in OverrideValues, mode \in Modes :
        LET values   == getValues(user, override, mode)
            selector == Cattle(values, "projectNamespaceSelector")
        IN  /\ \A k \in {"clusterId", "projectNamespaces", "projectID", "releaseProjectID"} :
                  Cattle(values, k) = Leaf("required")
            /\ IsMap(selector)
            /\ \A k \in Keys : Selector(mode).map[k] # Absent => selector.map[k] = Selector(mode).map[k]

\* Nothing is said of the key, and nothing else is put in place of what it is in.
Silent(values, k) == /\ Cattle(values, k) = Absent
                     /\ ~IsLeaf(values["global"]) /\ ~IsLeaf(Get(values["global"], "cattle"))

\* The operator's override is in place of what the user provides, and that in place of
\* the default (values.go:9-23).
OverridesWin ==
    \A user \in UserValues, override \in OverrideValues, mode \in Modes :
        LET values == getValues(user, override, mode)
        IN  \A k \in {"url", "systemDefaultRegistry"} :
                /\ IsLeaf(Cattle(override, k)) => Cattle(values, k) = Cattle(override, k)
                /\ Silent(override, k) /\ IsLeaf(Cattle(user, k)) => Cattle(values, k) = Cattle(user, k)
                /\ Silent(override, k) /\ Silent(user, k) => Cattle(values, k) = Leaf("default")
=============================================================================
