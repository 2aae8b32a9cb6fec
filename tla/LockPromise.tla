----------------------------- MODULE LockPromise -----------------------------
(***************************************************************************)
(* What the register of object sets promises to its callers (the Locker of *)
(* src/pkg/helm-locker/objectset/cache.go): a lock takes all resources of  *)
(* one manifest, one that Helm has deployed, if none of them is tied to    *)
(* another release, and has their kinds watched; if one belongs to another *)
(* release it changes nothing.  If a kind cannot be watched, it takes the  *)
(* resources of some kinds only.  What was locked before is given up.  So  *)
(* a resource is never tied to two releases, and never passes from one to  *)
(* another by a lock.                                                      *)
(*                                                                         *)
(* There are no states, events or goroutines here, nor what a release does *)
(* while it is not deployed: only which manifests have been deployed, and  *)
(* which resources are tied to which release.                              *)
(***************************************************************************)
CONSTANTS Keys, Resources, Kinds, Kind, Revisions, Manifest

VARIABLES deployed,  \* the revisions of each release that Helm has deployed
          held,      \* the resources tied to each release
          watched    \* the kinds that are watched

vars == <<deployed, held, watched>>

Init == /\ deployed \in [Keys -> SUBSET Revisions]
        /\ held = [k \in Keys |-> {}]
        /\ watched = {}

\* Helm has deployed a revision.
Deploy(k, v) ==
    /\ deployed' = [deployed EXCEPT ![k] = @ \cup {v}]
    /\ UNCHANGED <<held, watched>>

\* No resource of the manifest is tied to another release.
CanLock(k, v) == \A j \in Keys \ {k} : Manifest[k][v] \cap held[j] = {}

Lock(k, v) ==
    /\ v \in deployed[k]
    /\ CanLock(k, v)
    /\ held' = [held EXCEPT ![k] = Manifest[k][v]]
    /\ watched' = watched \cup {Kind[r] : r \in Manifest[k][v]}
    /\ UNCHANGED deployed

\* One of the kinds cannot be watched: it and some others are locked, and the
\* others are watched.
LockPart(k, v) ==
    /\ v \in deployed[k]
    /\ CanLock(k, v)
    /\ \E kinds \in SUBSET {Kind[r] : r \in Manifest[k][v]} : \E g \in kinds \ watched :
          /\ held' = [held EXCEPT ![k] = {r \in Manifest[k][v] : Kind[r] \in kinds}]
          /\ watched' = watched \cup (kinds \ {g})
    /\ UNCHANGED deployed

Unlock(k) ==
    /\ held' = [held EXCEPT ![k] = {}]
    /\ UNCHANGED <<deployed, watched>>

\* A new register is empty, and its watcher watches nothing.
Forget ==
    /\ held' = [k \in Keys |-> {}]
    /\ watched' = {}
    /\ UNCHANGED deployed

Next == \/ Forget
        \/ \E k \in Keys : \/ Unlock(k)
                           \/ \E v \in Revisions : Deploy(k, v) \/ Lock(k, v) \/ LockPart(k, v)

Safe == Init /\ [][Next]_vars
=============================================================================
