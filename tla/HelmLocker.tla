----------------------------- MODULE HelmLocker -----------------------------
(***************************************************************************)
(* The embedded Helm Locker (src/pkg/helm-locker): the in-memory register  *)
(* of object sets (objectset/cache.go), the controller that applies them   *)
(* (objectset/handler.go) and the controller that watches Helm releases    *)
(* (controllers/release/controller.go), run against a cluster in which     *)
(* Helm upgrades and removes releases and users modify resources.          *)
(*                                                                         *)
(* The steps are as fine as the locks of cache.go: a goroutine that has    *)
(* read the register under stateMapLock and released the lock can be       *)
(* overtaken before it writes.  A state object lives in a heap, because    *)
(* deleteState writes to an object that the event channel, the informer    *)
(* and a running reconcile may share.                                      *)
(*                                                                         *)
(* An object set is identified by the revision whose manifest it was       *)
(* parsed from; 0 is a nil ObjectSet.                                      *)
(***************************************************************************)
EXTENDS Integers, Sequences, FiniteSets

CONSTANTS Keys,         \* release keys; each has one HelmRelease
          Resources,    \* the objects of all manifests
          Kinds, Kind,  \* the GVKs, and the GVK of each resource
          Manifest,     \* the resources of a key's revision
          Watchers,     \* workers of the GVK watcher's controllers
          Uninstalled,  \* bound: the releases that Helm may uninstall
          Deleted,      \* bound: the keys whose HelmRelease may be deleted
          MaxRevision,  \* bound: revisions Helm creates for a release
          Capacity,     \* of the channel stateChanges; 50 in the code
          MaxDrift,     \* bound: modifications by users
          Faults,       \* bound: what may go wrong
          MaxFaults,    \* bound: how often it does
          MaxObjects,   \* size of the heap of state objects
          NoKey         \* stands for the absence of a key

Revisions == 1..MaxRevision
Objects   == 1..MaxObjects
Callers   == Keys \cup Watchers     \* goroutines that call setState

ASSUME ManifestAssumption == Manifest \in [Keys -> [Revisions -> SUBSET Resources]]
ASSUME KindAssumption == Kind \in [Resources -> Kinds]
ASSUME NamesAssumption == NoKey \notin Callers /\ Keys \cap Watchers = {}
ASSUME BoundsAssumption == Uninstalled \cup Deleted \subseteq Keys
                           /\ {Capacity, MaxDrift, MaxFaults, MaxObjects} \subseteq Nat
                           /\ MaxRevision \in Nat \ {0}

VARIABLES
    (* the cluster *)
    history,       \* of each release: the status of each of its revisions
    cr,            \* the HelmRelease of each key
    status,        \* and its Status.State
    live,          \* the content of each resource, and the set it is labelled with
    drifts, faults,
    (* the release controller: its queue, and its worker on each key *)
    relQueue, rel,
    (* the register *)
    stateByKey, heap, stateChanges,
    holder,        \* the goroutine that holds stateMapLock for writing
    call,          \* the running setState of each caller
    entries,       \* keyByResourceKeyByGVK
    (* the informer and the object set controller *)
    listed, store, setQueue, set,
    (* the GVK watcher *)
    watching,      \* gvkStarted: the GVKs that are watched
    gvkQueue,
    (* no variable of the code: the keys whose last lock a failing Watch cut short *)
    missed

cluster  == <<history, cr, status, live, drifts, faults>>
release  == <<relQueue, rel>>
register == <<stateByKey, stateChanges, holder, call, entries>>
informer == <<listed, store, setQueue, set>>
watcher  == <<watching, gvkQueue, missed>>
vars     == <<cluster, release, register, heap, informer, watcher>>

-----------------------------------------------------------------------------
(* Types and helpers *)

Nil    == 0            \* a nil pointer, a nil ObjectSet
Unused == [os |-> Nil, locked |-> FALSE]

Foreign == 0           \* content that no manifest has
Missing == [val |-> -1, set |-> NoKey]

\* The status of a revision.  Helm writes "pending" before it changes any
\* resource and keeps it until it is done ("written": it has changed them).
Transitioning == {"pending", "written", "uninstalling"}
Statuses == Transitioning \cup {"deployed", "superseded", "failed", "uninstalled", "removed"}

Last(k) == history[k][Len(history[k])]

\* Mutant of State: the status is reported as Helm has it.
StateAsIs(s) == s

\* newReleaseInfo: Helm's status as the State of a HelmRelease.
State(s) == IF s \in Transitioning THEN "Transitioning" ELSE s

IdleCall == [pc |-> "idle", key |-> NoKey, os |-> Nil, locked |-> FALSE, old |-> Nil]
IdleRel  == [pc |-> "idle", purge |-> FALSE, old |-> Nil]
IdleSet  == [pc |-> "idle", obj |-> Nil, os |-> Nil]

RelSteps  == {"idle", "unlock", "setting", "get", "remove", "clearSet", "clearLocked",
              "announce", "onRemove", "purge"}
SetSteps  == {"idle", "read", "write", "getLock", "lock"}
CallSteps == {"idle", "get", "copy", "publish"}

EntriesOf(k)  == {r \in Resources : entries[r] = k}
Without(k)    == [r \in Resources |-> IF entries[r] = k THEN NoKey ELSE entries[r]]
ObjectsOf(k, os) == IF os = Nil THEN {} ELSE Manifest[k][os]
KindsOf(k, os)   == {Kind[r] : r \in ObjectsOf(k, os)}

\* The state objects that some goroutine or data structure still points to.
Reachable == {stateByKey[k] : k \in Keys} \cup {store[k] : k \in Keys}
             \cup {set[k].obj : k \in Keys} \cup {rel[k].old : k \in Keys}
             \cup {call[c].old : c \in Callers}
             \cup {stateChanges[i].obj : i \in 1..Len(stateChanges)}

\* The heap after a step, garbage collected.
Collect(h) == heap' = [p \in Objects |-> IF p \in Reachable' THEN h[p] ELSE Unused]

\* New state objects; MaxObjects bounds what is in use.
Free  == Objects \ Reachable
Fresh == CHOOSE p \in Free : TRUE

\* The GVK watcher sees every change of a resource it watches.
Notify == gvkQueue' = gvkQueue \cup {r \in Resources : Kind[r] \in watching /\ live'[r] # live[r]}

TypeOK ==
    /\ history \in [Keys -> Seq(Statuses)] /\ \A k \in Keys : Len(history[k]) \in Revisions
    /\ cr \in [Keys -> {"unclaimed", "managed", "deleting", "gone"}]
    /\ status \in [Keys -> {"none", "Transitioning", "deployed", "failed", "uninstalled", "removed"}]
    /\ live \in [Resources -> [val : -1..MaxRevision, set : Keys \cup {NoKey}]]
    /\ drifts \in 0..MaxDrift /\ faults \in 0..MaxFaults
    /\ relQueue \subseteq Keys
    /\ rel \in [Keys -> [pc : RelSteps, purge : BOOLEAN, old : 0..MaxObjects]]
    /\ stateByKey \in [Keys -> 0..MaxObjects]
    /\ heap \in [Objects -> [os : 0..MaxRevision, locked : BOOLEAN]]
    /\ stateChanges \in Seq([key : Keys, obj : 0..MaxObjects])
    /\ Len(stateChanges) <= Capacity
    /\ holder \in Callers \cup {NoKey}
    /\ call \in [Callers -> [pc : CallSteps, key : Keys \cup {NoKey}, os : 0..MaxRevision,
                             locked : BOOLEAN, old : 0..MaxObjects]]
    /\ entries \in [Resources -> Keys \cup {NoKey}]
    /\ listed \in BOOLEAN
    /\ store \in [Keys -> 0..MaxObjects]
    /\ setQueue \subseteq Keys
    /\ set \in [Keys -> [pc : SetSteps, obj : 0..MaxObjects, os : 0..MaxRevision]]
    /\ watching \subseteq Kinds
    /\ gvkQueue \subseteq Resources
    /\ missed \subseteq Keys

\* The operator starts in a cluster where every release has been deployed and
\* has a HelmRelease, as the project controller creates it.  Its informer has
\* listed the still empty register (l is TRUE) or not.
Start(l) ==
    /\ history = [k \in Keys |-> <<"deployed">>]
    /\ cr = [k \in Keys |-> "unclaimed"]
    /\ status = [k \in Keys |-> "none"]
    /\ live = [r \in Resources |->
                 IF \E k \in Keys : r \in Manifest[k][1] THEN [val |-> 1, set |-> NoKey] ELSE Missing]
    /\ drifts = 0 /\ faults = 0
    /\ relQueue = Keys
    /\ rel = [k \in Keys |-> IdleRel]
    /\ stateByKey = [k \in Keys |-> Nil]
    /\ heap = [p \in Objects |-> Unused]
    /\ stateChanges = <<>>
    /\ holder = NoKey
    /\ call = [c \in Callers |-> IdleCall]
    /\ entries = [r \in Resources |-> NoKey]
    /\ listed = l
    /\ store = [k \in Keys |-> Nil]
    /\ setQueue = {}
    /\ set = [k \in Keys |-> IdleSet]
    /\ watching = {}
    /\ gvkQueue = {}
    /\ missed = {}

-----------------------------------------------------------------------------
(* The cluster: Helm, and users *)

\* A change of a release secret enqueues its HelmRelease, if there is one
\* (resolveHelmRelease).
SetHistory(k, h) ==
    /\ history' = [history EXCEPT ![k] = h]
    /\ relQueue' = IF cr[k] = "gone" THEN relQueue ELSE relQueue \cup {k}

\* helm upgrade or helm rollback creates a new revision.
HelmBegins(k) ==
    /\ Last(k) \in {"deployed", "failed"}
    /\ Len(history[k]) < MaxRevision
    /\ SetHistory(k, Append(history[k], "pending"))
    /\ UNCHANGED <<cr, status, live, drifts, faults, rel, register, informer, watcher, heap>>

\* Helm creates and patches the resources of the new manifest, keeping the
\* labels it does not know, and deletes those of the release that are not in it.
HelmWrites(k) ==
    LET rev == Len(history[k]) IN
    /\ Last(k) = "pending"
    /\ SetHistory(k, [history[k] EXCEPT ![rev] = "written"])
    /\ live' = [r \in Resources |->
                  CASE r \in Manifest[k][rev] -> [live[r] EXCEPT !.val = rev]
                    [] /\ r \notin Manifest[k][rev]
                       /\ \E v \in 1..(rev - 1) : r \in Manifest[k][v] -> Missing
                    [] OTHER -> live[r]]
    /\ Notify
    /\ UNCHANGED <<cr, status, drifts, faults, rel, register, informer, watching, missed, heap>>

\* The operation ends; a success supersedes the revision deployed before.
HelmEnds(k) ==
    LET rev == Len(history[k]) IN
    /\ Last(k) = "written"
    /\ \/ SetHistory(k, [v \in 1..rev |-> CASE v = rev -> "deployed"
                                            [] history[k][v] = "deployed" -> "superseded"
                                            [] OTHER -> history[k][v]])
       \/ SetHistory(k, [history[k] EXCEPT ![rev] = "failed"])
    /\ UNCHANGED <<cr, status, live, drifts, faults, rel, register, informer, watcher, heap>>

\* helm uninstall, then the removal of the resources and of the release secret,
\* which stays when the history is kept.
HelmUninstalls(k) ==
    LET rev == Len(history[k]) IN
    /\ k \in Uninstalled
    /\ \/ /\ Last(k) = "deployed"
          /\ SetHistory(k, [history[k] EXCEPT ![rev] = "uninstalling"])
          /\ UNCHANGED live
       \/ /\ Last(k) = "uninstalling"
          /\ \E s \in {"uninstalled", "removed"} : SetHistory(k, [history[k] EXCEPT ![rev] = s])
          /\ live' = [r \in Resources |-> IF r \in Manifest[k][rev] THEN Missing ELSE live[r]]
    /\ Notify
    /\ UNCHANGED <<cr, status, drifts, faults, rel, register, informer, watching, missed, heap>>

\* A user or another controller modifies or deletes a resource.
UserDrifts(r) ==
    /\ drifts < MaxDrift
    /\ drifts' = drifts + 1
    /\ live[r] # Missing
    /\ live' \in {[live EXCEPT ![r].val = Foreign], [live EXCEPT ![r] = Missing]}
    /\ Notify
    /\ UNCHANGED <<history, cr, status, faults, release, register, informer, watching, missed, heap>>

\* The project controller or a user deletes the HelmRelease.
HelmReleaseDeleted(k) ==
    /\ k \in Deleted /\ cr[k] = "managed"
    /\ cr' = [cr EXCEPT ![k] = "deleting"]
    /\ relQueue' = relQueue \cup {k}
    /\ UNCHANGED <<history, status, live, drifts, faults, rel, register, informer, watcher, heap>>

\* A write to the API server fails, a GVK cannot be watched, or the operator restarts.
Fails(f) == /\ f \in Faults /\ faults < MaxFaults
            /\ faults' = faults + 1

-----------------------------------------------------------------------------
(* The release controller *)

\* UpdateStatus enqueues the HelmRelease again when it changes it.  The queue is
\* the one the step leaves otherwise.
SetStatus(k, s, queue) ==
    /\ status' = [status EXCEPT ![k] = s]
    /\ relQueue' = IF status[k] = s THEN queue ELSE queue \cup {k}

\* OnHelmRelease: a HelmRelease without the annotation is claimed; the update
\* enqueues it again.
ClaimRelease(k) ==
    /\ rel[k].pc = "idle" /\ k \in relQueue
    /\ cr[k] = "unclaimed"
    /\ cr' = [cr EXCEPT ![k] = "managed"]
    /\ UNCHANGED <<history, status, live, drifts, faults, release, register, heap, informer, watcher>>

\* Mutant of ReconcileRelease: every revision is Set.
SetsAnyRevision(k) ==
    /\ rel[k].pc = "idle" /\ k \in relQueue
    /\ cr[k] = "managed" /\ Last(k) # "removed"
    /\ SetStatus(k, State(Last(k)), relQueue \ {k})
    /\ rel' = [rel EXCEPT ![k].pc = "setting"]
    /\ call' = [call EXCEPT ![k] = [IdleCall EXCEPT !.pc = "get", !.key = k, !.os = Len(history[k])]]
    /\ UNCHANGED <<history, cr, live, drifts, faults, stateByKey, stateChanges, holder, entries,
                   heap, informer, watcher>>

\* OnHelmRelease: the latest revision is loaded and its status reported; a
\* deployed revision is then Set, any other unlocked.
\* A call that fails before that leaves everything as it is, and the key queued.
ReconcileRelease(k) ==
    /\ rel[k].pc = "idle" /\ k \in relQueue
    /\ cr[k] = "managed" /\ Last(k) # "removed"
    /\ SetStatus(k, State(Last(k)), relQueue \ {k})
    /\ IF Last(k) = "deployed"
       THEN /\ rel' = [rel EXCEPT ![k].pc = "setting"]
            /\ call' = [call EXCEPT ![k] = [IdleCall EXCEPT !.pc = "get", !.key = k, !.os = Len(history[k])]]
       ELSE /\ rel' = [rel EXCEPT ![k].pc = "unlock"]
            /\ UNCHANGED call
    /\ UNCHANGED <<history, cr, live, drifts, faults, stateByKey, stateChanges, holder, entries,
                   heap, informer, watcher>>

\* Mutant of ReleaseNotFound: a release known to be removed is not looked at again.
NotFoundOnce(k) ==
    /\ rel[k].pc = "idle" /\ k \in relQueue
    /\ cr[k] = "managed" /\ Last(k) = "removed"
    /\ relQueue' = relQueue \ {k}
    /\ rel' = IF status[k] = "removed" THEN rel
              ELSE [rel EXCEPT ![k] = [IdleRel EXCEPT !.pc = "get", !.purge = TRUE]]
    /\ UNCHANGED <<cluster, register, heap, informer, watcher>>

\* OnHelmRelease: the release secret is not found, so the key is Deleted and
\* its resources purged.
ReleaseNotFound(k) ==
    /\ rel[k].pc = "idle" /\ k \in relQueue
    /\ cr[k] = "managed" /\ Last(k) = "removed"
    /\ relQueue' = relQueue \ {k}
    /\ rel' = [rel EXCEPT ![k] = [IdleRel EXCEPT !.pc = "get", !.purge = TRUE]]
    /\ UNCHANGED <<cluster, register, heap, informer, watcher>>

\* OnHelmReleaseRemove, before the finalizer is removed: the key is Deleted
\* without a purge, unless the status says that there is nothing to delete.
\* Its disappearance enqueues the HelmRelease once more.
RemoveRelease(k) ==
    /\ rel[k].pc = "idle" /\ k \in relQueue
    /\ cr[k] = "deleting"
    /\ IF status[k] \in {"removed", "uninstalled"}
       THEN /\ cr' = [cr EXCEPT ![k] = "gone"]
            /\ UNCHANGED <<relQueue, rel>>
       ELSE /\ rel' = [rel EXCEPT ![k] = [IdleRel EXCEPT !.pc = "get"]]
            /\ relQueue' = relQueue \ {k}
            /\ UNCHANGED cr
    /\ UNCHANGED <<history, status, live, drifts, faults, register, heap, informer, watcher>>

\* An event for a HelmRelease that no longer exists.
IgnoreRelease(k) ==
    /\ rel[k].pc = "idle" /\ k \in relQueue
    /\ cr[k] = "gone"
    /\ relQueue' = relQueue \ {k}
    /\ UNCHANGED <<cluster, rel, register, heap, informer, watcher>>

\* OnHelmRelease: a release that is not deployed is unlocked.  Its state in the
\* register stays as it is.
UnlockRelease(k) ==
    /\ rel[k].pc = "unlock"
    /\ entries' = Without(k)
    /\ rel' = [rel EXCEPT ![k] = IdleRel]
    /\ UNCHANGED <<cluster, relQueue, stateByKey, stateChanges, holder, call, informer, watcher, heap>>

-----------------------------------------------------------------------------
(* Delete: deleteState, then OnRemove *)

\* deleteState: getState.
DeleteGets(k) ==
    /\ rel[k].pc = "get" /\ holder = NoKey
    /\ rel' = [rel EXCEPT ![k].old = stateByKey[k],
                          ![k].pc = IF stateByKey[k] = Nil THEN "onRemove" ELSE "remove"]
    /\ UNCHANGED <<cluster, relQueue, register, informer, watcher, heap>>

\* deleteState: the key is removed from the map under the lock.
DeleteRemoves(k) ==
    /\ rel[k].pc = "remove" /\ holder = NoKey
    /\ stateByKey' = [stateByKey EXCEPT ![k] = Nil]
    /\ rel' = [rel EXCEPT ![k].pc = "clearSet"]
    /\ UNCHANGED <<cluster, relQueue, stateChanges, holder, call, entries, informer, watcher>>
    /\ Collect(heap)

\* deleteState: the object read before is cleared, without a lock, one field at a time.
DeleteClears(k) ==
    /\ \/ /\ rel[k].pc = "clearSet"
          /\ rel' = [rel EXCEPT ![k].pc = "clearLocked"]
          /\ heap' = [heap EXCEPT ![rel[k].old].os = Nil]
       \/ /\ rel[k].pc = "clearLocked"
          /\ rel' = [rel EXCEPT ![k].pc = "announce"]
          /\ heap' = [heap EXCEPT ![rel[k].old].locked = FALSE]
    /\ UNCHANGED <<cluster, relQueue, register, informer, watcher>>

\* Mutant of DeleteAnnounces: no Deleted event is sent.
DeletesSilently(k) ==
    /\ rel[k].pc = "announce"
    /\ rel' = [rel EXCEPT ![k].pc = "onRemove", ![k].old = Nil]
    /\ UNCHANGED <<cluster, relQueue, stateByKey, stateChanges, holder, call, entries, informer, watcher>>
    /\ Collect(heap)

\* deleteState: the Deleted event is sent, without a lock.
DeleteAnnounces(k) ==
    /\ rel[k].pc = "announce" /\ Len(stateChanges) < Capacity
    /\ stateChanges' = Append(stateChanges, [key |-> k, obj |-> Nil])
    /\ rel' = [rel EXCEPT ![k].pc = "onRemove", ![k].old = Nil]
    /\ UNCHANGED <<cluster, relQueue, stateByKey, holder, call, entries, informer, watcher>>
    /\ Collect(heap)

\* OnRemove: the entries are removed.  Without a purge nothing else happens,
\* and the HelmRelease disappears with its finalizer, which enqueues it.
OnRemove(k) ==
    /\ rel[k].pc = "onRemove"
    /\ entries' = Without(k)
    /\ IF rel[k].purge
       THEN /\ rel' = [rel EXCEPT ![k].pc = "purge"]
            /\ UNCHANGED <<cr, relQueue>>
       ELSE /\ rel' = [rel EXCEPT ![k] = IdleRel]
            /\ cr' = [cr EXCEPT ![k] = "gone"]
            /\ relQueue' = relQueue \cup {k}
    /\ UNCHANGED <<history, status, live, drifts, faults, stateByKey, stateChanges, holder,
                   call, informer, watcher, heap>>

\* What an apply of an object set as the set of k makes of the cluster:
\* everything else that carries the label of the set is pruned, among the GVKs of
\* the object set, or among all GVKs if there is none (configureApply).
Applied(k, os) ==
    [r \in Resources |->
       CASE r \in ObjectsOf(k, os) -> [val |-> os, set |-> k]
         [] /\ r \notin ObjectsOf(k, os)
            /\ live[r].set = k
            /\ os = Nil \/ Kind[r] \in KindsOf(k, os) -> Missing
         [] OTHER -> live[r]]

\* OnRemove: the purge, an apply of no objects, whose failure is only logged;
\* then OnHelmRelease reports that the secret was not found.
Purge(k) ==
    /\ rel[k].pc = "purge"
    /\ \/ live' = Applied(k, Nil) /\ UNCHANGED faults
       \/ Fails("write") /\ UNCHANGED live
    /\ Notify
    /\ SetStatus(k, "removed", relQueue)
    /\ rel' = [rel EXCEPT ![k] = IdleRel]
    /\ UNCHANGED <<history, cr, drifts, register, informer, watching, missed, heap>>

-----------------------------------------------------------------------------
(* setState, called by Set in a release worker and by Enqueue in a GVK worker *)

\* getState
SetStateGets(c) ==
    /\ call[c].pc = "get" /\ holder = NoKey
    /\ call' = [call EXCEPT ![c].pc = "copy", ![c].old = stateByKey[call[c].key]]
    /\ UNCHANGED <<cluster, release, stateByKey, stateChanges, holder, entries, informer, watcher, heap>>

\* Mutants of SetStateCopies: Set forgets to lock the state, or loses against
\* the object set that is already there.
CopyUnlocked(c) ==
    LET base == IF call[c].old = Nil THEN Unused ELSE heap[call[c].old] IN
    /\ call[c].pc = "copy"
    /\ call' = [call EXCEPT ![c].pc = "publish", ![c].old = Nil,
                            ![c].os = IF @ = Nil THEN base.os ELSE @,
                            ![c].locked = base.locked]
    /\ UNCHANGED <<cluster, release, stateByKey, stateChanges, holder, entries, informer, watcher>>
    /\ Collect(heap)

CopyWins(c) ==
    LET base == IF call[c].old = Nil THEN Unused ELSE heap[call[c].old] IN
    /\ call[c].pc = "copy"
    /\ call' = [call EXCEPT ![c].pc = "publish", ![c].old = Nil,
                            ![c].os = IF base.os = Nil THEN @ ELSE base.os,
                            ![c].locked = base.locked \/ call[c].os # Nil]
    /\ UNCHANGED <<cluster, release, stateByKey, stateChanges, holder, entries, informer, watcher>>
    /\ Collect(heap)

\* The old object is copied, outside the lock, and the arguments override the
\* copy.  Set passes an object set it has just parsed and Enqueue forces the
\* event, so the object counts as changed in both.
SetStateCopies(c) ==
    LET base == IF call[c].old = Nil THEN Unused ELSE heap[call[c].old] IN
    /\ call[c].pc = "copy"
    /\ call' = [call EXCEPT ![c].pc = "publish", ![c].old = Nil,
                            ![c].os = IF @ = Nil THEN base.os ELSE @,
                            ![c].locked = base.locked \/ call[c].os # Nil]
    /\ UNCHANGED <<cluster, release, stateByKey, stateChanges, holder, entries, informer, watcher>>
    /\ Collect(heap)

\* The caller has the lock and the channel is full: it keeps the lock.
SetStateBlocks(c) ==
    /\ call[c].pc = "publish" /\ holder = NoKey
    /\ Len(stateChanges) = Capacity
    /\ holder' = c
    /\ UNCHANGED <<cluster, release, stateByKey, stateChanges, call, entries, informer, watcher, heap>>

\* Mutant of SetStateSends: an event that finds the channel full is dropped.
SendOrDrop(c) ==
    LET k == call[c].key
        p == Fresh IN
    /\ call[c].pc = "publish" /\ holder \in {c, NoKey} /\ Free # {}
    /\ stateChanges' = IF Len(stateChanges) < Capacity
                       THEN Append(stateChanges, [key |-> k, obj |-> p]) ELSE stateChanges
    /\ stateByKey' = [stateByKey EXCEPT ![k] = p]
    /\ holder' = NoKey
    /\ call' = [call EXCEPT ![c] = IdleCall]
    /\ rel' = IF c \in Keys THEN [rel EXCEPT ![c] = IdleRel] ELSE rel
    /\ UNCHANGED <<cluster, relQueue, entries, informer, watcher>>
    /\ Collect([heap EXCEPT ![p] = [os |-> call[c].os, locked |-> call[c].locked]])

\* The event is sent and the state stored, holding the lock.
SetStateSends(c) ==
    LET k == call[c].key
        p == Fresh IN
    /\ call[c].pc = "publish" /\ holder \in {c, NoKey}
    /\ Len(stateChanges) < Capacity /\ Free # {}
    /\ stateChanges' = Append(stateChanges, [key |-> k, obj |-> p])
    /\ stateByKey' = [stateByKey EXCEPT ![k] = p]
    /\ holder' = NoKey
    /\ call' = [call EXCEPT ![c] = IdleCall]
    /\ rel' = IF c \in Keys THEN [rel EXCEPT ![c] = IdleRel] ELSE rel
    /\ UNCHANGED <<cluster, relQueue, entries, informer, watcher>>
    /\ Collect([heap EXCEPT ![p] = [os |-> call[c].os, locked |-> call[c].locked]])

SetState(c) == SetStateGets(c) \/ SetStateCopies(c) \/ SetStateBlocks(c) \/ SetStateSends(c)

-----------------------------------------------------------------------------
(* The informer *)

\* The reflector's List copies the states of the map; the informer is new, so
\* it enqueues each of them.
ListStates ==
    LET copies == {f \in [Keys -> Free] : \A j, k \in Keys : f[j] = f[k] => j = k}
        copy   == CHOOSE f \in copies : TRUE IN
    /\ ~listed /\ holder = NoKey /\ copies # {}
    /\ listed' = TRUE
    /\ store' = [k \in Keys |-> IF stateByKey[k] = Nil THEN Nil ELSE copy[k]]
    /\ setQueue' = {k \in Keys : stateByKey[k] # Nil}
    /\ UNCHANGED <<cluster, release, register, set, watcher>>
    /\ Collect([p \in Objects |->
                  IF \E k \in Keys : store'[k] = p
                  THEN heap[stateByKey[CHOOSE k \in Keys : store'[k] = p]] ELSE heap[p]])

\* Mutant of Deliver: the watch takes the lock that the sender holds.
DeliverLocked ==
    LET e == Head(stateChanges) IN
    /\ listed /\ stateChanges # <<>> /\ holder = NoKey
    /\ stateChanges' = Tail(stateChanges)
    /\ store' = [store EXCEPT ![e.key] = e.obj]
    /\ setQueue' = setQueue \cup {e.key}
    /\ UNCHANGED <<cluster, release, stateByKey, holder, call, entries, listed, set, watcher>>
    /\ Collect(heap)

\* The reflector takes an event off the channel; the informer updates its
\* store and enqueues the key.
Deliver ==
    LET e == Head(stateChanges) IN
    /\ listed /\ stateChanges # <<>>
    /\ stateChanges' = Tail(stateChanges)
    /\ store' = [store EXCEPT ![e.key] = e.obj]
    /\ setQueue' = setQueue \cup {e.key}
    /\ UNCHANGED <<cluster, release, stateByKey, holder, call, entries, listed, set, watcher>>
    /\ Collect(heap)

-----------------------------------------------------------------------------
(* The object set controller: OnChange, one worker at a time on a key *)

\* The key has no state any more.
NothingToReconcile(k) ==
    /\ set[k].pc = "idle" /\ k \in setQueue
    /\ store[k] = Nil
    /\ setQueue' = setQueue \ {k}
    /\ UNCHANGED <<cluster, release, register, listed, store, set, watcher, heap>>

\* The entries are removed so that the apply does not trigger the watcher; a
\* state that is not locked is left alone.
StartReconcile(k) ==
    /\ set[k].pc = "idle" /\ k \in setQueue
    /\ store[k] # Nil
    /\ setQueue' = setQueue \ {k}
    /\ entries' = Without(k)
    /\ set' = IF heap[store[k]].locked
              THEN [set EXCEPT ![k] = [pc |-> "read", obj |-> store[k], os |-> Nil]] ELSE set
    /\ UNCHANGED <<cluster, release, stateByKey, stateChanges, holder, call, listed, store, watcher, heap>>

\* The object set to apply is read from the state object.
ReconcileReads(k) ==
    /\ set[k].pc = "read"
    /\ set' = [set EXCEPT ![k] = [pc |-> "write", obj |-> Nil, os |-> heap[set[k].obj].os]]
    /\ UNCHANGED <<cluster, release, register, listed, store, setQueue, watcher>>
    /\ Collect(heap)

\* Mutant of ReconcileApplies: the key is not locked again.
AppliesWithoutLock(k) ==
    /\ set[k].pc = "write"
    /\ live' = Applied(k, set[k].os)
    /\ Notify
    /\ set' = [set EXCEPT ![k] = IdleSet]
    /\ UNCHANGED <<history, cr, status, drifts, faults, release, register, listed, store, setQueue,
                   watching, missed, heap>>

\* The apply succeeds, and the deferred Lock runs.
ReconcileApplies(k) ==
    /\ set[k].pc = "write"
    /\ live' = Applied(k, set[k].os)
    /\ Notify
    /\ set' = [set EXCEPT ![k] = [IdleSet EXCEPT !.pc = "getLock"]]
    /\ UNCHANGED <<history, cr, status, drifts, faults, release, register, listed, store, setQueue,
                   watching, missed, heap>>

\* The apply fails on some of the resources; the deferred Lock still runs, and
\* the key is retried.
ReconcileFails(k) ==
    /\ set[k].pc = "write"
    /\ Fails("write")
    /\ \E done \in SUBSET Resources :
          live' = [r \in Resources |->
                     IF r \in done THEN Applied(k, set[k].os)[r] ELSE live[r]]
    /\ Notify
    /\ set' = [set EXCEPT ![k] = [IdleSet EXCEPT !.pc = "getLock"]]
    /\ setQueue' = setQueue \cup {k}
    /\ UNCHANGED <<history, cr, status, drifts, release, register, listed, store, watching, missed, heap>>

\* Lock: getState; there is nothing to lock without a state or an object set.
LockGets(k) ==
    /\ set[k].pc = "getLock" /\ holder = NoKey
    /\ LET os == IF stateByKey[k] = Nil THEN Nil ELSE heap[stateByKey[k]].os IN
       set' = [set EXCEPT ![k] = IF os = Nil THEN IdleSet ELSE [pc |-> "lock", obj |-> Nil, os |-> os]]
    /\ UNCHANGED <<cluster, release, register, listed, store, setQueue, watcher, heap>>

\* Mutant of CanLock: nothing is refused.
CanLockAll(k, os) == TRUE

\* canLock: no resource of the object set belongs to another one.
CanLock(k, os) == \A r \in ObjectsOf(k, os) : entries[r] \in {k, NoKey}

\* lock: the entries of the key become those of the given kinds of its object
\* set; a GVK that is watched from now on lists the existing resources.
TakeEntries(k, kinds, watched) ==
    /\ entries' = [r \in Resources |-> IF /\ r \in ObjectsOf(k, set[k].os)
                                           /\ Kind[r] \in kinds THEN k ELSE Without(k)[r]]
    /\ watching' = watching \cup watched
    /\ gvkQueue' = gvkQueue \cup {r \in Resources : /\ Kind[r] \in watched \ watching
                                                   /\ live[r] # Missing}

\* Mutant of LockEntries: each entry is refused or taken on its own.
LockOneByOne(k) ==
    LET free == {r \in ObjectsOf(k, set[k].os) : entries[r] \in {k, NoKey}} IN
    /\ set[k].pc = "lock"
    /\ entries' = [r \in Resources |-> IF r \in free THEN k ELSE Without(k)[r]]
    /\ watching' = watching \cup KindsOf(k, set[k].os)
    /\ gvkQueue' = gvkQueue \cup {r \in Resources : Kind[r] \in watching' \ watching /\ live[r] # Missing}
    /\ missed' = missed \ {k}
    /\ set' = [set EXCEPT ![k] = IdleSet]
    /\ UNCHANGED <<cluster, release, stateByKey, stateChanges, holder, call, listed, store, setQueue, heap>>

\* lock: the entries of the key are replaced and its GVKs watched, unless
\* canLock refuses, which Lock ignores.
LockEntries(k) ==
    /\ set[k].pc = "lock"
    /\ IF CanLock(k, set[k].os)
       THEN /\ TakeEntries(k, KindsOf(k, set[k].os), KindsOf(k, set[k].os))
            /\ missed' = missed \ {k}
       ELSE UNCHANGED <<entries, watcher>>
    /\ set' = [set EXCEPT ![k] = IdleSet]
    /\ UNCHANGED <<cluster, release, stateByKey, stateChanges, holder, call, listed, store, setQueue, heap>>

\* Mutant of LockFails: a GVK counts as started before its controller is.
LockFailsStarted(k) ==
    /\ set[k].pc = "lock" /\ CanLock(k, set[k].os)
    /\ Fails("watch")
    /\ \E g \in KindsOf(k, set[k].os) \ watching, done \in SUBSET KindsOf(k, set[k].os) :
          g \notin done /\ TakeEntries(k, done \cup {g}, done \cup {g})
    /\ missed' = missed \cup {k}
    /\ set' = [set EXCEPT ![k] = IdleSet]
    /\ UNCHANGED <<history, cr, status, live, drifts, release, stateByKey, stateChanges, holder, call,
                   listed, store, setQueue, heap>>

\* lock: the Watch of a GVK fails, after those of some others.  The entries of the
\* GVKs that the loop has not reached are missing, and Lock drops the error.
LockFails(k) ==
    /\ set[k].pc = "lock" /\ CanLock(k, set[k].os)
    /\ Fails("watch")
    /\ \E g \in KindsOf(k, set[k].os) \ watching, done \in SUBSET KindsOf(k, set[k].os) :
          g \notin done /\ TakeEntries(k, done \cup {g}, done)
    /\ missed' = missed \cup {k}
    /\ set' = [set EXCEPT ![k] = IdleSet]
    /\ UNCHANGED <<history, cr, status, live, drifts, release, stateByKey, stateChanges, holder, call,
                   listed, store, setQueue, heap>>

-----------------------------------------------------------------------------
(* The GVK watcher *)

\* Resolve: a changed resource that belongs to a locked set makes the watcher
\* call Enqueue for the set; any other is dropped.
Resolve(w) ==
    /\ call[w].pc = "idle"
    /\ \E r \in gvkQueue :
          /\ gvkQueue' = gvkQueue \ {r}
          /\ call' = IF entries[r] = NoKey THEN call
                     ELSE [call EXCEPT ![w] = [IdleCall EXCEPT !.pc = "get", !.key = entries[r]]]
    /\ UNCHANGED <<cluster, release, stateByKey, stateChanges, holder, entries, informer, watching, missed, heap>>

-----------------------------------------------------------------------------
(* The whole system *)

\* Nothing is queued, in flight or running.
Quiet == /\ listed
         /\ relQueue = {} /\ setQueue = {} /\ gvkQueue = {} /\ stateChanges = <<>>
         /\ \A k \in Keys : rel[k].pc = "idle" /\ set[k].pc = "idle"
         /\ \A c \in Callers : call[c].pc = "idle"

\* The informers resync every ten hours: everything else is over by then.
ResyncReleases ==
    /\ Quiet
    /\ relQueue' = {k \in Keys : cr[k] # "gone"}
    /\ UNCHANGED <<cluster, rel, register, informer, watcher, heap>>

ResyncStates ==
    /\ Quiet
    /\ setQueue' = {k \in Keys : store[k] # Nil}
    /\ UNCHANGED <<cluster, release, register, listed, store, set, watcher, heap>>

\* The operator is restarted, in the middle of anything: the register, its locks and
\* all queues are in memory only.  The informer of HelmReleases lists what exists.
Restart ==
    /\ Fails("restart")
    /\ relQueue' = {k \in Keys : cr[k] # "gone"}
    /\ rel' = [k \in Keys |-> IdleRel]
    /\ stateByKey' = [k \in Keys |-> Nil]
    /\ heap' = [p \in Objects |-> Unused]
    /\ stateChanges' = <<>>
    /\ holder' = NoKey
    /\ call' = [c \in Callers |-> IdleCall]
    /\ entries' = [r \in Resources |-> NoKey]
    /\ listed' = FALSE
    /\ store' = [k \in Keys |-> Nil]
    /\ setQueue' = {}
    /\ set' = [k \in Keys |-> IdleSet]
    /\ watching' = {}
    /\ gvkQueue' = {}
    /\ missed' = {}
    /\ UNCHANGED <<history, cr, status, live, drifts>>

\* Deletion of a key's state, as the release worker goes through it.
Delete(k) == DeleteGets(k) \/ DeleteRemoves(k) \/ DeleteClears(k) \/ DeleteAnnounces(k)
             \/ OnRemove(k) \/ Purge(k)

ReleaseWorker(k) == \/ ClaimRelease(k) \/ ReconcileRelease(k) \/ ReleaseNotFound(k)
                    \/ RemoveRelease(k) \/ IgnoreRelease(k)
                    \/ UnlockRelease(k) \/ Delete(k) \/ SetState(k)

SetWorker(k) == NothingToReconcile(k) \/ StartReconcile(k) \/ ReconcileReads(k) \/ ReconcileApplies(k)
                \/ LockGets(k) \/ LockEntries(k)

WatchWorker(w) == Resolve(w) \/ SetState(w)

Informer == ListStates \/ Deliver

Helm(k) == HelmBegins(k) \/ HelmWrites(k) \/ HelmEnds(k) \/ HelmUninstalls(k)

Environment == \/ \E k \in Keys : Helm(k) \/ HelmReleaseDeleted(k)
               \/ \E r \in Resources : UserDrifts(r)

Operator == \/ \E k \in Keys : ReleaseWorker(k) \/ SetWorker(k) \/ ReconcileFails(k) \/ LockFails(k)
            \/ \E w \in Watchers : WatchWorker(w)
            \/ Informer
            \/ ResyncReleases \/ ResyncStates

Next == Environment \/ Operator \/ Restart

\* Every goroutine that can run eventually does.  The HelmRelease informer
\* resyncs again and again: strong fairness, since the resync of the other
\* informer may make the system busy for a while each time.
\* Helm and the users may stop at any point.
Fairness == /\ \A k \in Keys : WF_vars(ReleaseWorker(k)) /\ WF_vars(SetWorker(k))
            /\ \A w \in Watchers : WF_vars(WatchWorker(w))
            /\ WF_vars(Informer)
            /\ SF_vars(ResyncReleases)

\* From the first event on, and from the moment the informer has listed on.
Spec       == Start(FALSE) /\ [][Next]_vars /\ Fairness
SafeListed == Start(TRUE) /\ [][Next]_vars
SpecListed == SafeListed /\ Fairness

-----------------------------------------------------------------------------
(* Correctness *)

\* The entries of a key are those of one manifest, never of two mixed, all of them
\* or none, and their GVKs are watched (lock, cache.go:294-324).  Only a Watch
\* that fails in the loop over the GVKs leaves some of the GVKs locked (318).
LockedWhole == \A k \in Keys :
    /\ \E v \in 1..Len(history[k]), kinds \in SUBSET Kinds :
          /\ EntriesOf(k) = {r \in Manifest[k][v] : Kind[r] \in kinds}
          /\ k \notin missed => kinds \in {{}, Kinds}
    /\ k \notin missed => \A r \in EntriesOf(k) : Kind[r] \in watching

\* What Helm has deployed of a release, now or before it went on.
Deployed(k) == {v \in 1..Len(history[k]) : history[k][v] \notin {"pending", "written", "failed"}}

Promise == INSTANCE LockPromise WITH
              deployed <- [k \in Keys |-> Deployed(k)],
              held     <- [k \in Keys |-> EntriesOf(k)],
              watched  <- watching

\* The register keeps its promise: whatever was read too early or cleared too late, a
\* step locks and watches one whole manifest that Helm has deployed, none of whose
\* resources belongs to another release (or some GVKs of it, when one cannot be
\* watched), or unlocks one release, or forgets all.
LocksAsPromised == Promise!Safe

\* A resource passes from one release to another only by being unlocked in
\* between (canLock, cache.go:336-353): no lock takes an entry away.
NoStealing == [][\A r \in Resources :
    entries[r] # NoKey => entries'[r] \in {entries[r], NoKey}]_vars

\* A revision that Helm never finished deploying is neither registered nor
\* applied (release/controller.go:222-236), however late the worker that read
\* its secret runs.
LocksOnlyDeployed ==
    \A k \in Keys :
       \A os \in {set[k].os} \cup {heap[p].os : p \in {stateByKey[k], store[k]} \ {Nil}} :
          os # Nil => history[k][os] \notin {"pending", "written", "failed"}

\* At rest the informer serves the state the register holds, or none
\* (setState sends and stores under one lock, cache.go:266-273): its events
\* are never applied in another order than the states were stored in.
StoreFollows == Quiet => \A k \in Keys : store[k] \in {Nil, stateByKey[k]}

\* A release shown as deployed whose state is locked, and whose charts share no
\* resource with another release.
Alone(k) == \A j \in Keys \ {k}, u, v \in Revisions : Manifest[j][u] \cap Manifest[k][v] = {}

Lockable(k) == /\ cr[k] = "managed" /\ status[k] = "deployed" /\ Alone(k)
               /\ store[k] # Nil /\ heap[store[k]].locked

\* Its resources, and no others, resolve to it, and are watched.
Watched(k) == /\ EntriesOf(k) = ObjectsOf(k, heap[store[k]].os)
              /\ \A r \in EntriesOf(k) : Kind[r] \in watching

\* At rest such a release is watched, whatever the steps of Lock raced, if its last
\* lock was not cut short: Lock drops the error of canLock (cache.go:182), and
\* nothing tries again.
LockedAtRest == Quiet => \A k \in Keys : Lockable(k) /\ k \notin missed => Watched(k)

\* A release that stays deployed ends up with the content of its latest
\* manifest and keeps it, whatever users did, whatever was overwritten meanwhile
\* and whenever the operator was restarted: a resync repairs what the events missed.
Converges == \A k \in Keys :
    <>[](cr[k] = "managed" /\ Last(k) = "deployed")
    => <>[](\A r \in Manifest[k][Len(history[k])] : live[r].val = Len(history[k]))

\* A release whose secret stays away ends up with nothing that carries its label
\* (release/controller.go:205-212), even if the operator was restarted while it was
\* being purged and knows nothing of it.
PurgedInTheEnd == \A k \in Keys :
    <>[](cr[k] = "managed" /\ Last(k) = "removed") => <>[](\A r \in Resources : live[r].set # k)

\* Nobody holds stateMapLock for ever: a full channel is drained.
LockReleased == holder # NoKey ~> holder = NoKey

-----------------------------------------------------------------------------
(* What a comment says of the locker, and the code does not do *)

\* release/controller.go:189: "remove the objectset, but don't purge the
\* underlying resources".  While a HelmRelease is removed, no reconcile deletes
\* a resource of the deployed manifest.
RemovalKeepsResources == [][\A k \in Keys :
    ReconcileApplies(k) /\ Last(k) = "deployed" /\ cr[k] \in {"deleting", "gone"}
    => \A r \in Manifest[k][Len(history[k])] : live[r] # Missing => live'[r] # Missing]_vars
=============================================================================
