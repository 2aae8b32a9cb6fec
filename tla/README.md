# Verification of the Helm Project Operator

TLA+ models of the operator in `src/`, model-checked with TLC and partly proved
with TLAPS.  Paths below are relative to the repository.

The operator runs in one process and consists of controllers: handlers that are
called from work queues whenever an object of the cluster changes, read other
objects from informer caches that lag behind, and write objects through
wrangler's `apply`, which creates, patches, takes over and prunes objects by a
label.  Almost everything that is hard in this code comes from that scheme:
handlers run concurrently, decide from old copies, are called again after a
failure, and nobody is told of what did not change.

## 1. Components

### Applyinator (`src/pkg/applier`)
*State*: a rate-limited work queue of keys (queue, dirty, processing, delayed).
*Operations*: `Apply(key)` from any goroutine, `Run` with n workers, the
function that a worker calls, shut-down by the context.
*Used by* the namespace controller, with projects as keys.
*Hard*: a key requested while it is processed; a failed key in its back-off; the
shut-down.
*Correct when* no key is processed twice at once, and no request is lost or
starves (the interface comment: deduplicating, stingy, fair, retrying).

### Object set register (`src/pkg/helm-locker/objectset/{cache,state,controller}.go`)
*State*: `stateByKey` (one immutable state object for each release, with the
object set of its manifest and a "locked" mark), `stateChanges` (a channel of 50
events that an informer drains), `keyByResourceKeyByGVK` (which release locks
which resource), two mutexes.
*Operations*: `Set`, `Lock`, `Unlock`, `Enqueue` (by GVK watchers, through
`Resolve`), `Delete`, `List` and `Watch` (by its informer).
*Hard*: reads and writes under different locks, events sent under and outside of
a lock, a bounded channel, objects shared between goroutines.
*Correct when* the informer ends with the register's state, a lock takes one whole
manifest or nothing (or the resources of some kinds, when another one cannot be
watched) and never another release's resource, and nobody waits for ever.

### Object set controller (`src/pkg/helm-locker/objectset/handler.go`)
`OnChange` unlocks a release, applies its object set and locks it again;
`OnRemove` purges on request.  *Hard*: a user modifies a resource while nothing
watches it; an apply that fails half-way.  *Correct when* the resources converge
to the manifest.

### HelmRelease controller (`src/pkg/helm-locker/controllers/release`, `.../releases`)
Reads the latest Helm secret of a release and, by its state, sets and locks the
object set, unlocks it, or deletes and purges it.  *Hard*: Helm upgrades or
uninstalls between the read and its use; the HelmRelease is deleted at the same
time.  *Correct when* only finished revisions are applied, and nothing of a
release that was uninstalled remains.

### GVK watcher (`src/pkg/helm-locker/gvk`)
Starts a controller for each kind that occurs in a locked object set, whose
events call `Resolve` and `Enqueue`.

### Namespace controller (`src/pkg/controllers/namespace`)
*State*: a tracker of registration namespaces; indexes of namespaces by project.
*Operations*: the handler of namespaces, the apply of one project (run by the
Applyinator), the resolver of the ConfigMap, the start-up that handles all
namespaces once.
*Hard*: caches behind the cluster, deletions seen as `nil`, namespaces that move
between projects, applies that are only requested, crashes in between.
*Correct when* each project in use ends up with a tracked registration namespace
that is not marked as orphaned, with its ConfigMap.

### ProjectHelmChart controller (`src/pkg/controllers/project`, generated handler)
*State*: none of its own, apart from an index by release name; the status of a
ProjectHelmChart works as a claim on a release.
*Operations*: `OnChange` (decide, apply, update the status), `OnRemove`, `Remove`,
resolvers that enqueue ProjectHelmCharts.
*Hard*: two ProjectHelmCharts want one release and look at each other's cached
status; `shouldManage` depends on the tracker, which is filled asynchronously, and which a
registration namespace leaves when it is deleted.
*Correct when* one ProjectHelmChart at most holds a release, the HelmChart belongs
to it, the one that is left is deployed, and of one that is deleted nothing stays.

Into the release namespace it copies who is bound to the operator's ClusterRoles:
an index of RoleBindings and ClusterRoleBindings, resolvers of the bindings, of the
Roles of the release and of the RoleBindings made from them.  *Hard*: the index is
computed when a binding is stored, with the tracker of that moment; nobody hears of
the release namespace itself.  *Correct when* at rest nobody is bound who is not
entitled to it, and everybody who is, is bound in the end.  The values of the
release are three layers of maps merged over each other.

### Hardening controller (`src/pkg/controllers/hardened`)
*State*: none.  *Operations*: the handler of namespaces with the operator's label,
which applies a service account and a network policy; resolvers that enqueue the
namespace of an object that changes.  *Hard*: the namespace loses its label or goes
while its objects are applied; an object changes while the namespace is not seen as
operated.  *Correct when* both objects of an operated namespace are hardened at rest.

### Others
Scoped removal handler, start-up and wiring, options and labels, API types: see
`components` in `PROJECT.json`.

### How they interact
```
 namespaces --> Namespace controller --Apply--> Applyinator --> registration namespace, ConfigMap
                      | tracker, enqueue
                      v
 ProjectHelmCharts --> ProjectHelmChart controller --> HelmChart --> (Helm controller: install)
                      ^ resolvers                  \-> HelmRelease --> HelmRelease controller
                      |                                                   | Set, Lock, Delete
                 dashboard ConfigMap <-- release        GVK watcher --Enqueue--> register
                                                                          | informer
                                                                          v
                                                                Object set controller --> resources
```

## 2. Modules

| module | models | kind |
|---|---|---|
| `ApplyPromise` | the comment of `Interface` in applyinator.go | abstract specification |
| `Applyinator` | the work queue and its workers | component |
| `ApplyinatorProofs` | | proofs |
| `LockPromise` | what the register of object sets promises of its locks (lock, canLock and unlock in cache.go) | abstract specification |
| `HelmLocker` | register, object set controller, HelmRelease controller, GVK watcher, Helm, users | composition |
| `HelmLockerRegisterProofs` | | proofs |
| `NamespaceController` | namespace controller, on top of what `ApplyPromise` promises | component |
| `NamespaceControllerProofs`, `NamespaceRegistrationProofs` | | proofs |
| `ProjectHelmCharts` | ProjectHelmChart controller, Helm controller, users, restarts | component |
| `ProjectHelmChartsProofs`, `ProjectClaimsProofs` | | proofs |
| `OperatedNamespace` | a release namespace and its informer | shared by the next two |
| `HardenedNamespace` | hardening controller | component |
| `ReleaseRoleBindings` | the bindings the ProjectHelmChart controller keeps in the namespace | component |
| `ReleaseNamespace` | both controllers at work in one namespace, users, restarts | composition |
| `ReleaseNamespaceProofs` | | proofs |
| `ReleaseValues` | `getValues`, `MergeMaps` | pure functions |
| `ReleaseValuesProofs` | | proofs |
| `MC*` | small instances, and a view for `HelmLocker` | for TLC |

An operator whose comment begins with "Mutant of" is a plausible mistake in the
definition it names; it is not part of any specification.  `PROJECT.json` says
which property refutes it.

### Applyinator
`dirty`, `queue` and `processing` are the fields of client-go's queue, `delayed`
the keys in their back-off; `Get`, `ApplySucceeds`/`ApplyFails` and `Finish` are
the parts of `processNextWorkItem` and `processSingleItem`, `phase` says where a
worker is.  A key added while it is processed stays dirty, and `Done` queues it
again.  `ApplyPromise` has only the sets of owed, running and retrying keys.

### HelmLocker
One step for each critical section or channel operation of the code.  A call of
`setState` goes through `SetStateGets` (reads `stateByKey` under the read lock),
`SetStateCopies`, `SetStateBlocks` (the channel is full: it keeps `stateMapLock`)
and `SetStateSends` (send and store); `deleteState` through `DeleteGets`,
`DeleteRemoves`, `DeleteClears`, `DeleteAnnounces`; `Lock` through `LockGets` and
`LockEntries`.  `heap` holds the state objects, because `deleteState` clears the
very object that the informer's store and a running `OnChange` use.  `rel`, `set`
and `call` are the local variables of the release worker, the object set worker
and a caller of `setState`.  `history` is the list of Helm secrets of a release,
`live` the resources with their content and set label, `cr` and `status` the
HelmRelease.  A manifest is a set of resources for each revision, and the content
of a resource is the revision that wrote it.  A resource has a kind (its GVK), and
`watching` are the kinds whose controller runs (`gvkStarted`); `lock` goes through the
kinds of a manifest, sets the entries of each and has it watched, and returns where one
cannot be watched: `LockFails`, after the entries of that kind and of any others.  `missed`
is a history variable: the releases whose last lock ended this way.  `LockPromise` has only
what each release has deployed (`Deployed`, from its history), what is locked for it
(`EntriesOf`, from the entries) and what is watched.

### NamespaceController
`cache` is what the handler sees of `live`, `watch` the events on their way in
order, `queue` the names to handle.  The handler only adds projects to `owed`;
`CountNamespaces`, `ApplyNamespace`, `GetNamespace`, `Track`, `ApplyConfigMap` are
the reads and writes of `applyProjectRegistrationNamespace`, in between which all
else may happen, and `owed`, `running`, `retrying` behave as `ApplyPromise` says.
`Restart` begins with `initProjectRegistrationNamespaces`, before caches run.
`mishap` remembers that an update of the project label was refused for another reason than
an old copy, which the handler swallows (controller.go:203), or that a user has moved a
registration namespace.  The invariants about states at rest are stated for histories
without either, the liveness property for all.  Crashes at any moment (`Crash`) and
applications that fail half-way (`ApplyFails`) are no mishaps: the invariants hold after
them.

### ProjectHelmCharts
`Charts` are ProjectHelmCharts of the same name in different projects, which
compete for one release.  `plan` is what `OnChange` has decided from `cache`,
`indexed` and `tracked`: which objects to apply and which status to write; `Apply`
is the rest of `sync`: the objects are applied, then the status is written with
optimistic locking, and a refusal calls the handler again.  `helm` is the
HelmChart (and the HelmRelease, which is created and deleted with it) with its
owner; an apply by one chart takes over what the other created, and a prune
deletes it by name.  `helmWatch` are the owners whom events on their way will
enqueue.  The release namespace is absent, in use or marked as orphaned.
`Managed` is `shouldManage`: it decides in the handlers, in the removal
(`BeginsRemoval`, the scoped removal handler), and at start-up, where
`initRemoveCleanupLabels` finds nothing managed, since no informer has started
(`Relabelled`).  `ApplyFails` is an apply that has done some of its work: the status is
not written, and the handler is called again.

`reg` is what has become of each registration namespace.  When it is being deleted,
Kubernetes deletes what is in it (`EmptiesRegistration`), the namespace controller takes it
out of the tracker (`Untrack`) and in again with the next apply (`Track`), and while it is
out, its ProjectHelmCharts are not managed.  An informer asks the index function for the
old entry of what it stores, too: of a ProjectHelmChart that disappears while it is not
managed the entry stays (`DeliverChart`), and whoever then reads the index panics
(`Stale`, `Panics`, which is a restart).  `UserMovesNamespaces` is what a project's first and
last namespace do: the first has the project applied, and so its ProjectHelmCharts called
(`Reapplied`); of the last one the code hears when it is deleted, and not when it moves.

### ReleaseNamespace
`OperatedNamespace` has the namespace (`ns`), the informer's copy of it and whether
an event is on its way.  `HardenedNamespace` adds the two objects (`content`) with
their informers, and `Harden`, the whole handler: it applies what the copies say
differs, any part of which may fail.  `ReleaseRoleBindings` adds the bindings of the
cluster (`binding`) and the Roles of the release (`role`), their informers, the two
indexes (`bound`, `charted`), and the handler in two steps: `Grants` (or `NeedsNs`,
`NotManaged`) decides from the caches (`plan`), `Apply` writes the RoleBindings
(`granted`) and the status, of which only `unable`, "there is no release namespace",
matters here.  `Picks` are the orders in which a Go map may be gone through: with one
ClusterRole configured for two roles the code keeps one of them.  `ReleaseNamespace`
says for each step of the one part what it does to the other: a namespace that goes
takes the content with it, a restart forgets both controllers' memory.  The project
controller is not told of a change of the namespace, the hardening controller is.

### ReleaseValues
`MergeMaps` and `getValues` on trees of maps and leaves, where a leaf is whatever
the code does not merge, typed Go maps included.  A map is a function on all `Keys` that is
`Absent` where the Go map does not have the key, and `Map` are the maps in which `MaxDepth`
others at most are nested.  `Merged`, the recursion of `MergeMaps`, is a recursive
function rather than an operator, so that it can be reasoned about.  Nothing of it depends on
the state of a controller: the run `projects` evaluates it in its initial states.

## 3. Runs

| run | instance | distinct states | what it shows |
|---|---|---|---|
| `applyinator` | 3 keys, 2 workers | 2,985 | types, `Stingy`, `QueueConsistent`, and that the queue implements `ApplyPromise`, with liveness |
| `locker_startup` | 1 release, 1 resource, channel of 2, 1 fault (a call, a watch, a restart) | 151,631 | from the first event on, and from a restart on, the release converges, while the HelmRelease may be deleted and a user interferes |
| `locker_upgrade` | 2 revisions, 2 resources of 2 kinds, channel of 1 | 307,040 | an upgrade that drops a resource, raced by a user; `LocksAsPromised` with two revisions, one of them unfinished |
| `locker_removal` | 1 release, 1 failed call or restart, channel of 2 | 239,046 | uninstalling, with or without history; what is left is purged, the lock is released |
| `locker_sharing` | 2 releases that share a resource, 2 kinds, 1 failing watch or restart | 1,174,234 | `LockedWhole`, `NoStealing`, and that the register implements `LockPromise` (`LocksAsPromised`) |
| `namespaces` | 1 project, 1 namespace, 2 events | 1,145,160 | states at rest, and a project in use ends up registered |
| `projects` | 2 charts, 1 event, of one of them | 947,288 | `OneClaim`, `OwnerClaims`, `DeployedInTheEnd`, `ClaimsResolved`; the values are merged in the right order |
| `released` | 1 chart, 3 events, the deletion of its registration namespace among them | 111,341 | `OwnerClaims` and `ReleasedInTheEnd`, while users change the chart and its project, applies fail and the operator panics or is restarted |
| `release_namespace` | 1 Role, 2 bindings, 2 subjects, 2 choices of options, 2 events | 575,084 | what is at rest is hardened and grants nobody too much; after a resync all is as it is to be |

and three runs whose counterexample is the point (section 6).

**Bounds.**  `MaxEvents` counts what users do, calls that fail, crashes; the
properties are about what the operator makes of each of them, at any moment of
everything else it does.  In `namespaces` two are needed, so that one may happen
while the operator recovers from another.  In `projects` the two charts compete
from the start, which costs no event, and one event then disturbs them: one of
either chart, but the two are alike, so that users touch one of them only
(`Touched`).  Two charts are enough, since a chart only asks whether *any* other
one tracks the release.  `Closed` are the charts
whose registration namespace may be deleted, and `Faults` what else may fail.  A namespace
that is being deleted is untracked once by each run of the operator, though each of its
events does so.  The channel of `HelmLocker` has 1 or 2 slots instead of 50.  One makes it full
all the time once the informer has listed.  Before that, two are as many as one release needs
without blocking for good in `locker_startup` and `locker_removal`, which are about what
comes next; with one, or with 50 and as many releases, it does (section 6).
`locker_sharing` has a channel that may be full before the first `List` after a restart, so
that it checks safety only, and no deadlock.  `MaxObjects` bounds
the state objects that somebody points to: a step that needs a new one waits while there
is none left (`Free # {}`), which never happens with these values; the addresses are made
canonical by the view.  `MaxDrift` bounds modifications by
users.  Three keys and two workers let the Applyinator have a key queued, a key
processed and a key in its back-off at the same time, and both workers busy.
For the values, `Trees` are all maps of two keys and two levels with two leaves; what users
and operators provide is a leaf or a map, right or wrong, in place of `global`, of `cattle`,
of a default, of a required value and of the selector, which is as deep as the code writes
anything.  `restarted` is not about values and has none.

**Deadlock** is checked in every run except `applyinator`, where the queue stops
for good after a shut-down, and `locker_sharing`, where the locker may block for good after
a restart; in the others a resync is always possible at rest.

**Fairness.**  Goroutines that can run eventually do: weak fairness for each
worker (Applyinator, HelmLocker), and for each handler and informer of
ReleaseNamespace (`Served`).  In HelmLocker the resync of HelmReleases has
strong fairness, since the resync of the other informer may make it wait again
and again.  In NamespaceController and ProjectHelmCharts less is enough: that the
controllers do something as long as something is left to do, which also shows that
they come to rest.  In ProjectHelmCharts the informers have
their own, for each object, since a handler that is refused its status update is called
again until its copy is new; and so has Kubernetes when it empties a namespace, since what
is in it may be called again and again meanwhile.
Resyncs happen every ten hours; a resync at rest stands for all of them.  Nothing
obliges Helm's users, the users of the cluster, or a crash.  In HelmLocker a
release that Helm leaves in the middle of an upgrade is a behaviour, too.

**Resyncs carry weight.**  `Converges`, `RegisteredInTheEnd`, `DeployedInTheEnd`,
`ReleasedInTheEnd`, `SyncedInTheEnd` hold with resyncs and not without: an `Enqueue` that copied an old state can put
the object set of an old revision back (cache.go:236), a release namespace can
stay marked as orphaned (project/controller.go:331), nobody hears of a release
namespace that is deleted or loses its label (resolvers.go:23), bindings that were
stored before their namespace was tracked are in no index (indexers.go:76), a
ProjectHelmChart that was left alone while its namespace was untracked keeps its finalizer,
and only the next resync,
up to ten hours later, repairs that.

## 4. Properties

*Applyinator*: `Stingy`, `QueueConsistent` (a key is queued exactly when dirty and
not processed, once), `PromiseSpec` (refinement, with liveness).

*HelmLocker*: `LockedWhole` (what a release locks is of one manifest, all of it and watched,
or nothing; all of some kinds when its last lock was cut short by a kind that could not
be watched),
`NoStealing` (an action property), `LocksAsPromised` (refinement: each step locks and
watches one whole manifest that Helm has deployed and that shares nothing with what others
have locked, or some kinds of it when another cannot be watched, or unlocks one release,
or forgets all), `LocksOnlyDeployed` (no revision that Helm has
not finished is registered or applied, however late the worker runs),
`StoreFollows` (events are applied in the order the states were stored in),
`LockedAtRest` (unless the last lock was cut short), `Converges`, `PurgedInTheEnd`,
`LockReleased`.

*NamespaceController*: `NeverOrphanedInUse`, `TrackedAtRest`, `LabelFollows`,
`RegisteredInTheEnd`.

*ProjectHelmCharts*: `OneClaim` (at rest one chart of the index at most claims the release),
`OwnerClaims` (at rest the HelmChart belongs to a live chart that says so, or to one that
was deleted with its registration namespace when it was not managed: it keeps its finalizer
until it is called again), `ReleasedInTheEnd` (which happens with the next resync, whatever
else does: then it and its HelmChart are gone), `DeployedInTheEnd` (a chart that is left alone with the release is deployed, and
its namespace not marked), `ClaimsResolved` (two claims do not last).  `OneClaim`
is about charts in the index by release name, which is computed with the
tracker of the moment: after a restart one can be missing (indexers.go:68), and a
second chart then claims its release.  `ClaimsResolved` is about that case, and assumes
that the operator comes to rest again and again: two charts that do not see each other
take the HelmChart from each other, and may do so for ever if their handlers keep
overlapping.  `DeployedInTheEnd` assumes that the release was not lost with its
namespace (section 6).

*ReleaseNamespace*: `HardenedAtRest`; `RevokedAtRest` (at rest whoever is bound to a Role of the
release is bound to the ClusterRole it aggregates from), which assumes that the
ProjectHelmChart is in the index by release name (`charted`), without which no change
of a Role is resolved; `SyncedInTheEnd` (the namespace comes back operated, and all
and only the entitled are bound, whatever has happened).

*ReleaseValues*: `ValuesMerge` (`MergeMaps` against a definition path by path),
`ValuesRequired` (what isolates the project cannot be overridden at any depth),
`ValuesOverridden` (for the url and the registry the operator's override wins over the user,
the user over the default, and the default is there when neither says anything).

## 5. Proofs

`ApplyinatorProofs`, for all sets of keys and workers:
`TypeCorrect`, `StingyHolds`, `QueueConsistentHolds` and `KeepsPromise` (each step
is a step or a stutter of `ApplyPromise`).  The inductive invariant is
`IInv == TypeOK /\ QueueConsistent /\ Stingy`.  `Stingy` alone is not inductive:
`Get` hands out the head of the queue, and that nobody processes it follows from
`QueueConsistent` (the queue lists `dirty \ processing`, and `processing` are the
keys the workers hold); `QueueConsistent` in turn needs `Stingy` in `Finish`,
where a key leaves `processing` although another worker might hold it.  Two lemmas
say what `Append` and `Tail` do to a queue that lists a set.  Assumption: `NoKey`
is not a key.

`HelmLockerRegisterProofs`, for all releases, resources, manifests, watchers, channel
sizes and numbers of faults, failing watches among them, from the first event on and from a
restart on: `TypeCorrect`, `OnlyDeployedCorrect`, `LockedWholeCorrect`, `StoreFollowsCorrect` and
`LockedAtRestCorrect`, and `KeepsLockPromise` (each step is a step or a stutter of
`LockPromise`).  None of these properties is inductive: goroutines read pointers
to state objects under a lock and use them after it, and objects are changed in place.
The invariant is in three layers.
- `TypeInv`: the types, `watching` and `missed` among them; each call works on a key, and that of a release worker on its own
  while it waits (`WellFormed`); and the latest revision is never superseded (`Latest`).
- `RegisterInv`: `Points(k, p)` says who points to the object p on behalf of the key k, the
  map, the informer, an event in the channel, or a worker; no object serves two keys
  (`Separate`).  So a new object, which nobody points to, and one that `deleteState`
  clears concern one key only.  `Known(k, os)` says who knows which object set of k; each
  was parsed from a revision that Helm had deployed (`OnlyParsed`), and a revision does
  not become undeployed.
- `LockInv`, key by key: the last event of a key in the channel carries the object of the
  map, or nil, and if there is none the informer has that, unless `deleteState` is between
  the map and its event (`Served`: `setState` stores and sends under one lock); a release
  that is not claimed has no status yet (`Reported`); and while a worker applies, nothing is
  locked, the worker will lock what the register has unless it will hear of a change, and
  when it is idle a deployed release has the entries of its state (`LockDue`).
`KeySteps` says that a step that concerns one key leaves the invariant of the others
alone, so that each step is looked at for its own key.  `KeepsLockPromise` needs
`RegisterInv` where a key is locked: what `Lock` read before was deployed (`LocksDeployed`);
`HelmDeploys` says that a step of Helm deploys one revision or none.  `NoStealingHolds` and
`NoStealingListed` need no invariant: what a step does to the entries is
`removeAllEntries`, a lock that `canLock` admits, or nothing, and each of them keeps an
entry, drops it, or adds one where none was.  Assumptions: the names of
releases and watchers are different, `NoKey` is none of them, each manifest is a set of
resources, and there is one revision at least.

`NamespaceControllerProofs`, for all projects, namespaces and numbers of events:
`TypeCorrect` and `LabelKept`.  `LabelFollows` is about states at rest, and the
inductive invariant `LabelInv` says what holds before: the copy of a namespace equals
it unless an event of it is on its way, and the last such event carries it as it is
(`Informed`); a namespace without the label of its project is queued, or an event on
its way will queue it (`LabelOwed`).  So an update that is made is made from the
right copy, and one that is refused need not be repeated.

`NamespaceRegistrationProofs`, on top of it: `RegistrationCorrect`, `NotOrphaned` and
`Tracked`.  `NeverOrphanedInUse` and `TrackedAtRest` are about states at rest as well,
and say nothing of the applications that lead there, so neither is inductive.
The invariant `RegistrationInv` speaks of a namespace that the handler is done
with: active, in project p, no event of it on its way, not queued (`Settled`).  One
such namespace keeps p in order (`Kept`): p will be applied again or its registration
namespace handled (`Asked`); or the registration namespace is not marked, is tracked and
has its ConfigMap, or the application that runs is before the step that sees to it
(`Sound`).  A count that missed the namespace was made before it was settled, and the
handler has asked for p since.  A crash asks for everything again, and an application that
fails half-way is asked for again, so that neither is an exception.  The rest says why what is made from old data is
found out: a registration namespace belongs to its own project (`Marked`) unless a
user moves it; a ConfigMap that goes missing has an event on its way
(`ConfigMapInformed`); what is untracked has gone, or a new one has an event on its way
(`UntrackDue`); what was read back as being deleted has not come back (`ReadBack`).

`ProjectHelmChartsProofs`, for all sets of charts and numbers of events:
`TypeCorrect`, which says among the types that a chart in the index by release
name whose registration namespace stays is tracked and exists in the cache.

`ProjectClaimsProofs`, on top of it: `ClaimsCorrect`, `OneClaimHolds` and
`OwnerClaimsHolds`.  Both properties are about states at rest, where everybody has the
same view, and say nothing of the decisions from old copies that lead there.  The
invariant says that a chart stands by its claim (`Stands`) when it is indexed, its copy in
the cache claims the release, it is not queued, has no event on its way, and is not about
to write another status; two charts never do so at once (`OneStands`).  It is inductive
since a chart begins to stand by a claim only when it is handled, and then nobody in the
index claims the release in the cache; a claim that is written, delivered or
indexed later has its own chart queued.  For the owner of the HelmChart: an event of it is
on its way, or the cache knows the owner, and then the owner is queued, changed, being
handled, or waits to be tracked, unless it says that it is the owner (`Owned`) or is to go
with its registration namespace (`Leaving`); one that has gone with it was no owner left
behind, since a namespace goes only when it is empty (`Emptied`), and what has gone is
pruned.  A
handler that runs was called with what the cache has still, or its chart is queued again
(`ReadFresh`), so that a status update that is left out, because the status is the one the
handler was called with, is one the chart has.

`ReleaseNamespaceProofs`, for any bindings, Roles, subjects, options and number of
events: `TypeCorrect`, `HardeningStays` and `Revoked`.  Both properties are about
states at rest, so the invariants say what is known before: a copy in an informer
equals the object unless an event of it is on its way; an object that differs from
what is wanted has an event on its way or the namespace is queued, also while the
namespace is not seen as operated, since its own event will queue it
(`HardeningStays`).  For `Revoked`: what is planned is within what the caches
entitle; what is granted is within that, too, or the ProjectHelmChart is queued, or
is being applied, or an event on its way will queue it.  Not indexed and unlabelled
Roles are the exceptions, which the property repeats.

`ReleaseValuesProofs`, for any keys and leaves, any maps of any depth, and whatever users and
operators provide: `MergeCorrect`, `RequiredHolds` and `OverridesHold`.  `Values` and `Merged`
are recursive, and of a recursive function the prover knows only that it is chosen among
those that satisfy its equation, which says nothing unless there is one.  For the maps in
which n others are nested there is, by induction on n (`MergedExists`): the base decides how
deep the recursion goes.  The library's rules of induction are about operators, which the
provers cannot instantiate; `NatInd` is about a set of numbers instead, and follows
from the least number that is not in it (`NatLeast`, with the library's `WFMin`).
`Pathwise` is the heart: along a path, a leaf of the overlay is in the result; where the
overlay has ended, so has the result if a leaf of the overlay was on the way, and else it
goes on as the base; and while the overlay has a map, no leaf was on the way and what is
there is the merge of the two (`PathInv`, kept by `PathStep`).  `MergesPathwise` alone is not
inductive: it does not say that what is below two maps is merged.  `RequiredHolds` and
`OverridesHold` apply `Pathwise` to the paths below `global.cattle`, once for each of the three
merges in `getValues`.  Assumptions: three levels at least, and the keys and leaves that the code writes
are among the keys and leaves.

Only model-checked: all liveness (`PromiseSpec`'s fairness, `Converges`,
`PurgedInTheEnd`, `RegisteredInTheEnd`, `DeployedInTheEnd`, `ReleasedInTheEnd`,
`SyncedInTheEnd`, ...), for
which the prover has no support.  Every invariant that a run checks, the action property
`NoStealing`, and that each step of the queue and of the register is one of its abstract
specification, are proved.

## 6. Where the code differs from what it says

- `locker_keeps` — `release/controller.go:189`: the object set is removed without
  a purge.  `deleteState` clears an object that a running `OnChange` reads, which
  then applies nothing, and the apply prunes all resources.
- `orphaned` — `design.md:32`: a registration namespace without namespaces is
  marked.  It is not, when the last one moves to another project or to none.
- `restarted` — `namespaces.go:29-37`: the start-up waits for the applies, so that
  other controllers know the registration namespaces.  It only queues them, and a
  ProjectHelmChart that is handled first has its release uninstalled.

Seen while modelling, without a run of their own:

- `cache.go:117`: "Run starts the objectSetState informer".  `setState` waits for room in the
  channel of 50 events while it holds the lock that the informer's `List` needs
  (cache.go:266-273), and nobody empties the channel before `List` returns: with more deployed
  releases than slots the locker may stand still for good, since the starters of
  `controllers.go:356` share one controller factory, and the first one starts the HelmRelease
  controller.  (The standalone locker starts the informer of object sets first,
  `helm-locker/controllers/controller.go:172`.)  `locker_startup` with a channel of one slot
  deadlocks this way.
- `README-helm-locker.md:32`: "if the release is anything but `deployed`, Helm Locker will not
  perform any operations on the resources tracked by this release".  `OnHelmRelease` only
  unlocks it (release/controller.go:225); its state stays locked in the register, and a
  pending event or the resync of the informer applies it again, while Helm uninstalls it too.
  `PurgedInTheEnd` says what becomes of it then.
- `README-helm-locker.md:10`: all resources of a release are watched.  When one kind cannot be
  watched, `lock` returns in its loop (cache.go:318), and `Lock` drops the error (182): the
  release is watched in part until its object set is reconciled for another reason.
- `resolvers.go:23` registers `resolveProjectReleaseNamespace` when there are no
  release namespaces, the comment at `project/controller.go:272-277` relies on it when
  there are.  A release namespace that is deleted, or loses its label, is noticed at
  the next resync; the release that went with it may not be installed again.
- `project/controller.go:205` skips what is `nil` in the index by release name.  It is not
  reached: `GetByIndex` (generated projecthelmchart.go:261) panics on what is missing in the
  store.  An entry may be: the informer takes an entry out by what the index function says of
  the old object, and of a ProjectHelmChart whose registration namespace is untracked that is
  nothing (indexers.go:68).  The operator is restarted then, after which all is well, as
  `released` shows.
- `cleanup.go:11`, `status.go:17`: "On redeployment, this label will automatically be
  removed by the operator."  `initRemoveCleanupLabels` asks `shouldManage`, which asks
  an informer that has not been started, and a tracker that is filled asynchronously.
- `hardened/controller.go:27`: `Register` does not use the options it is given.
- `values.go:25-38`: `projectNamespaceSelector` is merged as a map, so that keys of
  the user that the operator does not set (`matchExpressions`) survive, and with an
  empty required selector the user's whole selector.
- `merge.go:41`: under the comment "check if v1alpha1.GenericMap", `getMap` tests for
  `map[string]interface{}` a second time.
- `pkg/controllers/common/rbac.go:25`: with one ClusterRole configured for two
  subject roles, which of them is served depends on the order of a Go map, and
  changes from call to call.

## 7. Not modelled

- The Helm Locker: discovery errors other than of a `Watch`, the deferral of `Watch` until the
  watcher is started, a handler that stays registered when its controller cannot be started,
  HelmReleases outside the system namespace, manifests that do not parse.
- The namespace controller without a project label (where one nil check is
  missing, controller.go:110), names that are too long, ConfigMaps that are
  modified instead of deleted.
- The ProjectHelmChart controller without dedicated release namespaces, several
  ProjectHelmCharts in one project, values that do not parse, status updates that
  fail in another way than by a conflict.  A registration namespace that is created again
  after it was deleted has nothing of the old one, and is not modelled; neither is its
  untracking by more than one event.  `ReleaseNamespace` has one that stays.  Two
  ProjectHelmCharts of which one loses its registration namespace are too much for a run with
  liveness: `released` has one, and that the claims of any number stay right is proved
  (`OneClaimHolds`, `OwnerClaimsHolds`).  In `ProjectHelmCharts` the informer of
  namespaces does not lag behind (it does in `ReleaseNamespace`, where one chart has the
  release to itself).
- The finalizer as an object of its own: the scoped removal handler adds it by an
  update after the first handling, here an object has it when it has been handled.
- Parsing and formatting; leader election, flags, clients, generated code without state.

## 8. What would come next

The mode without a project label; `ProjectHelmCharts` composed with the tracker of
`NamespaceController` in one module, instead of `Track` and `Untrack` as steps of the environment;
an abstract specification of a claim on a release, with the window in which two
ProjectHelmCharts claim it made explicit, and the refinement.
