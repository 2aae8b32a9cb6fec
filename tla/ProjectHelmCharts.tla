-------------------------- MODULE ProjectHelmCharts --------------------------
(***************************************************************************)
(* The controller of ProjectHelmCharts (src/pkg/controllers/project) of an *)
(* operator with a project label and a label for release namespaces: for   *)
(* each ProjectHelmChart it keeps a HelmChart and a HelmRelease in the     *)
(* system namespace, and a namespace the release is deployed into.         *)
(*                                                                         *)
(* The name of the release comes from the name of the ProjectHelmChart, so *)
(* ProjectHelmCharts of the same name in different projects compete for    *)
(* one release.  Charts are such ProjectHelmCharts, each in the            *)
(* registration namespace of a project of its own; the others have nothing *)
(* to do with them.  The HelmChart and the HelmRelease of the release are  *)
(* created and deleted together, and are here one object, "helm".          *)
(*                                                                         *)
(* The handler decides from informers that lag behind, applies what it has *)
(* decided, and then updates the status, on which others decide.  Whether  *)
(* a ProjectHelmChart is managed at all depends on the tracker that the    *)
(* namespace controller fills (NamespaceController), and takes a           *)
(* registration namespace out of when it is deleted.                       *)
(***************************************************************************)
EXTENDS Integers

CONSTANTS Charts,     \* ProjectHelmCharts of the same name
          Touched,    \* bound: those that users change
          Closed,     \* bound: those whose registration namespace users delete
          Faults,     \* bound: what fails of "apply" and "restart"
          NoOwner,    \* no ProjectHelmChart
          MaxEvents   \* bound: what users do, calls that fail, restarts

ASSUME ChartsAssumption ==
    /\ NoOwner \notin Charts /\ Touched \subseteq Charts /\ Closed \subseteq Charts
    /\ Faults \subseteq {"apply", "restart"} /\ MaxEvents \in Nat

VARIABLES
    (* the cluster *)
    chart,       \* the ProjectHelmCharts
    reg,         \* their registration namespaces
    targets,     \* those whose project has a namespace
    helm,        \* the owner of the HelmChart and HelmRelease, and whether Helm has run
    relNs,       \* the release namespace: absent, in use, or marked as orphaned
    dashboard,   \* whether the deployed release has put its ConfigMap there
    events,      \* counts what the environment has done
    (* the informers *)
    started,
    cache, watch,         \* of ProjectHelmCharts, and those with events on their way
    indexed,              \* charts in the index by release name
    helmCache, helmWatch, \* the owner of the HelmChart, and the owners it will enqueue
    (* the operator *)
    tracked,     \* charts whose registration namespace is tracked
    queue, step, plan

cluster  == <<chart, reg, targets, helm, relNs, dashboard, events>>
informer == <<started, cache, watch, indexed, helmCache, helmWatch>>
handler  == <<queue, step, plan>>
vars     == <<cluster, informer, tracked, handler>>

\* The two messages of UnableToCreateHelmRelease are told apart: a status that
\* differs in its message only is written, too.
Unable   == {"AlreadyTracked", "NoReleaseNamespace"}
Statuses == {"", "AwaitingOperatorRedeployment", "NoTargetProjectNamespaces",
             "WaitingForDashboardValues", "Deployed"} \cup Unable

Owners == Charts \cup {NoOwner}
Chart  == [phase : {"absent", "live", "deleting"}, cleanup : BOOLEAN, status : Statuses]
Gone   == [phase |-> "absent", cleanup |-> FALSE, status |-> ""]
Fresh  == [Gone EXCEPT !.phase = "live"]

\* What OnChange has decided: the objects to apply, besides the release
\* namespace whether it applies the HelmChart, and the new status; and the copy
\* of the ProjectHelmChart it was called with.
Nothing == [ns |-> "none", helm |-> FALSE, status |-> "", read |-> Gone]
Plan    == [ns : {"none", "used", "orphaned"}, helm : BOOLEAN, status : Statuses, read : Chart]

\* A registration namespace is there, or it is being deleted, which the namespace
\* controller has handled or not, or it has gone.  (One that is created again has
\* nothing to do with what was in the old one.)
Registration == {"active", "deleted", "terminating", "gone"}

\* Of what is in the index by release name only an entry of a registration namespace
\* that was deleted may be out of date.
TypeOK ==
    /\ chart \in [Charts -> Chart] /\ reg \in [Charts -> Registration] /\ cache \in [Charts -> Chart]
    /\ targets \subseteq Charts
    /\ helm \in [owner : Owners, installed : BOOLEAN]
    /\ relNs \in {"absent", "used", "orphaned"}
    /\ dashboard \in BOOLEAN /\ started \in BOOLEAN
    /\ events \in 0..MaxEvents
    /\ watch \subseteq Charts
    /\ helmCache \in Owners /\ helmWatch \subseteq Charts
    /\ tracked \subseteq Charts /\ queue \subseteq Charts
    /\ step \in [Charts -> {"idle", "apply", "remove"}]
    /\ plan \in [Charts -> Plan]
    /\ indexed \subseteq Charts
    /\ \A c \in indexed : reg[c] = "active" => c \in tracked /\ cache[c].phase # "absent"

-----------------------------------------------------------------------------
(* The cluster *)

Write(c, obj) ==
    /\ chart' = [chart EXCEPT ![c] = obj]
    /\ watch' = IF obj = chart[c] THEN watch ELSE watch \cup {c}

\* A change of the HelmChart will enqueue its owner, and so will its deletion: it
\* disappears when the Helm controller has uninstalled the release.
SetOwner(o) ==
    /\ helm' = [owner |-> o, installed |-> helm.installed /\ helm.owner # NoOwner /\ o # NoOwner]
    /\ dashboard' = (dashboard /\ o # NoOwner)
    /\ helmWatch' = IF helm.owner = o THEN helmWatch
                    ELSE helmWatch \cup {IF o = NoOwner THEN helm.owner ELSE o}

\* The operator has started with its registration namespaces tracked, and has to
\* handle what users have created.  One that is created later is one that is
\* handled later: until then nobody minds it.
Init ==
    /\ chart = [c \in Charts |-> Fresh]
    /\ reg = [c \in Charts |-> "active"]
    /\ targets = Charts
    /\ helm = [owner |-> NoOwner, installed |-> FALSE]
    /\ relNs = "absent" /\ dashboard = FALSE
    /\ events = 0
    /\ started = TRUE
    /\ cache = chart /\ watch = {} /\ indexed = Charts
    /\ helmCache = NoOwner /\ helmWatch = {}
    /\ tracked = Charts
    /\ queue = Charts
    /\ step = [c \in Charts |-> "idle"] /\ plan = [c \in Charts |-> Nothing]

Happens == events < MaxEvents /\ events' = events + 1

\* A user adds or removes the cleanup label.
UserChanges(c) ==
    /\ Happens
    /\ chart[c].phase = "live"
    /\ Write(c, [chart[c] EXCEPT !.cleanup = ~@])
    /\ UNCHANGED <<reg, targets, helm, relNs, dashboard, started, cache, indexed, helmCache,
                   helmWatch, tracked, handler>>

\* A user deletes a ProjectHelmChart that has the operator's finalizer.  (One
\* that has not been handled yet leaves nothing behind.)
UserDeletes(c) ==
    /\ Happens
    /\ chart[c].phase = "live" /\ chart[c].status # ""
    /\ Write(c, [chart[c] EXCEPT !.phase = "deleting"])
    /\ UNCHANGED <<reg, targets, helm, relNs, dashboard, started, cache, indexed, helmCache,
                   helmWatch, tracked, handler>>

\* What the namespace controller enqueues is found in the cache.
Enqueued(c) == IF cache[c].phase = "absent" THEN queue ELSE queue \cup {c}

\* The namespace controller applies a registration namespace that it tracks, and
\* enqueues the ProjectHelmCharts in it unless it is being deleted.
Reapplied(c) == IF c \in tracked /\ reg[c] = "active" THEN Enqueued(c) ELSE queue

\* The first namespace joins the project, which is then applied, or the last one
\* leaves it.  Of a namespace that moves to another project, the new project is
\* applied only; one that is deleted has its own applied when its deletion begins,
\* which may be over before or after it has gone.
UserMovesNamespaces(c) ==
    /\ Happens
    /\ targets' = (targets \ {c}) \cup ({c} \ targets)
    /\ queue' \in IF c \in targets THEN {queue, Reapplied(c)} ELSE {Reapplied(c)}
    /\ UNCHANGED <<chart, reg, helm, relNs, dashboard, informer, tracked, step, plan>>

\* A user deletes a registration namespace.
UserDeletesRegistration(c) ==
    /\ Happens
    /\ reg[c] = "active"
    /\ reg' = [reg EXCEPT ![c] = "deleted"]
    /\ UNCHANGED <<chart, targets, helm, relNs, dashboard, informer, tracked, handler>>

Closing(c) == reg[c] \in {"deleted", "terminating"}

\* Kubernetes deletes what is in it.
EmptiesRegistration(c) ==
    /\ Closing(c) /\ chart[c].phase = "live"
    /\ Write(c, IF chart[c].status = "" THEN Gone ELSE [chart[c] EXCEPT !.phase = "deleting"])
    /\ UNCHANGED <<reg, targets, helm, relNs, dashboard, events, started, cache, indexed,
                   helmCache, helmWatch, tracked, handler>>

\* It disappears when nothing is left in it.
RegistrationGoes(c) ==
    /\ Closing(c) /\ chart[c].phase = "absent"
    /\ reg' = [reg EXCEPT ![c] = "gone"]
    /\ UNCHANGED <<chart, targets, helm, relNs, dashboard, events, informer, tracked, handler>>

\* The index lists a ProjectHelmChart that has gone from the cache.  GetByIndex of
\* the generated cache panics when it meets that entry.
Stale == \E d \in indexed : cache[d].phase = "absent"

\* resolveProjectReleaseNamespaceData: the ConfigMap of the release, when it comes
\* or goes, enqueues the ProjectHelmCharts in the index.  (Its informer does not
\* lag behind.)
Woken == IF dashboard' = dashboard \/ Stale THEN {} ELSE indexed

SetDashboard(b) ==
    /\ dashboard' = b
    /\ queue' = queue \cup Woken

Exists == relNs # "absent"

\* A user deletes the release namespace of a deployed release (a bound: not an
\* empty one).  It disappears with all that is in it, and until then the operator
\* treats it like any other.
UserDeletesNamespace ==
    /\ Happens
    /\ Exists /\ dashboard
    /\ relNs' = "absent"
    /\ SetDashboard(FALSE)
    /\ UNCHANGED <<chart, reg, targets, helm, informer, tracked, step, plan>>

\* The Helm controller installs a new HelmChart.
HelmInstalls ==
    /\ helm.owner # NoOwner /\ ~helm.installed /\ Exists
    /\ helm' = [helm EXCEPT !.installed = TRUE]
    /\ SetDashboard(TRUE)
    /\ UNCHANGED <<chart, reg, targets, relNs, events, informer, tracked, step, plan>>

-----------------------------------------------------------------------------
(* The informers *)

Present == {c \in Charts : chart[c].phase # "absent"}

\* All caches list what exists.  A ProjectHelmChart is put in the index by
\* release name only if it is managed at that moment; the HelmChart enqueues its
\* owner, which may no longer exist.
StartCaches ==
    /\ ~started
    /\ started' = TRUE
    /\ cache' = chart /\ watch' = {}
    /\ indexed' = Present \cap tracked
    /\ helmCache' = helm.owner /\ helmWatch' = {}
    /\ queue' = Present \cup ({helm.owner} \ {NoOwner})
    /\ UNCHANGED <<cluster, tracked, step, plan>>

\* Mutant of Managed: a registration namespace that is being deleted does not count.
ManagedActive(c) == started /\ c \in tracked /\ reg[c] = "active"

\* shouldManage: the informer knows the registration namespace, and it is tracked.
Managed(c) == started /\ c \in tracked /\ reg[c] # "gone"

\* Mutant of DeliverChart: one that has gone stays in the index.
KeepsIndex(c) ==
    /\ started /\ c \in watch
    /\ watch' = watch \ {c}
    /\ cache' = [cache EXCEPT ![c] = chart[c]]
    /\ indexed' = IF Managed(c) THEN indexed \cup {c} ELSE indexed
    /\ queue' = queue \cup {c}
    /\ UNCHANGED <<cluster, started, helmCache, helmWatch, tracked, step, plan>>

\* A ProjectHelmChart has changed.  The index takes its old entry out and the new one
\* in, and of one that is not managed by now it computes neither.
DeliverChart(c) ==
    /\ started /\ c \in watch
    /\ watch' = watch \ {c}
    /\ cache' = [cache EXCEPT ![c] = chart[c]]
    /\ indexed' = IF ~Managed(c) THEN indexed
                  ELSE IF c \in Present THEN indexed \cup {c} ELSE indexed \ {c}
    /\ queue' = queue \cup {c}
    /\ UNCHANGED <<cluster, started, helmCache, helmWatch, tracked,
                   step, plan>>

\* resolveSystemNamespaceData: the HelmChart has changed.
DeliverHelm ==
    /\ started /\ helmWatch # {}
    /\ helmCache' = helm.owner /\ helmWatch' = {}
    /\ queue' = queue \cup helmWatch
    /\ UNCHANGED <<cluster, started, cache, watch, indexed, tracked,
                   step, plan>>

\* The namespace controller has applied the registration namespace, tracks it,
\* and enqueues the ProjectHelmCharts in it unless it is being deleted.
Track(c) ==
    /\ c \notin tracked /\ reg[c] # "gone"
    /\ tracked' = tracked \cup {c}
    /\ queue' = IF reg[c] = "active" THEN Enqueued(c) ELSE queue
    /\ UNCHANGED <<cluster, informer, step, plan>>

\* The namespace controller sees that a registration namespace is being deleted.
\* It enqueues the namespaces of the project first, by which it comes to be tracked
\* again, and so does the next event of it.  (A bound: it sees this once.)
Untrack(c) ==
    /\ reg[c] = "deleted" /\ c \in tracked
    /\ reg' = [reg EXCEPT ![c] = "terminating"]
    /\ tracked' = tracked \ {c}
    /\ UNCHANGED <<chart, targets, helm, relNs, dashboard, events, informer, handler>>

-----------------------------------------------------------------------------
(* The handlers of a ProjectHelmChart: OnChange decides, then its objects are   *)
(* applied, then its status is updated.                                         *)

Called(c) == c \in queue /\ step[c] = "idle"

\* The handler goes on with p.
GoesOn(c, next, p) ==
    /\ queue' = queue \ {c}
    /\ step' = [step EXCEPT ![c] = next]
    /\ plan' = [plan EXCEPT ![c] = [p EXCEPT !.read = cache[c]]]
    /\ UNCHANGED <<cluster, informer, tracked>>

\* OnChange is called, and decides p.
OnChange(c)   == Called(c) /\ cache[c].phase = "live"
Decides(c, p) == GoesOn(c, "apply", p)

\* A ProjectHelmChart that is not managed keeps its status, and nothing of what
\* was applied for it.
NotManaged(c) ==
    /\ OnChange(c) /\ ~Managed(c)
    /\ Decides(c, [Nothing EXCEPT !.status = cache[c].status])

CleansUp(c) ==
    /\ OnChange(c) /\ Managed(c) /\ cache[c].cleanup
    /\ Decides(c, [Nothing EXCEPT !.status = "AwaitingOperatorRedeployment"])

\* Mutant of Tracks: one that is not deployed yet does not count.
TracksDeployed(d) == cache[d].status = "Deployed"

\* Mutant of Tracks: one that is deployed already does not count.
TracksPending(d) == cache[d].status \in {"NoTargetProjectNamespaces", "WaitingForDashboardValues"}

\* Another ProjectHelmChart tracks the release, by its status in the cache.
Tracks(d)   == cache[d].status \notin {""} \cup Unable
Conflict(c) == \E d \in indexed \ {c} : Tracks(d)
Competes(c) == OnChange(c) /\ Managed(c) /\ ~cache[c].cleanup /\ ~Stale

Yields(c) ==
    /\ Competes(c) /\ Conflict(c)
    /\ Decides(c, [Nothing EXCEPT !.status = "AlreadyTracked"])

HasNoTargets(c) ==
    /\ Competes(c) /\ ~Conflict(c) /\ c \notin targets
    /\ Decides(c, [Nothing EXCEPT !.ns = "orphaned", !.status = "NoTargetProjectNamespaces"])

\* Without its namespace the release is not applied, and one that was is deleted.
NeedsNamespace(c) ==
    /\ Competes(c) /\ ~Conflict(c) /\ c \in targets
    /\ ~Exists
    /\ Decides(c, [Nothing EXCEPT !.ns = "used", !.status = "NoReleaseNamespace"])

\* Mutant of Deploys: nothing is applied before the dashboard is there.
WaitsFirst(c) ==
    /\ Competes(c) /\ ~Conflict(c) /\ c \in targets
    /\ Exists
    /\ Decides(c, IF dashboard
                  THEN [Nothing EXCEPT !.ns = "used", !.helm = TRUE, !.status = "Deployed"]
                  ELSE [Nothing EXCEPT !.status = "WaitingForDashboardValues"])

Deploys(c) ==
    /\ Competes(c) /\ ~Conflict(c) /\ c \in targets
    /\ Exists
    /\ Decides(c, [Nothing EXCEPT !.ns = "used", !.helm = TRUE,
                     !.status = IF dashboard THEN "Deployed" ELSE "WaitingForDashboardValues"])

\* The HelmChart is created or taken over unless the cache has it in the set of
\* c; what is in the set and no longer wanted is deleted, by its name.
ApplyHelm(c) ==
    IF plan[c].helm = (helmCache = c)
    THEN UNCHANGED <<helm, helmWatch, dashboard>>
    ELSE SetOwner(IF plan[c].helm THEN c ELSE NoOwner)

\* The status is written, from the copy the handler was called with, when it has
\* changed.
Refused(c) == plan[c].read.status # plan[c].status /\ chart[c] # plan[c].read

UpdateStatus(c) ==
    IF plan[c].read.status = plan[c].status
    THEN UNCHANGED <<chart, watch>>
    ELSE Write(c, [chart[c] EXCEPT !.status = plan[c].status])

\* The handler is over; one that has failed is called again.
Returns(c, failed) ==
    /\ step' = [step EXCEPT ![c] = "idle"]
    /\ plan' = [plan EXCEPT ![c] = Nothing]
    /\ queue' = queue \cup Woken \cup (IF failed THEN {c} ELSE {})

\* sync: the objects are applied, and the status is updated, unless the API server
\* refuses that.
Apply(c) ==
    /\ step[c] = "apply"
    /\ relNs' = IF plan[c].ns = "none" THEN relNs ELSE plan[c].ns
    /\ ApplyHelm(c)
    /\ IF Refused(c) THEN UNCHANGED <<chart, watch>> ELSE UpdateStatus(c)
    /\ Returns(c, Refused(c))
    /\ UNCHANGED <<reg, targets, events, started, cache, indexed, helmCache, tracked>>

\* Mutant of ApplyFails: the error is dropped, and the status written.
FailsSilently(c) ==
    /\ "apply" \in Faults /\ Happens
    /\ step[c] = "apply"
    /\ IF Refused(c) THEN UNCHANGED <<chart, watch>> ELSE UpdateStatus(c)
    /\ UNCHANGED <<reg, targets, helm, relNs, dashboard, started, cache, indexed, helmCache,
                   helmWatch, tracked>>
    /\ Returns(c, Refused(c))

\* An apply fails when all, some or none of its objects have been applied.  The
\* status is left as it was, and so is the finalizer of what is being removed, and
\* the handler is called again.
ApplyFails(c) ==
    /\ "apply" \in Faults /\ Happens
    /\ step[c] # "idle"
    /\ relNs' \in {relNs} \cup ({plan[c].ns} \ {"none"})
    /\ \/ UNCHANGED <<helm, helmWatch, dashboard>>
       \/ step[c] = "apply" /\ ApplyHelm(c)
    /\ Returns(c, TRUE)
    /\ UNCHANGED <<chart, reg, watch, targets, started, cache, indexed, helmCache, tracked>>

\* OnRemove of a managed ProjectHelmChart marks the release namespace as orphaned
\* and gives up the finalizer; one that is not managed is left alone.
BeginsRemoval(c) ==
    /\ Called(c) /\ cache[c].phase = "deleting"
    /\ GoesOn(c, IF Managed(c) THEN "remove" ELSE "idle", Nothing)

Remove(c) ==
    /\ step[c] = "remove"
    /\ relNs' = "orphaned"
    /\ IF chart[c] # plan[c].read THEN UNCHANGED <<chart, watch>> ELSE Write(c, Gone)
    /\ UNCHANGED <<reg, targets, helm, dashboard, events, started, cache, indexed, helmCache,
                   helmWatch, tracked>>
    /\ Returns(c, chart[c] # plan[c].read)

\* Mutant of Prune: it is only taken from the queue.
PrunesNothing(c) ==
    /\ Called(c) /\ cache[c].phase = "absent"
    /\ queue' = queue \ {c}
    /\ UNCHANGED <<cluster, informer, tracked, step, plan>>

\* Remove: nothing is wanted for a ProjectHelmChart that no longer exists.
Prune(c) ==
    /\ Called(c) /\ cache[c].phase = "absent"
    /\ IF helmCache = c THEN SetOwner(NoOwner) ELSE UNCHANGED <<helm, helmWatch, dashboard>>
    /\ queue' = (queue \ {c}) \cup Woken
    /\ UNCHANGED <<chart, reg, targets, relNs, events, started, cache, watch, indexed,
                   helmCache, tracked, step, plan>>

-----------------------------------------------------------------------------
(* The whole system *)

\* initRemoveCleanupLabels takes the cleanup label from the ProjectHelmCharts that
\* are managed when the operator starts, which is before the informers do.
Relabelled == [c \in Charts |-> [chart[c] EXCEPT !.cleanup = @ /\ ~Managed(c)']]

\* A new operator begins with nothing in memory, and sees all registration
\* namespaces anew.
Restarted ==
    /\ started' = FALSE
    /\ cache' = [c \in Charts |-> Gone] /\ watch' = {} /\ indexed' = {}
    /\ helmCache' = NoOwner /\ helmWatch' = {}
    /\ tracked' = {}
    /\ queue' = {}
    /\ step' = [c \in Charts |-> "idle"] /\ plan' = [c \in Charts |-> Nothing]
    /\ chart' = Relabelled
    /\ reg' = [c \in Charts |-> IF reg[c] = "terminating" THEN "deleted" ELSE reg[c]]
    /\ UNCHANGED <<targets, helm, relNs, dashboard>>

\* The operator is restarted, in the middle of anything.
Restart == "restart" \in Faults /\ Happens /\ Restarted

\* Whoever looks at the stale index panics, and the operator is restarted: a
\* ProjectHelmChart that competes, or the resolver of the ConfigMap, and of the Roles,
\* of the release.  (One of them does so, in the end.)
Panics == Stale /\ Restarted /\ UNCHANGED events

\* The registration namespace of c has nothing left to be done about it.
Settled(c) ==
    \/ c \in tracked /\ reg[c] = "active"
    \/ c \in tracked /\ reg[c] = "terminating" /\ chart[c].phase = "deleting"
    \/ reg[c] = "gone" /\ chart[c].phase = "absent"

\* Nothing is on its way, queued, running, or left to be done by others.
Quiet == /\ started /\ ~Stale
         /\ watch = {} /\ helmWatch = {}
         /\ queue = {} /\ \A c \in Charts : step[c] = "idle" /\ Settled(c)
         /\ helm.owner # NoOwner /\ Exists => helm.installed

\* The informer resyncs every ten hours: everything else is over by then.  What it
\* has is stored anew, and so indexed with what is tracked by now, and enqueued.
Resync ==
    /\ Quiet
    /\ indexed' = indexed \cup {c \in Charts : Managed(c) /\ cache[c].phase # "absent"}
    /\ queue' = Present \cup ({helmCache} \ {NoOwner})
    /\ UNCHANGED <<cluster, started, cache, watch, helmCache, helmWatch, tracked, step, plan>>

Handler(c) == \/ NotManaged(c) \/ CleansUp(c) \/ Yields(c) \/ HasNoTargets(c)
              \/ NeedsNamespace(c) \/ Deploys(c) \/ Apply(c) \/ ApplyFails(c)
              \/ BeginsRemoval(c) \/ Remove(c) \/ Prune(c)

Informers == \/ StartCaches \/ DeliverHelm
             \/ \E c \in Charts : DeliverChart(c)

Users == \/ UserDeletesNamespace
         \/ \E c \in Touched : UserChanges(c) \/ UserDeletes(c) \/ UserMovesNamespaces(c)
         \/ \E c \in Closed : UserDeletesRegistration(c)

\* The Helm controller, and the namespace controller of Kubernetes.
Kubernetes == HelmInstalls \/ \E c \in Charts : EmptiesRegistration(c) \/ RegistrationGoes(c)

Operator == Informers \/ Resync \/ Panics \/ \E c \in Charts : Handler(c) \/ Track(c) \/ Untrack(c)

Next == Users \/ Kubernetes \/ Operator \/ Restart

\* Each informer gets what has changed, of every object, however often the handlers
\* are called meanwhile, and something happens as long as something is left to do:
\* nothing more is assumed of the workers, the Helm controller and the namespace
\* controller.  Kubernetes empties a namespace whatever they do.
Fairness ==
    /\ WF_vars(StartCaches) /\ WF_vars(DeliverHelm) /\ \A c \in Charts : WF_vars(DeliverChart(c))
    /\ WF_vars(\E c \in Charts : EmptiesRegistration(c))
    /\ WF_vars(Operator \/ Kubernetes)

Safe == Init /\ [][Next]_vars
Spec == Safe /\ Fairness

-----------------------------------------------------------------------------
(* Correctness *)

Claims(c) == chart[c].phase = "live"
             /\ chart[c].status \in {"NoTargetProjectNamespaces", "WaitingForDashboardValues", "Deployed"}

\* At rest one ProjectHelmChart of the index at most claims the release, although
\* each has looked at cached statuses only.  (One is missing in the index that was
\* stored when its registration namespace was not tracked.)
OneClaim == Quiet => \A c, d \in indexed : Claims(c) /\ Claims(d) => c = d

\* Two claims that are made because the index of one is missing do not last: the
\* next resync indexes it, and one of the two backs down.  (Before that they may
\* take the HelmChart from each other again and again, if they keep overlapping:
\* then there is no rest, nor a resync as it is modelled here.)
ClaimsResolved == []<>Quiet => []<>(\A c, d \in Charts : Claims(c) /\ Claims(d) => c = d)

\* At rest the HelmChart belongs to a ProjectHelmChart that exists and says so, even
\* if an apply has failed half-way; or else to one that was deleted with its
\* registration namespace and still has its finalizer: untracked, it was left alone
\* (the scope of OnRemove, project/controller.go:132-143).
OwnerClaims ==
    Quiet /\ helm.owner # NoOwner =>
       \/ /\ chart[helm.owner].phase = "live"
          /\ chart[helm.owner].status \in {"WaitingForDashboardValues", "Deployed"}
       \/ reg[helm.owner] = "terminating" /\ chart[helm.owner].phase = "deleting"

\* A ProjectHelmChart that is deleted with its registration namespace disappears in the
\* end, and its HelmChart with it, although it stops being managed meanwhile: the
\* namespace is tracked again, and a resync calls OnRemove once more.
ReleasedInTheEnd ==
    \A c \in Closed : reg[c] # "active" ~> [](chart[c].phase = "absent" /\ helm.owner # c)

\* The release namespace was deleted with the release in it, which the Helm
\* controller does not install again.
Lost == helm.installed /\ ~dashboard

\* A ProjectHelmChart that is left alone with the release, having waited for it or
\* not, is deployed in the end, in a namespace that is not marked as orphaned.
DeployedInTheEnd ==
    <>[](\E c \in Charts : /\ Present = {c} /\ chart[c].phase = "live" /\ ~chart[c].cleanup
                          /\ c \in targets /\ ~Lost)
    => <>[](\A c \in Present : /\ chart[c].status = "Deployed" /\ helm.owner = c
                              /\ relNs = "used")

-----------------------------------------------------------------------------
(* What comments say, and the code does not do *)

\* namespaces.go:29-31: the registration namespaces are tracked "before it
\* provides the ProjectGetter interface to other controllers that need it", so
\* that a restart does not delete the release of a ProjectHelmChart that wants it.
KeepsRelease ==
    [][helm'.owner # helm.owner => \A c \in {helm.owner} \ {NoOwner} :
         \/ chart[c].phase # "live" \/ chart[c].cleanup \/ c \notin targets
         \/ ~Exists \/ Present # {c}]_vars
=============================================================================
