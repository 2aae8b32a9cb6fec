------------------------- MODULE NamespaceController -------------------------
(***************************************************************************)
(* The namespace controller (src/pkg/controllers/namespace) of an operator *)
(* with a project label: for every project that has a namespace it keeps a *)
(* registration namespace with a ConfigMap, marks the registration         *)
(* namespace as orphaned when the project has no namespace left, and       *)
(* tracks it for the controller of ProjectHelmCharts.                      *)
(*                                                                         *)
(* The handler reads namespaces from an informer that lags behind the API  *)
(* server, and only requests the work: the Applyinator runs it later, with *)
(* reads of the informer and of the API server in between.  What the       *)
(* Applyinator does is taken from its promise (ApplyPromise).              *)
(*                                                                         *)
(* A namespace is here the project its label names, the project ID label   *)
(* the operator puts on it, and whether it is marked as orphaned.  The     *)
(* registration namespace of project p has the name p.  A name listed in   *)
(* opts.SystemNamespaces is like one that never leaves System.             *)
(***************************************************************************)
EXTENDS Integers, Sequences, FiniteSets

CONSTANTS Projects,     \* values of the project label
          Namespaces,   \* names of the users' namespaces
          System,       \* the label value of the system project
          NoProject,    \* the absence of the label
          Untracked,    \* the absence of a tracker entry
          Initial,      \* bound: labels of the users' namespaces at the start
          MaxEvents     \* bound: what users do, calls that fail, crashes

Names  == Projects \cup Namespaces
Labels == Projects \cup {System, NoProject}

ASSUME NamesAssumption ==
    /\ Projects \cap Namespaces = {}
    /\ {System, NoProject, Untracked} \cap Projects = {}
    /\ Untracked \notin {System, NoProject}
ASSUME BoundsAssumption == Initial \subseteq Labels /\ MaxEvents \in Nat

VARIABLES
    (* the cluster *)
    live,        \* the namespaces
    configMap,   \* whether the ConfigMap of each project exists
    events,      \* counts what the environment has done
    mishap,      \* an update of the project label has failed, which the handler
                 \* swallows, or a user has moved a registration namespace
    (* the informers *)
    started,     \* the caches run; before, cache is the List of the start-up
    cache,       \* the namespaces as the controller sees them
    watch,       \* the events on their way
    cmCache, cmWatch,
    (* the handler *)
    starting,    \* names initProjectRegistrationNamespaces has still to handle
    queue,       \* names in the work queue of the handler
    untracking,  \* registration namespaces the handler is about to untrack
    tracker,     \* projectRegistrationNamespaceTracker: the label of the stored namespace
    (* the Applyinator *)
    owed, running, retrying,
    step, orphaned, found

cluster  == <<live, configMap, events, mishap>>
informer == <<started, cache, watch, cmCache, cmWatch>>
handler  == <<starting, queue, untracking>>
promise  == <<owed, running, retrying>>
worker   == <<step, orphaned, found>>
vars     == <<cluster, informer, handler, tracker, promise, worker>>

Promise == INSTANCE ApplyPromise WITH Keys <- Projects, stopped <- FALSE

Phases == {"absent", "active", "terminating"}
Steps  == {"idle", "apply", "get", "track", "configMap", "finish"}

Namespace == [phase : Phases, proj : Labels, id : Labels, orphaned : BOOLEAN]
Absent    == [phase |-> "absent", proj |-> NoProject, id |-> NoProject, orphaned |-> FALSE]

TypeOK ==
    /\ live \in [Names -> Namespace] /\ cache \in [Names -> Namespace]
    /\ configMap \in [Projects -> BOOLEAN] /\ cmCache \in [Projects -> BOOLEAN]
    /\ events \in 0..MaxEvents /\ mishap \in BOOLEAN
    /\ started \in BOOLEAN
    /\ watch \in Seq([name : Names, obj : Namespace])
    /\ cmWatch \subseteq Projects
    /\ starting \subseteq Names /\ queue \subseteq Names /\ untracking \subseteq Projects
    /\ tracker \in [Projects -> Labels \cup {Untracked}]
    /\ owed \subseteq Projects /\ running \subseteq Projects /\ retrying \subseteq Projects
    /\ step \in [Projects -> Steps]
    /\ orphaned \in [Projects -> BOOLEAN]
    /\ found \in [Projects -> Namespace]
    /\ running = {p \in Projects : step[p] # "idle"}
    /\ \A p \in Projects : /\ step[p] = "track" <=> found[p].phase # "absent"
                           /\ orphaned[p] => step[p] = "apply"

-----------------------------------------------------------------------------
(* The cluster *)

Existing(s) == {n \in Names : s[n].phase # "absent"}

\* Objects change at the API server, and the informer will hear of it.
Write(n, obj) ==
    /\ live' = [live EXCEPT ![n] = obj]
    /\ watch' = IF obj = live[n] THEN watch ELSE Append(watch, [name |-> n, obj |-> obj])

\* The API server refuses an update made from an old copy.
Stale(n) == \E i \in DOMAIN watch : watch[i].name = n

Nowhere(v) == [p \in Projects |-> v]

\* The operator starts in a cluster that an earlier run may have left behind:
\* registration namespaces may exist, marked or not, with their ConfigMap.  (What
\* an interrupted run leaves behind is reached by a Crash.)
Init ==
    /\ live \in {s \in [Names -> {Absent} \cup [phase : {"active"}, proj : Labels, id : Labels,
                                                orphaned : BOOLEAN]] :
                   /\ \A p \in Projects : s[p] # Absent => s[p].proj = p /\ s[p].id = p
                   /\ \A n \in Namespaces : /\ s[n] # Absent => s[n].proj \in Initial
                                             /\ s[n].id = NoProject /\ ~s[n].orphaned}
    /\ configMap = [p \in Projects |-> live[p] # Absent]
    /\ events = 0 /\ mishap = FALSE
    /\ started = FALSE
    /\ cache = live /\ watch = <<>>
    /\ cmCache = Nowhere(FALSE) /\ cmWatch = {}
    /\ starting = Existing(live) /\ queue = {} /\ untracking = {}
    /\ tracker = Nowhere(Untracked)
    /\ Promise!Init
    /\ step = Nowhere("idle") /\ orphaned = Nowhere(FALSE) /\ found = Nowhere(Absent)

Happens == events < MaxEvents /\ events' = events + 1
Mishap  == Happens /\ mishap' = TRUE

\* A user creates a namespace, moves it to another project, or deletes it.
UserChanges(n) ==
    /\ Happens
    /\ \/ \E l \in Labels : /\ live[n].phase # "terminating" /\ live[n].proj # l
                            /\ Write(n, [live[n] EXCEPT !.phase = "active", !.proj = l])
       \/ live[n].phase = "active" /\ Write(n, [live[n] EXCEPT !.phase = "terminating"])
    /\ UNCHANGED <<configMap, mishap, started, cache, cmCache, cmWatch, handler, tracker, promise, worker>>

\* A user deletes a registration namespace, or moves it to another project.
UserDrifts(p) ==
    /\ live[p].phase = "active"
    /\ \/ /\ Happens
          /\ Write(p, [live[p] EXCEPT !.phase = "terminating"])
          /\ UNCHANGED mishap
       \/ /\ Mishap
          /\ \E l \in Labels \ {live[p].proj} : Write(p, [live[p] EXCEPT !.proj = l])
    /\ UNCHANGED <<configMap, started, cache, cmCache, cmWatch, handler, tracker, promise, worker>>

\* A user deletes the ConfigMap.
UserDeletesConfigMap(p) ==
    /\ Happens
    /\ configMap[p]
    /\ configMap' = [configMap EXCEPT ![p] = FALSE]
    /\ cmWatch' = cmWatch \cup {p}
    /\ UNCHANGED <<live, mishap, started, cache, watch, cmCache, handler, tracker, promise, worker>>

\* A namespace that is being deleted disappears, and its ConfigMap with it.
Vanish(n) ==
    /\ live[n].phase = "terminating"
    /\ Write(n, Absent)
    /\ configMap' = [p \in Projects |-> configMap[p] /\ p # n]
    /\ cmWatch' = cmWatch \cup {p \in Projects : configMap'[p] # configMap[p]}
    /\ UNCHANGED <<events, mishap, started, cache, cmCache, handler, tracker, promise, worker>>

-----------------------------------------------------------------------------
(* The informers *)

\* The index of namespaces by project: system namespaces and those that carry
\* the operator's label are left out.  Before the caches run it is empty.
InProject(p) == {n \in Namespaces : /\ started /\ cache[n].phase # "absent"
                                     /\ cache[n].proj = p /\ p # System}

\* The caches are started when all handlers are registered; they list what
\* exists, and each object is handled.
StartCaches ==
    /\ ~started /\ starting = {} /\ untracking = {}
    /\ started' = TRUE
    /\ cache' = live /\ watch' = <<>>
    /\ cmCache' = configMap /\ cmWatch' = {}
    /\ queue' = queue \cup Existing(live)
    /\ UNCHANGED <<cluster, starting, untracking, tracker, promise, worker>>

Deliver ==
    /\ started /\ watch # <<>>
    /\ cache' = [cache EXCEPT ![Head(watch).name] = Head(watch).obj]
    /\ watch' = Tail(watch)
    /\ queue' = queue \cup {Head(watch).name}
    /\ UNCHANGED <<cluster, started, cmCache, cmWatch, starting, untracking, tracker, promise, worker>>

\* Mutant of DeliverConfigMap: nobody is told.
ConfigMapIgnored(p) ==
    /\ started /\ p \in cmWatch
    /\ cmWatch' = cmWatch \ {p}
    /\ cmCache' = [cmCache EXCEPT ![p] = configMap[p]]
    /\ UNCHANGED <<cluster, started, cache, watch, handler, tracker, promise, worker>>

\* resolveProjectRegistrationNamespaceData: a change of the ConfigMap enqueues
\* its namespace, if that is tracked.
DeliverConfigMap(p) ==
    /\ started /\ p \in cmWatch
    /\ cmWatch' = cmWatch \ {p}
    /\ cmCache' = [cmCache EXCEPT ![p] = configMap[p]]
    /\ queue' = IF tracker[p] = Untracked THEN queue ELSE queue \cup {p}
    /\ UNCHANGED <<cluster, started, cache, watch, starting, untracking, tracker, promise, worker>>

-----------------------------------------------------------------------------
(* OnMultiNamespaceChange *)

\* The handler is called with the namespace: by initProjectRegistrationNamespaces,
\* one after the other, before the caches run, and by the work queue afterwards.
Called(n) == /\ n \notin untracking
             /\ IF started THEN n \in queue ELSE n \in starting /\ untracking = {}

\* The call is over, and more has been enqueued.
Returns(n, more) ==
    /\ queue' = (queue \ {n}) \cup more
    /\ starting' = starting \ {n}

IsTracked(n) == n \in Projects /\ tracker[n] # Untracked
IsSystem(n)  == cache[n].proj = System

\* A namespace that no longer exists, or one of the system project.
IgnoreNamespace(n) ==
    /\ Called(n)
    /\ cache[n].phase = "absent" \/ (~IsTracked(n) /\ IsSystem(n))
    /\ Returns(n, {})
    /\ UNCHANGED <<cluster, informer, untracking, tracker, promise, worker>>

\* Mutant of RegistrationChanged: the namespaces of the project are not enqueued.
RegistrationIgnored(p) ==
    /\ Called(p) /\ IsTracked(p) /\ cache[p].phase # "absent"
    /\ tracker[p] # NoProject
    /\ Returns(p, {})
    /\ untracking' = IF cache[p].phase = "terminating" THEN untracking \cup {p} ELSE untracking
    /\ UNCHANGED <<cluster, informer, tracker, promise, worker>>

\* enqueueProjectNamespaces: a tracked registration namespace enqueues the
\* namespaces of its project, the one that was tracked.  Without a project the
\* handler fails, and is called again.
RegistrationChanged(p) ==
    /\ Called(p) /\ IsTracked(p) /\ cache[p].phase # "absent"
    /\ tracker[p] # NoProject
    /\ Returns(p, InProject(tracker[p]))
    /\ untracking' = IF cache[p].phase = "terminating" THEN untracking \cup {p} ELSE untracking
    /\ UNCHANGED <<cluster, informer, tracker, promise, worker>>

\* A registration namespace that is being deleted is not tracked any more.
Untrack(p) ==
    /\ p \in untracking
    /\ untracking' = untracking \ {p}
    /\ tracker' = [tracker EXCEPT ![p] = Untracked]
    /\ UNCHANGED <<cluster, informer, starting, queue, promise, worker>>

\* A namespace outside of all projects loses the project ID label.  (The second
\* update, made from the same copy, fails, which changes nothing.)
LeavesProjects(n) ==
    /\ Called(n) /\ ~IsTracked(n)
    /\ cache[n].phase # "absent" /\ cache[n].proj = NoProject
    /\ Returns(n, {})
    /\ IF cache[n].phase = "active" /\ ~Stale(n)
       THEN Write(n, [live[n] EXCEPT !.id = NoProject])
       ELSE UNCHANGED <<live, watch>>
    /\ UNCHANGED <<configMap, events, mishap, started, cache, cmCache, cmWatch, untracking,
                   tracker, promise, worker>>

\* Mutant of ProjectNamespaceChanged: the label is not updated.
OnlyRequests(n) ==
    LET p == cache[n].proj IN
    /\ Called(n) /\ ~IsTracked(n)
    /\ cache[n].phase # "absent" /\ p \in Projects
    /\ Returns(n, {})
    /\ Promise!Request(p)
    /\ UNCHANGED <<cluster, informer, untracking, tracker, worker>>

\* applyProjectRegistrationNamespaceForNamespace: a namespace of a project gets
\* the project ID label, and its project is requested.  When the update fails,
\* because the copy is old or otherwise, the project is not requested.
ProjectNamespaceChanged(n) ==
    LET p == cache[n].proj IN
    /\ Called(n) /\ ~IsTracked(n)
    /\ cache[n].phase # "absent" /\ p \in Projects
    /\ Returns(n, {})
    /\ \/ /\ cache[n].phase = "active" /\ ~Stale(n)
          /\ Write(n, [live[n] EXCEPT !.id = p])
          /\ Promise!Request(p)
          /\ UNCHANGED <<events, mishap>>
       \/ /\ cache[n].phase = "terminating"
          /\ Promise!Request(p)
          /\ UNCHANGED <<live, watch, events, mishap>>
       \/ /\ cache[n].phase = "active"
          /\ IF Stale(n) THEN UNCHANGED <<events, mishap>> ELSE Mishap
          /\ UNCHANGED <<live, watch, promise>>
    /\ UNCHANGED <<configMap, started, cache, cmCache, cmWatch, untracking,
                   tracker, worker>>

-----------------------------------------------------------------------------
(* applyProjectRegistrationNamespace, as the Applyinator runs it *)

\* The namespaces of the project are counted in the index, without those that
\* are being deleted.
CountNamespaces(p) ==
    /\ Promise!Start(p)
    /\ orphaned' = [orphaned EXCEPT ![p] = \A n \in InProject(p) : cache[n].phase = "terminating"]
    /\ step' = [step EXCEPT ![p] = "apply"]
    /\ UNCHANGED <<cluster, informer, handler, tracker, found>>

\* The registration namespace as it should be.
Desired(p) == [phase |-> "active", proj |-> p, id |-> p, orphaned |-> orphaned[p]]

\* Mutant of Patched: the mark is only ever added.
KeepsMark(p) ==
    [live[p] EXCEPT !.proj = p, !.id = p, !.orphaned = @ \/ orphaned[p]]

\* What an apply makes of an existing namespace: wrangler computes the difference
\* from its cached copy, or takes over a namespace it has no copy of.
Patched(p) ==
    LET old == IF started /\ cache[p].phase # "absent" THEN cache[p] ELSE live[p]
        new == Desired(p)
    IN [live[p] EXCEPT !.proj     = IF old.proj     = new.proj     THEN @ ELSE new.proj,
                       !.id       = IF old.id       = new.id       THEN @ ELSE new.id,
                       !.orphaned = IF old.orphaned = new.orphaned THEN @ ELSE new.orphaned]

\* ApplyObjects.  A patch of a namespace that is gone fails.
ApplyNamespace(p) ==
    /\ step[p] = "apply"
    /\ \/ /\ live[p].phase = "absent"
          /\ ~started \/ cache[p].phase = "absent"
          /\ Write(p, Desired(p))
       \/ /\ live[p].phase # "absent"
          /\ Write(p, Patched(p))
       \/ /\ live[p].phase = "absent"
          /\ started /\ [cache[p] EXCEPT !.phase = "active"] = Desired(p)
          /\ UNCHANGED <<live, watch>>
    /\ step' = [step EXCEPT ![p] = "get"]
    /\ orphaned' = [orphaned EXCEPT ![p] = FALSE]
    /\ UNCHANGED <<configMap, events, mishap, started, cache, cmCache, cmWatch, handler,
                   tracker, promise, found>>

\* Mutant of GetNamespace: the error of the read is ignored.
GetMissing(p) ==
    /\ step[p] = "get"
    /\ found' = [found EXCEPT ![p] = live[p]]
    /\ step' = [step EXCEPT ![p] = "track"]
    /\ UNCHANGED <<cluster, informer, handler, tracker, promise, orphaned>>

\* The namespace is read back from the API server.
GetNamespace(p) ==
    /\ step[p] = "get"
    /\ live[p].phase # "absent"
    /\ found' = [found EXCEPT ![p] = live[p]]
    /\ step' = [step EXCEPT ![p] = "track"]
    /\ UNCHANGED <<cluster, informer, handler, tracker, promise, orphaned>>

\* What was read is tracked; nothing else is done to a namespace that is being
\* deleted.
Track(p) ==
    /\ step[p] = "track"
    /\ tracker' = [tracker EXCEPT ![p] = found[p].proj]
    /\ step' = [step EXCEPT ![p] = IF found[p].phase = "terminating" THEN "finish" ELSE "configMap"]
    /\ found' = [found EXCEPT ![p] = Absent]
    /\ UNCHANGED <<cluster, informer, handler, promise, orphaned>>

\* The ConfigMap is applied, from its cached copy too; a ConfigMap cannot be
\* created in a namespace that is not active.  Then the ProjectHelmCharts of the
\* namespace are enqueued.
ApplyConfigMap(p) ==
    /\ step[p] = "configMap"
    /\ \/ cmCache[p] /\ UNCHANGED <<configMap, cmWatch>>
       \/ /\ ~cmCache[p] /\ (configMap[p] \/ live[p].phase = "active")
          /\ configMap' = [configMap EXCEPT ![p] = TRUE]
          /\ cmWatch' = IF configMap[p] THEN cmWatch ELSE cmWatch \cup {p}
    /\ step' = [step EXCEPT ![p] = "finish"]
    /\ UNCHANGED <<live, events, mishap, started, cache, watch, cmCache, handler, tracker,
                   promise, orphaned, found>>

\* An API call of the application fails: by what it finds, or otherwise.
ApplyFails(p) ==
    /\ \/ /\ step[p] = "apply"
          /\ live[p].phase = "absent" /\ started /\ cache[p].phase # "absent"
          /\ [cache[p] EXCEPT !.phase = "active"] # Desired(p)
          /\ UNCHANGED <<events, mishap>>
       \/ /\ step[p] = "get" /\ live[p].phase = "absent"
          /\ UNCHANGED <<events, mishap>>
       \/ /\ step[p] = "configMap"
          /\ ~cmCache[p] /\ ~configMap[p] /\ live[p].phase # "active"
          /\ UNCHANGED <<events, mishap>>
       \/ step[p] \in {"apply", "get", "configMap"} /\ Happens /\ UNCHANGED mishap
    /\ Promise!Fail(p)
    /\ step' = [step EXCEPT ![p] = "finish"]
    /\ orphaned' = [orphaned EXCEPT ![p] = FALSE]
    /\ UNCHANGED <<live, configMap, informer, handler, tracker, found>>

Finish(p) ==
    /\ step[p] = "finish"
    /\ Promise!Finish(p)
    /\ step' = [step EXCEPT ![p] = "idle"]
    /\ UNCHANGED <<cluster, informer, handler, tracker, orphaned, found>>

BackoffEnds(p) ==
    /\ Promise!Retry(p)
    /\ UNCHANGED <<cluster, informer, handler, tracker, worker>>

-----------------------------------------------------------------------------
(* The whole system *)

\* A new process lists the namespaces and knows nothing else.
Restart ==
    /\ started' = FALSE
    /\ cache' = live /\ watch' = <<>>
    /\ cmCache' = Nowhere(FALSE) /\ cmWatch' = {}
    /\ starting' = Existing(live) /\ queue' = {} /\ untracking' = {}
    /\ tracker' = Nowhere(Untracked)
    /\ owed' = {} /\ running' = {} /\ retrying' = {}
    /\ step' = Nowhere("idle") /\ orphaned' = Nowhere(FALSE) /\ found' = Nowhere(Absent)
    /\ UNCHANGED <<live, configMap>>

\* The start-up fails when a registration namespace was tracked without its
\* project: the process exits and is restarted.
StartFails ==
    /\ ~started
    /\ \E p \in starting : IsTracked(p) /\ tracker[p] = NoProject
    /\ Restart
    /\ UNCHANGED <<events, mishap>>

\* The process crashes and is restarted.
Crash ==
    /\ Happens
    /\ Restart
    /\ UNCHANGED mishap

\* Nothing is on its way, queued or running, except a handler that keeps failing.
Quiet == /\ started
         /\ watch = <<>> /\ cmWatch = {}
         /\ untracking = {}
         /\ \A n \in queue : IsTracked(n) /\ tracker[n] = NoProject
         /\ owed = {} /\ running = {} /\ retrying = {}

\* The informer resyncs every ten hours: everything else is over by then.
Resync ==
    /\ Quiet
    /\ queue' = queue \cup Existing(cache)
    /\ UNCHANGED <<cluster, informer, starting, untracking, tracker, promise, worker>>

Handler(n) == IgnoreNamespace(n) \/ LeavesProjects(n) \/ ProjectNamespaceChanged(n)
Registration(p) == RegistrationChanged(p) \/ Untrack(p)

Application(p) == \/ CountNamespaces(p) \/ ApplyNamespace(p) \/ GetNamespace(p) \/ Track(p)
                  \/ ApplyConfigMap(p) \/ ApplyFails(p) \/ Finish(p)

Environment == \/ \E n \in Namespaces : UserChanges(n)
               \/ \E p \in Projects : UserDrifts(p) \/ UserDeletesConfigMap(p)
               \/ \E n \in Names : Vanish(n)

\* The start-up, the informers and the work queue of the handler.
Controller == \/ StartCaches \/ StartFails \/ Deliver \/ Resync
              \/ \E n \in Names : Handler(n)
              \/ \E p \in Projects : Registration(p) \/ DeliverConfigMap(p)

Operator == Controller \/ Crash \/ \E p \in Projects : Application(p) \/ BackoffEnds(p)

Next == Environment \/ Operator

\* Every goroutine that can run eventually does, a back-off ends, and a namespace
\* that is being deleted disappears.  That the controller makes progress is
\* enough: it comes to rest when the Applyinator does, and then only a resync is
\* left.
Fairness == /\ WF_vars(Controller)
            /\ \A p \in Projects : WF_vars(Application(p) \/ BackoffEnds(p))
            /\ WF_vars(\E n \in Names : Vanish(n))

Safe == Init /\ [][Next]_vars
Spec == Safe /\ Fairness

-----------------------------------------------------------------------------
(* Correctness *)

\* The project has a namespace that is not being deleted.
InUse(p) == \E n \in Namespaces : live[n].phase = "active" /\ live[n].proj = p

Registered(p) ==
    /\ live[p].phase = "active" /\ live[p].proj = p /\ ~live[p].orphaned
    /\ configMap[p]
    /\ tracker[p] # Untracked

\* A project that keeps a namespace ends up registered, and stays so, whatever
\* was deleted, moved, lost in a crash or swallowed meanwhile.
RegisteredInTheEnd == \A p \in Projects : <>[]InUse(p) => <>[]Registered(p)

\* At rest no project in use is marked as orphaned, which would say that its
\* registration namespace may be deleted (operatorlabels.go:48-50), although the
\* count and the patch are both made from caches, and whichever application failed
\* and wherever the operator crashed: unless an update was swallowed, or the
\* namespace was tracked while a user had moved it.
NeverOrphanedInUse ==
    Quiet /\ ~mishap => \A p \in Projects :
       InUse(p) /\ live[p].phase = "active" => ~live[p].orphaned

\* At rest a registration namespace of a project in use is tracked, so that its
\* ProjectHelmCharts are managed, and has its ConfigMap, although an application may
\* fail, or the operator crash, when a part of that is done.
TrackedAtRest ==
    Quiet /\ ~mishap => \A p \in Projects :
       InUse(p) /\ live[p].phase = "active"
       => tracker[p] = p /\ configMap[p]

\* At rest the project ID label of a namespace follows its project, unless it is
\* a system namespace, which is left alone.
LabelFollows ==
    Quiet /\ ~mishap => \A n \in Namespaces :
       live[n].phase = "active" /\ live[n].proj # System => live[n].id = live[n].proj

-----------------------------------------------------------------------------
(* What the documentation says, and the code does not do *)

\* design.md:32: once "all namespaces with that label are gone [...] the
\* namespace will be marked" as orphaned.  But a namespace that moves to another
\* project makes the handler look at that one only.
OrphanedInTheEnd == \A p \in Projects :
    <>[](/\ ~mishap
         /\ live[p].phase = "active" /\ live[p].proj = p
         /\ ~\E n \in Namespaces : live[n].phase # "absent" /\ live[n].proj = p)
    => <>[](live[p].orphaned)
=============================================================================
