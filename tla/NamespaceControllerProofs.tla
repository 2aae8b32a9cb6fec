---------------------- MODULE NamespaceControllerProofs ----------------------
(***************************************************************************)
(* NamespaceController, for all sets of projects and namespaces and any    *)
(* number of events: its type invariant, and that at rest the project ID   *)
(* label of a namespace follows its project.  The label is put on from a   *)
(* cached copy that may be old, by updates that are refused then; so the   *)
(* inductive invariant says what the events on their way still promise.    *)
(***************************************************************************)
EXTENDS NamespaceController, SequenceTheorems, TLAPS

\* An event of a namespace.
Event == [name : Names, obj : Namespace]

\* The types of what namespaces and events are made of.
LEMMA NamespaceTypes ==
    /\ Absent \in Namespace
    /\ \A p \in Projects : p \in Names /\ p \in Labels /\ p \notin Namespaces
    /\ \A n \in Namespaces : n \in Names /\ n \notin Projects
    /\ NoProject \in Labels
  BY NamesAssumption DEF Absent, Namespace, Phases, Labels, Names

\* The count of what the environment does stays below its bound.
LEMMA HappensType == TypeOK /\ Happens => events' \in 0..MaxEvents
<1> SUFFICES ASSUME events \in 0..MaxEvents, Happens PROVE events' \in 0..MaxEvents
  BY DEF TypeOK
<1> QED BY BoundsAssumption DEF Happens

\* What Write does to the namespaces and to the events on their way.
LEMMA WriteType ==
    ASSUME TypeOK, NEW n \in Names, NEW obj \in Namespace, Write(n, obj)
    PROVE  live' \in [Names -> Namespace] /\ watch' \in Seq(Event)
<1>1. live \in [Names -> Namespace] /\ watch \in Seq(Event)
  BY DEF TypeOK, Event
<1>2. live' \in [Names -> Namespace]
  BY <1>1 DEF Write
<1>3. [name |-> n, obj |-> obj] \in Event
  BY DEF Event
<1>4. watch' \in Seq(Event)
  BY <1>1, <1>3, AppendProperties DEF Write
<1> QED BY <1>2, <1>4


\* A namespace is written, or none.
Writes(n) == UNCHANGED <<live, watch>> \/ \E obj \in Namespace : Write(n, obj)

\* Either way the types are kept.
LEMMA WritesType ==
    ASSUME TypeOK, NEW n \in Names, Writes(n)
    PROVE  live' \in [Names -> Namespace] /\ watch' \in Seq(Event)
  BY WriteType DEF Writes, TypeOK, Event

\* What users write.
LEMMA EnvironmentWrites ==
    ASSUME TypeOK
    PROVE  /\ \A n \in Namespaces : UserChanges(n) => Writes(n)
           /\ \A p \in Projects : UserDrifts(p) => Writes(p)
           /\ \A n \in Names : Vanish(n) => Writes(n)
<1> USE NamespaceTypes
<1>0. live \in [Names -> Namespace]
  BY DEF TypeOK
<1>1. ASSUME NEW n \in Names PROVE [live[n] EXCEPT !.phase = "terminating"] \in Namespace
  BY <1>0 DEF Namespace, Phases
<1>2. ASSUME NEW n \in Namespaces, UserChanges(n) PROVE Writes(n)
  <2>1. CASE \E l \in Labels : Write(n, [live[n] EXCEPT !.phase = "active", !.proj = l])
    <3>1. PICK l \in Labels : Write(n, [live[n] EXCEPT !.phase = "active", !.proj = l])
      BY <2>1
    <3>2. [live[n] EXCEPT !.phase = "active", !.proj = l] \in Namespace
      BY <1>0 DEF Namespace, Phases
    <3> QED BY <3>1, <3>2 DEF Writes
  <2>2. CASE Write(n, [live[n] EXCEPT !.phase = "terminating"])
    BY <1>1, <2>2 DEF Writes
  <2> QED BY <1>2, <2>1, <2>2 DEF UserChanges
<1>3. ASSUME NEW p \in Projects, UserDrifts(p) PROVE Writes(p)
  <2>1. CASE Write(p, [live[p] EXCEPT !.phase = "terminating"])
    BY <1>1, <2>1 DEF Writes
  <2>2. CASE \E l \in Labels : Write(p, [live[p] EXCEPT !.proj = l])
    <3>1. PICK l \in Labels : Write(p, [live[p] EXCEPT !.proj = l])
      BY <2>2
    <3>2. [live[p] EXCEPT !.proj = l] \in Namespace
      BY <1>0 DEF Namespace
    <3> QED BY <3>1, <3>2 DEF Writes
  <2> QED BY <1>3, <2>1, <2>2 DEF UserDrifts
<1>4. ASSUME NEW n \in Names, Vanish(n) PROVE Writes(n)
  BY <1>4 DEF Vanish, Writes
<1> QED BY <1>2, <1>3, <1>4

\* What the handler writes.
LEMMA HandlerWrites ==
    ASSUME TypeOK, NEW n \in Names, LeavesProjects(n) \/ ProjectNamespaceChanged(n)
    PROVE  Writes(n)
<1>1. \A l \in Labels : [live[n] EXCEPT !.id = l] \in Namespace
  BY DEF TypeOK, Namespace
<1>2. CASE LeavesProjects(n)
  <2>1. Write(n, [live[n] EXCEPT !.id = NoProject]) \/ UNCHANGED <<live, watch>>
    BY <1>2 DEF LeavesProjects
  <2> QED BY <1>1, <2>1, NamespaceTypes DEF Writes
<1>3. CASE ProjectNamespaceChanged(n)
  <2>1. Write(n, [live[n] EXCEPT !.id = cache[n].proj]) \/ UNCHANGED <<live, watch>>
    BY <1>3 DEF ProjectNamespaceChanged
  <2>2. cache[n].proj \in Projects
    BY <1>3 DEF ProjectNamespaceChanged
  <2> QED BY <1>1, <2>1, <2>2, NamespaceTypes DEF Writes
<1> QED BY <1>2, <1>3

\* The steps of the environment preserve the type invariant.
LEMMA EnvironmentType == TypeOK /\ Environment => TypeOK'
<1> SUFFICES ASSUME TypeOK, Environment PROVE TypeOK'
  OBVIOUS
<1> USE NamespaceTypes
<1>0. live \in [Names -> Namespace] /\ mishap \in BOOLEAN
  BY DEF TypeOK
<1>1. ASSUME NEW n \in Namespaces, UserChanges(n) PROVE TypeOK'
  <2>1. live' \in [Names -> Namespace] /\ watch' \in Seq(Event)
    BY <1>1, EnvironmentWrites, WritesType
  <2>2. events' \in 0..MaxEvents
    BY <1>1, HappensType DEF UserChanges
  <2>3. UNCHANGED <<configMap, mishap, started, cache, cmCache, cmWatch, handler, tracker, promise, worker>>
    BY <1>1 DEF UserChanges
  <2> QED BY <2>1, <2>2, <2>3 DEF TypeOK, Event, handler, promise, worker
<1>2. ASSUME NEW p \in Projects, UserDrifts(p) PROVE TypeOK'
  <2>1. live' \in [Names -> Namespace] /\ watch' \in Seq(Event)
    BY <1>2, EnvironmentWrites, WritesType
  <2>2. events' \in 0..MaxEvents /\ mishap' \in BOOLEAN
    BY <1>0, <1>2, HappensType DEF UserDrifts, Mishap
  <2>3. UNCHANGED <<configMap, started, cache, cmCache, cmWatch, handler, tracker, promise, worker>>
    BY <1>2 DEF UserDrifts
  <2> QED BY <2>1, <2>2, <2>3 DEF TypeOK, Event, handler, promise, worker
<1>3. ASSUME NEW p \in Projects, UserDeletesConfigMap(p) PROVE TypeOK'
  <2>1. events' \in 0..MaxEvents
    BY <1>3, HappensType DEF UserDeletesConfigMap
  <2>2. configMap' \in [Projects -> BOOLEAN] /\ cmWatch' \subseteq Projects
    BY <1>3 DEF UserDeletesConfigMap, TypeOK
  <2>3. UNCHANGED <<live, mishap, started, cache, watch, cmCache, handler, tracker, promise, worker>>
    BY <1>3 DEF UserDeletesConfigMap
  <2> QED BY <2>1, <2>2, <2>3 DEF TypeOK, handler, promise, worker
<1>4. ASSUME NEW n \in Names, Vanish(n) PROVE TypeOK'
  <2>1. live' \in [Names -> Namespace] /\ watch' \in Seq(Event)
    BY <1>4, EnvironmentWrites, WritesType
  <2>2. configMap' \in [Projects -> BOOLEAN] /\ cmWatch' \subseteq Projects
    BY <1>4 DEF Vanish, TypeOK
  <2>3. UNCHANGED <<events, mishap, started, cache, cmCache, handler, tracker, promise, worker>>
    BY <1>4 DEF Vanish
  <2> QED BY <2>1, <2>2, <2>3 DEF TypeOK, Event, handler, promise, worker
<1> QED BY <1>1, <1>2, <1>3, <1>4 DEF Environment

\* The steps of the start-up and of the informers preserve the type invariant.
LEMMA InformersType ==
    TypeOK /\ (StartCaches \/ Deliver \/ Resync \/ \E p \in Projects : DeliverConfigMap(p)) => TypeOK'
<1> USE NamespaceTypes
<1>1. ASSUME TypeOK, StartCaches PROVE TypeOK'
  <2>1. <<>> \in Seq(Event) /\ Existing(live) \subseteq Names
    BY EmptySeq DEF Existing
  <2> QED BY <1>1, <2>1 DEF StartCaches, TypeOK, Event, cluster, promise, worker
<1>2. ASSUME TypeOK, Deliver PROVE TypeOK'
  <2>1. watch \in Seq(Event) /\ watch # <<>>
    BY <1>2 DEF TypeOK, Deliver, Event
  <2>2. Head(watch) \in Event /\ Tail(watch) \in Seq(Event)
    BY <2>1, HeadTailProperties
  <2>3. Head(watch).name \in Names /\ Head(watch).obj \in Namespace
    BY <2>2 DEF Event
  <2>4. cache' \in [Names -> Namespace] /\ watch' \in Seq(Event) /\ queue' \subseteq Names
    BY <1>2, <2>2, <2>3 DEF Deliver, TypeOK
  <2>6. UNCHANGED <<live, configMap, events, mishap>>
    BY <1>2 DEF Deliver, cluster
  <2>7. UNCHANGED <<started, cmCache, cmWatch, starting, untracking, tracker, promise, worker>>
    BY <1>2 DEF Deliver
  <2> QED BY <1>2, <2>4, <2>6, <2>7 DEF TypeOK, Event, promise, worker
<1>3. ASSUME TypeOK, Resync PROVE TypeOK'
  BY <1>3 DEF Resync, Existing, TypeOK, cluster, informer, promise, worker
<1>4. ASSUME TypeOK, NEW p \in Projects, DeliverConfigMap(p) PROVE TypeOK'
  BY <1>4 DEF DeliverConfigMap, TypeOK, cluster, promise, worker
<1> QED BY <1>1, <1>2, <1>3, <1>4

\* A restart, after which the type invariant holds again.
LEMMA RestartType ==
    ASSUME TypeOK, Restart, events' \in 0..MaxEvents, mishap' \in BOOLEAN PROVE TypeOK'
<1>1. <<>> \in Seq(Event) /\ Existing(live) \subseteq Names
  BY EmptySeq DEF Existing
<1>2. started' = FALSE /\ cache' = live /\ watch' = <<>> /\ UNCHANGED <<live, configMap>>
      /\ cmCache' = Nowhere(FALSE) /\ cmWatch' = {}
      /\ starting' = Existing(live) /\ queue' = {} /\ untracking' = {}
  BY DEF Restart
<1>3. tracker' = Nowhere(Untracked) /\ owed' = {} /\ running' = {} /\ retrying' = {}
      /\ step' = Nowhere("idle") /\ orphaned' = Nowhere(FALSE) /\ found' = Nowhere(Absent)
  BY DEF Restart
<1> QED BY <1>1, <1>2, <1>3, NamespaceTypes DEF TypeOK, Event, Nowhere, Steps, Absent

\* The calls of the handler preserve the type invariant.
LEMMA HandlerType ==
    TypeOK /\ ((\E n \in Names : Handler(n)) \/ \E p \in Projects : Registration(p)) => TypeOK'
<1> USE NamespaceTypes
<1>0. TypeOK => live \in [Names -> Namespace] /\ cache \in [Names -> Namespace]
  BY DEF TypeOK
<1>1. ASSUME TypeOK, NEW n \in Names, IgnoreNamespace(n) PROVE TypeOK'
  BY <1>1 DEF IgnoreNamespace, Returns, TypeOK, cluster, informer, promise, worker
<1>2. ASSUME TypeOK, NEW n \in Names, LeavesProjects(n) PROVE TypeOK'
  <2>1. live' \in [Names -> Namespace] /\ watch' \in Seq(Event)
    BY <1>2, HandlerWrites, WritesType
  <2>2. starting' \subseteq Names /\ queue' \subseteq Names
    BY <1>2 DEF LeavesProjects, Returns, TypeOK
  <2>3. UNCHANGED <<configMap, events, mishap, started, cache, cmCache, cmWatch, untracking,
                    tracker, promise, worker>>
    BY <1>2 DEF LeavesProjects
  <2> QED BY <1>2, <2>1, <2>2, <2>3 DEF TypeOK, Event, promise, worker
<1>3. ASSUME TypeOK, NEW n \in Names, ProjectNamespaceChanged(n) PROVE TypeOK'
  <2> DEFINE p == cache[n].proj
  <2>0. p \in Projects
    BY <1>3 DEF ProjectNamespaceChanged
  <2>1. live' \in [Names -> Namespace] /\ watch' \in Seq(Event)
    BY <1>3, HandlerWrites, WritesType
  <2>2. starting' \subseteq Names /\ queue' \subseteq Names
    BY <1>3 DEF ProjectNamespaceChanged, Returns, TypeOK
  <2>3. owed' \subseteq Projects /\ UNCHANGED <<running, retrying>>
    <3>1. CASE Promise!Request(p)
      BY <1>3, <2>0, <3>1 DEF Promise!Request, TypeOK
    <3>2. CASE UNCHANGED promise
      BY <1>3, <3>2 DEF promise, TypeOK
    <3> QED BY <1>3, <3>1, <3>2 DEF ProjectNamespaceChanged
  <2>4. events' \in 0..MaxEvents /\ mishap' \in BOOLEAN
    <3>1. CASE UNCHANGED <<events, mishap>>
      BY <1>3, <3>1 DEF TypeOK
    <3>2. CASE Mishap
      BY <1>3, <3>2, HappensType DEF Mishap
    <3> QED BY <1>3, <3>1, <3>2 DEF ProjectNamespaceChanged
  <2>5. UNCHANGED <<configMap, started, cache, cmCache, cmWatch, untracking, tracker, worker>>
    BY <1>3 DEF ProjectNamespaceChanged
  <2> QED BY <1>3, <2>1, <2>2, <2>3, <2>4, <2>5 DEF TypeOK, Event, worker
<1>4. ASSUME TypeOK, NEW p \in Projects, RegistrationChanged(p) PROVE TypeOK'
  <2>1. InProject(tracker[p]) \subseteq Names
    BY DEF InProject
  <2>2. starting' \subseteq Names /\ queue' \subseteq Names /\ untracking' \subseteq Projects
    BY <1>4, <2>1 DEF RegistrationChanged, Returns, TypeOK
  <2> QED BY <1>4, <2>2 DEF RegistrationChanged, TypeOK, cluster, informer, promise, worker
<1>5. ASSUME TypeOK, NEW p \in Projects, Untrack(p) PROVE TypeOK'
  BY <1>5 DEF Untrack, TypeOK, cluster, informer, promise, worker
<1> QED BY <1>1, <1>2, <1>3, <1>4, <1>5 DEF Handler, Registration

\* What TypeOK says of the applications of a project, and of all else.
WorkersOK ==
    /\ running \subseteq Projects
    /\ step \in [Projects -> Steps]
    /\ orphaned \in [Projects -> BOOLEAN]
    /\ found \in [Projects -> Namespace]
    /\ running = {p \in Projects : step[p] # "idle"}
    /\ \A p \in Projects : /\ step[p] = "track" <=> found[p].phase # "absent"
                           /\ orphaned[p] => step[p] = "apply"

\* An application goes on to step s, having read f and counted o.
LEMMA WorkerType ==
    ASSUME TypeOK, NEW p \in Projects, NEW s \in Steps, NEW o \in BOOLEAN, NEW f \in Namespace,
           step' = [step EXCEPT ![p] = s],
           orphaned' = [orphaned EXCEPT ![p] = o],
           found' = [found EXCEPT ![p] = f],
           running' = IF s = "idle" THEN running \ {p} ELSE running \cup {p},
           s = "track" <=> f.phase # "absent",
           o => s = "apply"
    PROVE  WorkersOK'
<1>1. /\ step \in [Projects -> Steps] /\ orphaned \in [Projects -> BOOLEAN]
      /\ found \in [Projects -> Namespace] /\ running = {q \in Projects : step[q] # "idle"}
  BY DEF TypeOK
<1>2. /\ step' \in [Projects -> Steps] /\ orphaned' \in [Projects -> BOOLEAN]
      /\ found' \in [Projects -> Namespace]
  BY <1>1
<1>3. running' \subseteq Projects /\ running' = {q \in Projects : step'[q] # "idle"}
  BY <1>1
<1>4. ASSUME NEW q \in Projects
      PROVE  /\ step'[q] = "track" <=> found'[q].phase # "absent"
             /\ orphaned'[q] => step'[q] = "apply"
  <2>1. CASE q = p
    BY <1>1, <2>1
  <2>2. CASE q # p
    <3>1. step'[q] = step[q] /\ found'[q] = found[q] /\ orphaned'[q] = orphaned[q]
      BY <1>1, <2>2
    <3> QED BY <3>1 DEF TypeOK
  <2> QED BY <2>1, <2>2
<1> QED BY <1>2, <1>3, <1>4 DEF WorkersOK

\* What an apply writes is a namespace.
LEMMA PatchedType ==
    ASSUME TypeOK, NEW p \in Projects PROVE Patched(p) \in Namespace /\ Desired(p) \in Namespace
<1>1. live[p] \in Namespace /\ orphaned[p] \in BOOLEAN
  BY NamespaceTypes DEF TypeOK
<1>2. Desired(p) \in Namespace
  BY <1>1, NamespaceTypes DEF Desired, Namespace, Phases
<1>3. \A new \in Namespace : \A a, b, c \in BOOLEAN :
        [live[p] EXCEPT !.proj = IF a THEN @ ELSE new.proj,
                        !.id = IF b THEN @ ELSE new.id,
                        !.orphaned = IF c THEN @ ELSE new.orphaned] \in Namespace
  BY <1>1 DEF Namespace
<1> QED BY <1>2, <1>3 DEF Patched

\* An apply writes the registration namespace, or nothing.
LEMMA ApplyWrites ==
    ASSUME TypeOK, NEW p \in Projects, ApplyNamespace(p) PROVE Writes(p)
<1>1. Write(p, Desired(p)) \/ Write(p, Patched(p)) \/ UNCHANGED <<live, watch>>
  BY DEF ApplyNamespace
<1> QED BY <1>1, PatchedType DEF Writes

\* The steps of an application preserve the type invariant.
LEMMA ApplicationType ==
    TypeOK /\ (\E p \in Projects : Application(p) \/ BackoffEnds(p)) => TypeOK'
<1> USE NamespaceTypes
<1> SUFFICES ASSUME TypeOK, NEW p \in Projects, Application(p) \/ BackoffEnds(p) PROVE TypeOK'
  OBVIOUS
<1>0. /\ live \in [Names -> Namespace] /\ cache \in [Names -> Namespace]
      /\ step \in [Projects -> Steps] /\ orphaned \in [Projects -> BOOLEAN]
      /\ found \in [Projects -> Namespace] /\ running = {q \in Projects : step[q] # "idle"}
      /\ step[p] = "track" <=> found[p].phase # "absent"
      /\ orphaned[p] => step[p] = "apply"
  BY DEF TypeOK
<1>a. /\ found = [found EXCEPT ![p] = found[p]]
      /\ orphaned = [orphaned EXCEPT ![p] = orphaned[p]]
      /\ found[p] \in Namespace
  BY <1>0
<1>b. ASSUME WorkersOK', owed' \subseteq Projects, retrying' \subseteq Projects,
             events' \in 0..MaxEvents, mishap' \in BOOLEAN,
             live' \in [Names -> Namespace], watch' \in Seq(Event),
             configMap' \in [Projects -> BOOLEAN], cmWatch' \subseteq Projects,
             tracker' \in [Projects -> Labels \cup {Untracked}],
             UNCHANGED <<started, cache, cmCache, starting, queue, untracking>>
      PROVE  TypeOK'
  BY <1>b DEF TypeOK, WorkersOK, Event
<1>c. /\ owed \subseteq Projects /\ retrying \subseteq Projects
      /\ events \in 0..MaxEvents /\ mishap \in BOOLEAN
      /\ watch \in Seq(Event)
      /\ configMap \in [Projects -> BOOLEAN] /\ cmWatch \subseteq Projects
      /\ tracker \in [Projects -> Labels \cup {Untracked}]
  BY DEF TypeOK, Event
<1>1. CASE CountNamespaces(p)
  <2>1. owed' \subseteq Projects /\ running' = running \cup {p} /\ retrying' = retrying /\ p \notin running
    BY <1>1, <1>c DEF CountNamespaces, Promise!Start
  <2>2. UNCHANGED <<cluster, informer, handler, tracker, found>>
    BY <1>1 DEF CountNamespaces
  <2>3. step' = [step EXCEPT ![p] = "apply"]
    BY <1>1 DEF CountNamespaces
  <2>4. PICK b \in BOOLEAN : orphaned' = [orphaned EXCEPT ![p] = b]
    BY <1>1 DEF CountNamespaces
  <2>5. found' = [found EXCEPT ![p] = found[p]] /\ found[p].phase = "absent"
    BY <1>0, <1>a, <2>1, <2>2
  <2>6. WorkersOK'
    BY <1>a, <2>1, <2>3, <2>4, <2>5, WorkerType DEF Steps
  <2> QED BY <1>0, <1>b, <1>c, <2>1, <2>2, <2>6 DEF cluster, informer, handler
<1>2. CASE ApplyNamespace(p)
  <2>1. live' \in [Names -> Namespace] /\ watch' \in Seq(Event)
    BY <1>2, ApplyWrites, WritesType
  <2>2. UNCHANGED <<configMap, events, mishap, started, cache, cmCache, cmWatch, handler,
                    tracker, promise, found>>
    BY <1>2 DEF ApplyNamespace
  <2>3. step[p] = "apply" /\ step' = [step EXCEPT ![p] = "get"]
        /\ orphaned' = [orphaned EXCEPT ![p] = FALSE]
    BY <1>2 DEF ApplyNamespace
  <2>4. running' = running \cup {p}
    BY <1>0, <2>2, <2>3 DEF promise
  <2>5. found' = [found EXCEPT ![p] = found[p]] /\ found[p].phase = "absent"
    BY <1>0, <1>a, <2>2, <2>3
  <2>6. WorkersOK'
    BY <1>a, <2>3, <2>4, <2>5, WorkerType DEF Steps
  <2> QED BY <1>b, <1>c, <2>1, <2>2, <2>6 DEF handler, promise
<1>3. CASE GetNamespace(p)
  <2>1. UNCHANGED <<cluster, informer, handler, tracker, promise, orphaned>>
    BY <1>3 DEF GetNamespace
  <2>2. step[p] = "get" /\ step' = [step EXCEPT ![p] = "track"]
        /\ found' = [found EXCEPT ![p] = live[p]] /\ live[p].phase # "absent"
    BY <1>3 DEF GetNamespace
  <2>3. running' = running \cup {p}
    BY <1>0, <2>1, <2>2 DEF promise
  <2>4. orphaned' = [orphaned EXCEPT ![p] = FALSE] /\ live[p] \in Namespace
    BY <1>0, <1>a, <2>1, <2>2
  <2>5. WorkersOK'
    BY <2>2, <2>3, <2>4, WorkerType DEF Steps
  <2> QED BY <1>0, <1>b, <1>c, <2>1, <2>5 DEF cluster, informer, handler, promise
<1>4. CASE Track(p)
  <2>1. UNCHANGED <<cluster, informer, handler, promise, orphaned>>
    BY <1>4 DEF Track
  <2>2. PICK s \in {"finish", "configMap"} : step' = [step EXCEPT ![p] = s]
    BY <1>4 DEF Track
  <2>3. step[p] = "track" /\ found' = [found EXCEPT ![p] = Absent]
        /\ tracker' = [tracker EXCEPT ![p] = found[p].proj]
    BY <1>4 DEF Track
  <2>4. running' = running \cup {p}
    BY <1>0, <2>1, <2>3 DEF promise
  <2>5. orphaned' = [orphaned EXCEPT ![p] = FALSE] /\ Absent.phase = "absent"
    BY <1>0, <1>a, <2>1, <2>3 DEF Absent
  <2>6. WorkersOK'
    BY <2>2, <2>3, <2>4, <2>5, WorkerType DEF Steps
  <2>7. found[p].proj \in Labels
    BY <1>a DEF Namespace
  <2>8. tracker' \in [Projects -> Labels \cup {Untracked}]
    BY <1>c, <2>3, <2>7
  <2> QED BY <1>0, <1>b, <1>c, <2>1, <2>6, <2>8 DEF cluster, informer, handler, promise
<1>5. CASE ApplyConfigMap(p)
  <2>1. UNCHANGED <<live, events, mishap, started, cache, watch, cmCache, handler, tracker,
                    promise, orphaned, found>>
    BY <1>5 DEF ApplyConfigMap
  <2>2. step[p] = "configMap" /\ step' = [step EXCEPT ![p] = "finish"]
    BY <1>5 DEF ApplyConfigMap
  <2>3. configMap' \in [Projects -> BOOLEAN] /\ cmWatch' \subseteq Projects
    BY <1>5, <1>c DEF ApplyConfigMap
  <2>4. running' = running \cup {p}
    BY <1>0, <2>1, <2>2 DEF promise
  <2>5. orphaned' = [orphaned EXCEPT ![p] = FALSE] /\ found' = [found EXCEPT ![p] = found[p]]
        /\ found[p].phase = "absent"
    BY <1>0, <1>a, <2>1, <2>2
  <2>6. WorkersOK'
    BY <1>a, <2>2, <2>4, <2>5, WorkerType DEF Steps
  <2> QED BY <1>0, <1>b, <1>c, <2>1, <2>3, <2>6 DEF handler, promise
<1>6. CASE ApplyFails(p)
  <2>1. UNCHANGED <<live, configMap, informer, handler, tracker, found>>
    BY <1>6 DEF ApplyFails
  <2>2. retrying' = retrying \cup {p} /\ UNCHANGED <<owed, running>>
    BY <1>6 DEF ApplyFails, Promise!Fail
  <2>3. step[p] \in {"apply", "get", "configMap"}
    BY <1>6 DEF ApplyFails
  <2>4. step' = [step EXCEPT ![p] = "finish"] /\ orphaned' = [orphaned EXCEPT ![p] = FALSE]
    BY <1>6 DEF ApplyFails
  <2>5. events' \in 0..MaxEvents /\ mishap' \in BOOLEAN
    <3>1. CASE UNCHANGED <<events, mishap>>
      BY <1>c, <3>1
    <3>2. CASE Happens /\ UNCHANGED mishap
      BY <1>c, <3>2, HappensType
    <3> QED BY <1>6, <3>1, <3>2 DEF ApplyFails
  <2>6. running' = running \cup {p}
    BY <1>0, <2>2, <2>3
  <2>7. found' = [found EXCEPT ![p] = found[p]] /\ found[p].phase = "absent"
    BY <1>0, <1>a, <2>1, <2>3
  <2>8. WorkersOK'
    BY <1>a, <2>4, <2>6, <2>7, WorkerType DEF Steps
  <2> QED BY <1>0, <1>b, <1>c, <2>1, <2>2, <2>5, <2>8 DEF informer, handler
<1>7. CASE Finish(p)
  <2>1. UNCHANGED <<cluster, informer, handler, tracker, orphaned, found>>
    BY <1>7 DEF Finish
  <2>2. running' = running \ {p} /\ UNCHANGED <<owed, retrying>>
    BY <1>7 DEF Finish, Promise!Finish
  <2>3. step[p] = "finish" /\ step' = [step EXCEPT ![p] = "idle"]
    BY <1>7 DEF Finish
  <2>4. orphaned' = [orphaned EXCEPT ![p] = FALSE] /\ found' = [found EXCEPT ![p] = found[p]]
        /\ found[p].phase = "absent"
    BY <1>0, <1>a, <2>1, <2>3
  <2>5. WorkersOK'
    BY <1>a, <2>2, <2>3, <2>4, WorkerType DEF Steps
  <2> QED BY <1>0, <1>b, <1>c, <2>1, <2>2, <2>5 DEF cluster, informer, handler
<1>8. CASE BackoffEnds(p)
  <2>1. UNCHANGED <<cluster, informer, handler, tracker, worker>>
    BY <1>8 DEF BackoffEnds
  <2>2. owed' = owed \cup {p} /\ retrying' = retrying \ {p} /\ UNCHANGED running
    BY <1>8 DEF BackoffEnds, Promise!Retry
  <2> QED BY <2>1, <2>2 DEF TypeOK, cluster, informer, handler, worker
<1> QED BY <1>1, <1>2, <1>3, <1>4, <1>5, <1>6, <1>7, <1>8 DEF Application

\* No step that is not taken breaks a type.
LEMMA StutterType == TypeOK /\ UNCHANGED vars => TypeOK'
  BY DEF TypeOK, vars, cluster, informer, handler, promise, worker

\* The start has the types.
LEMMA InitType == Init => TypeOK
<1> SUFFICES ASSUME Init PROVE TypeOK
  OBVIOUS
<1>1. live \in [Names -> Namespace]
  BY NamespaceTypes DEF Init, Namespace, Phases
<1>2. configMap \in [Projects -> BOOLEAN] /\ events \in 0..MaxEvents
  BY BoundsAssumption DEF Init
<1>3. watch \in Seq(Event) /\ Existing(live) \subseteq Names
  BY EmptySeq DEF Init, Existing
<1>4. owed = {} /\ running = {} /\ retrying = {}
  BY DEF Init, Promise!Init
<1>5. step = Nowhere("idle") /\ orphaned = Nowhere(FALSE) /\ found = Nowhere(Absent)
  BY DEF Init
<1>6. WorkersOK
  BY <1>4, <1>5, NamespaceTypes DEF WorkersOK, Nowhere, Steps, Absent
<1>7. /\ cache = live /\ cmCache = Nowhere(FALSE) /\ cmWatch = {} /\ tracker = Nowhere(Untracked)
      /\ starting = Existing(live) /\ queue = {} /\ untracking = {}
      /\ started = FALSE /\ mishap = FALSE
  BY DEF Init
<1> QED BY <1>1, <1>2, <1>3, <1>4, <1>6, <1>7 DEF TypeOK, WorkersOK, Event, Nowhere

\* Every step preserves the type invariant.
LEMMA StepType == TypeOK /\ [Next]_vars => TypeOK'
<1> SUFFICES ASSUME TypeOK, [Next]_vars PROVE TypeOK'
  OBVIOUS
<1>1. CASE StartFails
  BY <1>1, RestartType DEF StartFails, TypeOK
<1>2. CASE Crash
  <2>1. events' \in 0..MaxEvents /\ mishap' \in BOOLEAN /\ Restart
    BY <1>2, HappensType DEF Crash, TypeOK
  <2> QED BY <2>1, RestartType
<1>3. CASE Environment
  BY <1>3, EnvironmentType
<1>4. CASE Controller /\ ~StartFails
  BY <1>4, InformersType, HandlerType DEF Controller
<1>5. CASE \E p \in Projects : Application(p) \/ BackoffEnds(p)
  BY <1>5, ApplicationType
<1>6. CASE UNCHANGED vars
  BY <1>6, StutterType
<1> QED BY <1>1, <1>2, <1>3, <1>4, <1>5, <1>6 DEF Next, Operator

\* NamespaceController keeps its types (namespace/controller.go, the tracker and the
\* Applyinator's applications of a project included).
THEOREM TypeCorrect == Safe => []TypeOK
  BY InitType, StepType, PTL DEF Safe

-----------------------------------------------------------------------------
(* The project ID label *)

\* The last event of its namespace that is on its way.
Newest(i) == \A j \in DOMAIN watch : watch[j].name = watch[i].name => j <= i

\* A namespace that no event is on its way of is cached as it is; the last event
\* of another one carries it as it is.
Informed ==
    /\ \A n \in Names : Stale(n) \/ cache[n] = live[n]
    /\ \A i \in DOMAIN watch : Newest(i) => watch[i].obj = live[watch[i].name]

\* A namespace whose label is not the one of its project is one that the handler
\* will be called with.
LabelOwed ==
    started /\ ~mishap => \A n \in Namespaces :
       live[n].phase = "active" /\ live[n].proj # System
       => live[n].id = live[n].proj \/ Stale(n) \/ n \in queue

\* What Write does to what is on its way.
LEMMA WriteStale ==
    ASSUME TypeOK, NEW n \in Names, NEW obj \in Namespace, Write(n, obj)
    PROVE  /\ live'[n] = obj /\ (obj = live[n] \/ Stale(n)')
           /\ \A m \in Names : Stale(m) => Stale(m)'
           /\ \A m \in Names \ {n} : live'[m] = live[m] /\ (Stale(m)' => Stale(m))
<1>0. live \in [Names -> Namespace] /\ watch \in Seq(Event)
  BY DEF TypeOK, Event
<1>1. live'[n] = obj /\ \A m \in Names \ {n} : live'[m] = live[m]
  BY <1>0 DEF Write
<1>2. CASE obj = live[n]
  BY <1>1, <1>2 DEF Write, Stale
<1>3. CASE obj # live[n]
  <2> DEFINE e == [name |-> n, obj |-> obj]
  <2>1. watch' = Append(watch, e) /\ e \in Event
    BY <1>3 DEF Write, Event
  <2>2. /\ Len(watch) \in Nat /\ DOMAIN watch = 1..Len(watch)
        /\ watch' \in Seq(Event) /\ Len(watch') = Len(watch) + 1
        /\ \A i \in 1..Len(watch) : watch'[i] = watch[i]
        /\ watch'[Len(watch) + 1] = e
    BY <1>0, <2>1, AppendProperties, LenProperties
  <2>3. DOMAIN watch' = 1..(Len(watch) + 1)
    BY <2>2, LenProperties
  <2>4. Stale(n)' /\ \A m \in Names : Stale(m) => Stale(m)'
    BY <2>2, <2>3 DEF Stale
  <2>5. \A m \in Names \ {n} : Stale(m)' => Stale(m)
    BY <2>2, <2>3 DEF Stale
  <2> QED BY <1>1, <2>4, <2>5
<1> QED BY <1>2, <1>3

\* Write tells the informer.
LEMMA WriteInforms ==
    ASSUME TypeOK, Informed, NEW n \in Names, NEW obj \in Namespace, Write(n, obj), UNCHANGED cache
    PROVE  Informed'
<1>0. live \in [Names -> Namespace] /\ watch \in Seq(Event)
  BY DEF TypeOK, Event
<1>1. ASSUME NEW m \in Names PROVE Stale(m)' \/ cache'[m] = live'[m]
  BY <1>1, WriteStale DEF Informed
<1>2. ASSUME NEW i \in DOMAIN watch', Newest(i)' PROVE watch'[i].obj = live'[watch'[i].name]
  <2>1. CASE obj = live[n]
    <3>1. UNCHANGED <<live, watch>>
      BY <1>0, <2>1 DEF Write
    <3> QED BY <1>2, <3>1 DEF Informed, Newest
  <2>2. CASE obj # live[n]
    <3> DEFINE e == [name |-> n, obj |-> obj]
    <3>1. watch' = Append(watch, e) /\ e \in Event
      BY <2>2 DEF Write, Event
    <3>2. /\ Len(watch) \in Nat /\ DOMAIN watch = 1..Len(watch)
          /\ watch' \in Seq(Event) /\ Len(watch') = Len(watch) + 1
          /\ \A j \in 1..Len(watch) : watch'[j] = watch[j] /\ watch[j] \in Event
          /\ watch'[Len(watch) + 1] = e
      BY <1>0, <3>1, AppendProperties, LenProperties, ElementOfSeq
    <3>3. DOMAIN watch' = 1..(Len(watch) + 1)
      BY <3>2, LenProperties
    <3>4. CASE i = Len(watch) + 1
      BY <3>2, <3>4, WriteStale
    <3>5. CASE i \in DOMAIN watch
      <4>1. watch'[i] = watch[i] /\ watch[i].name \in Names
        BY <3>2, <3>5 DEF Event
      <4>2. watch[i].name # n
        BY <1>2, <3>2, <3>3, <3>5, <4>1 DEF Newest
      <4>3. Newest(i)
        BY <1>2, <3>2, <3>3, <3>5, <4>1 DEF Newest
      <4>4. live'[watch[i].name] = live[watch[i].name]
        BY <4>1, <4>2, WriteStale
      <4> QED BY <3>5, <4>1, <4>3, <4>4 DEF Informed
    <3> QED BY <1>2, <3>2, <3>3, <3>4, <3>5
  <2> QED BY <2>1, <2>2
<1> QED BY <1>1, <1>2 DEF Informed

\* An event that is no longer on its way has its namespace queued.
LEMMA DeliverStale ==
    ASSUME TypeOK, Deliver
    PROVE  /\ \A m \in Names : Stale(m) => Stale(m)' \/ m \in queue'
           /\ \A m \in Names : Stale(m)' => Stale(m)
<1>1. /\ watch \in Seq(Event) /\ watch # <<>>
      /\ watch' = Tail(watch) /\ queue' = queue \cup {Head(watch).name}
  BY DEF TypeOK, Event, Deliver
<1>2. /\ DOMAIN watch = 1..Len(watch) /\ Len(watch) \in Nat /\ Head(watch) = watch[1]
      /\ watch' \in Seq(Event) /\ Len(watch') = Len(watch) - 1
      /\ \A i \in 1..Len(watch') : watch'[i] = watch[i + 1]
  BY <1>1, HeadTailProperties, LenProperties
<1>3. DOMAIN watch' = 1..(Len(watch) - 1)
  BY <1>2, LenProperties
<1>4. ASSUME NEW m \in Names, Stale(m) PROVE Stale(m)' \/ m \in queue'
  <2>1. PICK i \in DOMAIN watch : watch[i].name = m
    BY <1>4 DEF Stale
  <2>2. CASE i = 1
    BY <1>1, <1>2, <2>1, <2>2
  <2>3. CASE i # 1
    <3>1. i - 1 \in DOMAIN watch' /\ watch'[i - 1] = watch[i]
      BY <1>2, <1>3, <2>1, <2>3
    <3> QED BY <2>1, <3>1 DEF Stale
  <2> QED BY <2>2, <2>3
<1>5. ASSUME NEW m \in Names, Stale(m)' PROVE Stale(m)
  <2>1. PICK i \in DOMAIN watch' : watch'[i].name = m
    BY <1>5 DEF Stale
  <2>2. i + 1 \in DOMAIN watch /\ watch'[i] = watch[i + 1]
    BY <1>2, <1>3, <2>1
  <2> QED BY <2>1, <2>2 DEF Stale
<1> QED BY <1>4, <1>5

\* So does the delivery of an event.
LEMMA DeliverInforms == TypeOK /\ Informed /\ Deliver => Informed'
<1> SUFFICES ASSUME TypeOK, Informed, Deliver PROVE Informed'
  OBVIOUS
<1>0. watch \in Seq(Event) /\ watch # <<>> /\ cache \in [Names -> Namespace]
  BY DEF TypeOK, Event, Deliver
<1>1. /\ watch' = Tail(watch) /\ UNCHANGED live
      /\ cache' = [cache EXCEPT ![Head(watch).name] = Head(watch).obj]
  BY DEF Deliver, cluster
<1>2. /\ Len(watch) \in Nat /\ Len(watch) > 0 /\ DOMAIN watch = 1..Len(watch)
      /\ watch' \in Seq(Event) /\ Len(watch') = Len(watch) - 1
      /\ \A i \in 1..Len(watch') : watch'[i] = watch[i + 1]
      /\ Head(watch) = watch[1] /\ watch[1] \in Event
  BY <1>0, <1>1, HeadTailProperties, LenProperties, EmptySeq, ElementOfSeq
<1>3. DOMAIN watch' = 1..(Len(watch) - 1)
  BY <1>2, LenProperties
<1>4. ASSUME NEW i \in DOMAIN watch', Newest(i)' PROVE watch'[i].obj = live'[watch'[i].name]
  <2>1. i + 1 \in DOMAIN watch /\ watch'[i] = watch[i + 1] /\ i \in Nat
    BY <1>2, <1>3
  <2>2. ASSUME NEW j \in DOMAIN watch, watch[j].name = watch[i + 1].name PROVE j <= i + 1
    <3>1. CASE j = 1
      BY <2>1, <3>1
    <3>2. CASE j # 1
      <4>1. j - 1 \in DOMAIN watch' /\ watch'[j - 1] = watch[j]
        BY <1>2, <1>3, <3>2
      <4>2. j - 1 <= i
        BY <1>4, <2>1, <2>2, <4>1 DEF Newest
      <4> QED BY <1>2, <2>1, <4>2
    <3> QED BY <3>1, <3>2
  <2>3. Newest(i + 1)
    BY <2>2 DEF Newest
  <2> QED BY <1>1, <2>1, <2>3 DEF Informed
<1>5. ASSUME NEW n \in Names, ~Stale(n)' PROVE cache'[n] = live'[n]
  <2>1. \A j \in DOMAIN watch : j # 1 => watch[j].name # n
    <3> SUFFICES ASSUME NEW j \in DOMAIN watch, j # 1, watch[j].name = n PROVE FALSE
      OBVIOUS
    <3>1. j - 1 \in DOMAIN watch' /\ watch'[j - 1] = watch[j]
      BY <1>2, <1>3
    <3> QED BY <1>5, <3>1 DEF Stale
  <2>2. CASE watch[1].name = n
    <3>1. Newest(1)
      BY <1>2, <2>1, <2>2 DEF Newest
    <3>2. watch[1].obj = live[n]
      BY <1>2, <2>2, <3>1 DEF Informed
    <3> QED BY <1>0, <1>1, <1>2, <2>2, <3>2
  <2>3. CASE watch[1].name # n
    <3>1. ~Stale(n)
      BY <1>2, <2>1, <2>3 DEF Stale
    <3> QED BY <1>0, <1>1, <1>2, <2>3, <3>1 DEF Informed
  <2> QED BY <2>2, <2>3
<1> QED BY <1>4, <1>5 DEF Informed

\* A step that writes, and takes nothing from the queue.
LEMMA WritesKeep ==
    ASSUME TypeOK, Informed, LabelOwed, NEW n \in Names, Writes(n),
           UNCHANGED <<cache, started>>, queue \subseteq queue', mishap => mishap'
    PROVE  Informed' /\ LabelOwed'
<1>1. CASE UNCHANGED <<live, watch>>
  BY <1>1 DEF Informed, Newest, LabelOwed, Stale
<1>2. CASE \E obj \in Namespace : Write(n, obj)
  <2>1. PICK obj \in Namespace : Write(n, obj)
    BY <1>2
  <2>2. Informed'
    BY <2>1, WriteInforms
  <2>3. LabelOwed'
    <3> SUFFICES ASSUME started', ~mishap', NEW m \in Namespaces,
                        live'[m].phase = "active", live'[m].proj # System
                 PROVE  live'[m].id = live'[m].proj \/ Stale(m)' \/ m \in queue'
      BY DEF LabelOwed
    <3>1. m \in Names /\ (live'[m] = live[m] \/ Stale(m)') /\ (Stale(m) => Stale(m)')
      BY <2>1, WriteStale, NamespaceTypes
    <3> QED BY <3>1 DEF LabelOwed
  <2> QED BY <2>2, <2>3
<1> QED BY <1>1, <1>2 DEF Writes

\* A call of the handler with n, which leaves n with its label as it is to be,
\* or to be called again.
LEMMA HandlerKeeps ==
    ASSUME TypeOK, Informed, LabelOwed, NEW n \in Names, Writes(n),
           UNCHANGED <<cache, started>>, queue \ {n} \subseteq queue', mishap => mishap',
           n \in Namespaces /\ ~mishap' /\ live'[n].phase = "active" /\ live'[n].proj # System
           => live'[n].id = live'[n].proj \/ Stale(n)'
    PROVE  Informed' /\ LabelOwed'
<1>1. Informed'
  <2>1. CASE UNCHANGED <<live, watch>>
    BY <2>1 DEF Informed, Newest, Stale
  <2>2. CASE \E obj \in Namespace : Write(n, obj)
    BY <2>2, WriteInforms
  <2> QED BY <2>1, <2>2 DEF Writes
<1>2. LabelOwed'
  <2> SUFFICES ASSUME started', ~mishap', NEW m \in Namespaces,
                      live'[m].phase = "active", live'[m].proj # System
               PROVE  live'[m].id = live'[m].proj \/ Stale(m)' \/ m \in queue'
    BY DEF LabelOwed
  <2>1. CASE m = n
    BY <2>1
  <2>2. CASE m # n
    <3>1. m \in Names /\ live'[m] = live[m] /\ (Stale(m) => Stale(m)')
      <4>1. CASE UNCHANGED <<live, watch>>
        BY <4>1, NamespaceTypes DEF Stale
      <4>2. CASE \E obj \in Namespace : Write(n, obj)
        BY <2>2, <4>2, WriteStale, NamespaceTypes
      <4> QED BY <4>1, <4>2 DEF Writes
    <3> QED BY <2>2, <3>1 DEF LabelOwed
  <2> QED BY <2>1, <2>2
<1> QED BY <1>1, <1>2

\* The inductive invariant of the project ID label.
LabelInv == TypeOK /\ Informed /\ LabelOwed

\* A step that leaves the namespaces alone, and takes nothing from the queue.
LEMMA OthersKeep ==
    ASSUME Informed, LabelOwed, UNCHANGED <<live, watch, cache, started>>, queue \subseteq queue',
           mishap => mishap'
    PROVE  Informed' /\ LabelOwed'
  BY DEF Informed, Newest, LabelOwed, Stale

\* What users do keeps the invariant.
LEMMA EnvironmentKeeps == LabelInv /\ Environment => Informed' /\ LabelOwed'
<1> SUFFICES ASSUME TypeOK, Informed, LabelOwed, Environment PROVE Informed' /\ LabelOwed'
  BY DEF LabelInv
<1> USE NamespaceTypes
<1>1. ASSUME NEW n \in Namespaces, UserChanges(n) PROVE Informed' /\ LabelOwed'
  <2>1. Writes(n)
    BY <1>1, EnvironmentWrites
  <2>2. UNCHANGED <<cache, started, queue, mishap>>
    BY <1>1 DEF UserChanges, handler
  <2> QED BY <2>1, <2>2, WritesKeep
<1>2. ASSUME NEW p \in Projects, UserDrifts(p) PROVE Informed' /\ LabelOwed'
  <2>1. Writes(p)
    BY <1>2, EnvironmentWrites
  <2>2. UNCHANGED <<cache, started, queue>> /\ (mishap => mishap')
    BY <1>2 DEF UserDrifts, Mishap, handler
  <2> QED BY <2>1, <2>2, WritesKeep
<1>3. ASSUME NEW p \in Projects, UserDeletesConfigMap(p) PROVE Informed' /\ LabelOwed'
  <2>1. UNCHANGED <<live, watch, cache, started, queue, mishap>>
    BY <1>3 DEF UserDeletesConfigMap, handler
  <2> QED BY <2>1, OthersKeep
<1>4. ASSUME NEW n \in Names, Vanish(n) PROVE Informed' /\ LabelOwed'
  <2>1. Writes(n)
    BY <1>4, EnvironmentWrites
  <2>2. UNCHANGED <<cache, started, queue, mishap>>
    BY <1>4 DEF Vanish, handler
  <2> QED BY <2>1, <2>2, WritesKeep
<1> QED BY <1>1, <1>2, <1>3, <1>4 DEF Environment

\* So do the informers: a namespace whose event is delivered is queued.
LEMMA InformersKeep ==
    LabelInv /\ (StartCaches \/ Deliver \/ Resync \/ \E p \in Projects : DeliverConfigMap(p))
    => Informed' /\ LabelOwed'
<1> SUFFICES ASSUME TypeOK, Informed, LabelOwed,
                    StartCaches \/ Deliver \/ Resync \/ \E p \in Projects : DeliverConfigMap(p)
             PROVE  Informed' /\ LabelOwed'
  BY DEF LabelInv
<1> USE NamespaceTypes
<1>1. CASE StartCaches
  <2>1. cache' = live /\ watch' = <<>> /\ UNCHANGED live /\ Existing(live) \subseteq queue'
    BY <1>1 DEF StartCaches, cluster
  <2>2. Informed'
    BY <2>1 DEF Informed
  <2>3. LabelOwed'
    BY <2>1 DEF LabelOwed, Existing
  <2> QED BY <2>2, <2>3
<1>2. CASE Deliver
  <2>1. Informed'
    BY <1>2, DeliverInforms
  <2>2. UNCHANGED <<live, mishap, started>> /\ queue \subseteq queue'
    BY <1>2 DEF Deliver, cluster
  <2>3. \A m \in Names : Stale(m) => Stale(m)' \/ m \in queue'
    BY <1>2, DeliverStale
  <2>4. LabelOwed'
    BY <2>2, <2>3 DEF LabelOwed
  <2> QED BY <2>1, <2>4
<1>3. CASE Resync
  BY <1>3, OthersKeep DEF Resync, cluster, informer
<1>4. ASSUME NEW p \in Projects, DeliverConfigMap(p) PROVE Informed' /\ LabelOwed'
  <2>1. UNCHANGED <<live, watch, cache, started, mishap>> /\ queue \subseteq queue'
    BY <1>4 DEF DeliverConfigMap, cluster
  <2> QED BY <2>1, OthersKeep
<1> QED BY <1>1, <1>2, <1>3, <1>4

\* So do the calls of the handler: what leaves the queue has its label, or an update
\* was refused because an event is on its way.
LEMMA HandlersKeep ==
    LabelInv /\ ((\E n \in Names : Handler(n)) \/ \E p \in Projects : Registration(p))
    => Informed' /\ LabelOwed'
<1> SUFFICES ASSUME TypeOK, Informed, LabelOwed,
                    (\E n \in Names : Handler(n)) \/ \E p \in Projects : Registration(p)
             PROVE  Informed' /\ LabelOwed'
  BY DEF LabelInv
<1> USE NamespaceTypes
<1>0. live \in [Names -> Namespace]
  BY DEF TypeOK
<1>1. ASSUME NEW n \in Names, IgnoreNamespace(n) PROVE Informed' /\ LabelOwed'
  <2>1. UNCHANGED <<live, watch, cache, started, mishap>> /\ queue \ {n} \subseteq queue'
    BY <1>1 DEF IgnoreNamespace, Returns, cluster, informer
  <2>2. cache[n].phase = "absent" \/ cache[n].proj = System
    BY <1>1 DEF IgnoreNamespace, IsSystem
  <2>3. Stale(n) \/ live[n] = cache[n]
    BY DEF Informed
  <2>4. Stale(n) => Stale(n)'
    BY <2>1 DEF Stale
  <2>5. Writes(n)
    BY <2>1 DEF Writes
  <2> QED BY <2>1, <2>2, <2>3, <2>4, <2>5, HandlerKeeps
<1>2. ASSUME NEW n \in Names, LeavesProjects(n) PROVE Informed' /\ LabelOwed'
  <2>1. Writes(n)
    BY <1>2, HandlerWrites
  <2>2. UNCHANGED <<cache, started, mishap>> /\ queue \ {n} \subseteq queue'
    BY <1>2 DEF LeavesProjects, Returns
  <2>3. CASE cache[n].phase = "active" /\ ~Stale(n)
    <3>1. live[n] = cache[n] /\ live[n].proj = NoProject
      BY <1>2, <2>3 DEF Informed, LeavesProjects
    <3>2. live' = [live EXCEPT ![n] = [live[n] EXCEPT !.id = NoProject]]
      BY <1>2, <2>3 DEF LeavesProjects, Write
    <3>3. live'[n].id = NoProject /\ live'[n].proj = NoProject
      BY <1>0, <3>1, <3>2 DEF Namespace
    <3> QED BY <2>1, <2>2, <3>3, HandlerKeeps
  <2>4. CASE ~(cache[n].phase = "active" /\ ~Stale(n))
    <3>1. UNCHANGED <<live, watch>>
      BY <1>2, <2>4 DEF LeavesProjects
    <3>2. Stale(n)' \/ live'[n].phase # "active"
      BY <2>4, <3>1 DEF Informed, Stale
    <3> QED BY <2>1, <2>2, <3>2, HandlerKeeps
  <2> QED BY <2>3, <2>4
<1>3. ASSUME NEW n \in Names, ProjectNamespaceChanged(n) PROVE Informed' /\ LabelOwed'
  <2> DEFINE p == cache[n].proj
  <2>1. Writes(n)
    BY <1>3, HandlerWrites
  <2>2. UNCHANGED <<cache, started>> /\ queue \ {n} \subseteq queue' /\ (mishap => mishap')
    BY <1>3 DEF ProjectNamespaceChanged, Returns, Mishap
  <2>3. CASE ~Stale(n) /\ Write(n, [live[n] EXCEPT !.id = p])
    <3>1. live[n].proj = p
      BY <2>3 DEF Informed
    <3>2. live'[n].id = p /\ live'[n].proj = p
      BY <1>0, <2>3, <3>1 DEF Write, Namespace
    <3> QED BY <2>1, <2>2, <3>2, HandlerKeeps
  <2>4. CASE cache[n].phase = "terminating" /\ UNCHANGED <<live, watch>>
    <3>1. Stale(n)' \/ live'[n].phase # "active"
      BY <2>4 DEF Informed, Stale
    <3> QED BY <2>1, <2>2, <3>1, HandlerKeeps
  <2>5. CASE (Stale(n) \/ Mishap) /\ UNCHANGED <<live, watch>>
    <3>1. Stale(n)' \/ mishap'
      BY <2>5 DEF Mishap, Stale
    <3> QED BY <2>1, <2>2, <3>1, HandlerKeeps
  <2> QED BY <1>3, <2>3, <2>4, <2>5 DEF ProjectNamespaceChanged
<1>4. ASSUME NEW p \in Projects, RegistrationChanged(p) PROVE Informed' /\ LabelOwed'
  <2>1. UNCHANGED <<live, watch, cache, started, mishap>> /\ queue \ {p} \subseteq queue'
    BY <1>4 DEF RegistrationChanged, Returns, cluster, informer
  <2>2. Writes(p)
    BY <2>1 DEF Writes
  <2> QED BY <2>1, <2>2, HandlerKeeps
<1>5. ASSUME NEW p \in Projects, Untrack(p) PROVE Informed' /\ LabelOwed'
  BY <1>5, OthersKeep DEF Untrack, cluster, informer
<1> QED BY <1>1, <1>2, <1>3, <1>4, <1>5 DEF Handler, Registration

\* So do the applications, which write registration namespaces only.
LEMMA ApplicationKeeps ==
    LabelInv /\ (\E p \in Projects : Application(p) \/ BackoffEnds(p)) => Informed' /\ LabelOwed'
<1> SUFFICES ASSUME TypeOK, Informed, LabelOwed, NEW p \in Projects, Application(p) \/ BackoffEnds(p)
             PROVE  Informed' /\ LabelOwed'
  BY DEF LabelInv
<1>1. CASE ApplyNamespace(p)
  <2>1. Writes(p)
    BY <1>1, ApplyWrites
  <2>2. UNCHANGED <<cache, started, queue, mishap>>
    BY <1>1 DEF ApplyNamespace, handler
  <2> QED BY <2>1, <2>2, WritesKeep, NamespaceTypes
<1>2. CASE ApplyFails(p)
  <2>1. UNCHANGED <<live, watch, cache, started, queue>> /\ (mishap => mishap')
    BY <1>2 DEF ApplyFails, informer, handler, Mishap
  <2> QED BY <2>1, OthersKeep
<1>3. CASE CountNamespaces(p) \/ GetNamespace(p) \/ Track(p) \/ ApplyConfigMap(p) \/ Finish(p)
           \/ BackoffEnds(p)
  <2>1. UNCHANGED <<live, watch, cache, started, queue, mishap>>
    BY <1>3 DEF CountNamespaces, GetNamespace, Track, ApplyConfigMap, Finish, BackoffEnds,
                cluster, informer, handler
  <2> QED BY <2>1, OthersKeep
<1> QED BY <1>1, <1>2, <1>3 DEF Application

\* At rest the project ID label follows (controller.go:138-216): nothing is stale or
\* queued that would have to be corrected.
THEOREM LabelKept == Safe => []LabelFollows
<1>1. Init => LabelInv
  <2>1. Init => TypeOK
    BY InitType
  <2>2. Init => Informed /\ LabelOwed
    BY DEF Init, Informed, LabelOwed
  <2> QED BY <2>1, <2>2 DEF LabelInv
<1>2. LabelInv /\ [Next]_vars => LabelInv'
  <2> SUFFICES ASSUME LabelInv, [Next]_vars PROVE LabelInv'
    OBVIOUS
  <2>1. TypeOK'
    BY StepType DEF LabelInv
  <2>2. Informed' /\ LabelOwed'
    <3>1. CASE StartFails \/ Crash
      <4>1. cache' = live /\ watch' = <<>> /\ UNCHANGED live /\ started' = FALSE
        BY <3>1 DEF StartFails, Crash, Restart
      <4> QED BY <4>1 DEF Informed, LabelOwed
    <3>2. CASE Environment
      BY <3>2, EnvironmentKeeps
    <3>3. CASE Controller /\ ~StartFails
      BY <3>3, InformersKeep, HandlersKeep DEF Controller
    <3>4. CASE \E p \in Projects : Application(p) \/ BackoffEnds(p)
      BY <3>4, ApplicationKeeps
    <3>5. CASE UNCHANGED vars
      BY <3>5, OthersKeep DEF LabelInv, vars, cluster, informer, handler
    <3> QED BY <3>1, <3>2, <3>3, <3>4, <3>5 DEF Next, Operator
  <2> QED BY <2>1, <2>2 DEF LabelInv
<1>3. LabelInv => LabelFollows
  BY NamespaceTypes DEF LabelInv, LabelOwed, LabelFollows, Quiet, Stale, IsTracked
<1> QED BY <1>1, <1>2, <1>3, PTL DEF Safe
=============================================================================
