--------------------- MODULE NamespaceRegistrationProofs ---------------------
(***************************************************************************)
(* NamespaceController, for all sets of projects and namespaces and any    *)
(* number of events: at rest no project in use is marked as orphaned, and  *)
(* its registration namespace is tracked and has its ConfigMap.            *)
(*                                                                         *)
(* The count of the namespaces, the patch of the registration namespace    *)
(* and the ConfigMap are all made from caches.  The argument is that a     *)
(* namespace that the handler is done with keeps its project in order:     *)
(* whatever goes wrong after that leaves an event of the registration      *)
(* namespace on its way, which enqueues the project's namespaces again.    *)
(***************************************************************************)
EXTENDS NamespaceControllerProofs

\* Only a user gives a registration namespace another project (a mishap), so that
\* it is tracked as the one of its own.
Marked ==
    ~mishap => \A p \in Projects :
       /\ live[p].phase # "absent" => live[p].proj = p
       /\ cache[p].phase # "absent" => cache[p].proj = p
       /\ found[p].phase # "absent" => found[p].proj = p
       /\ \A i \in DOMAIN watch :
             watch[i].name = p /\ watch[i].obj.phase # "absent" => watch[i].obj.proj = p
       /\ tracker[p] \in {p, Untracked}

\* The ConfigMap of p is cached as it is, unless an event of it is on its way.
ConfigMapInformed == started => \A p \in Projects : p \in cmWatch \/ cmCache[p] = configMap[p]

\* A registration namespace that is not tracked any more is not there any more, or
\* it is a new one, which the handler will be called with.
UntrackDue ==
    started => \A p \in untracking : live[p].phase # "active" \/ Stale(p) \/ p \in queue

\* What was read back as being deleted is not there again while it is tracked.
ReadBack ==
    \A p \in Projects :
       step[p] = "track" /\ found[p].phase = "terminating" => live[p].phase # "active"

\* The handler is done with namespace n of project p, as it is now.
Settled(n, p) == live[n].phase = "active" /\ live[n].proj = p /\ ~Stale(n) /\ n \notin queue

\* Project p will be applied again, or the handler will be called with its
\* registration namespace.
Asked(p) == p \in owed \cup retrying \/ Stale(p) \/ p \in queue

\* The registration namespace of p is in order, or the application that runs is
\* about to see to it.
Sound(p) ==
    /\ step[p] = "apply" \/ ~live[p].orphaned
    /\ tracker[p] = p \/ step[p] \in {"apply", "get", "track"}
    /\ configMap[p] \/ p \in cmWatch \/ step[p] \in {"apply", "get", "track", "configMap"}

\* One namespace that is settled keeps its project in order.
InOrder(n, p) ==
    Settled(n, p) =>
       /\ step[p] = "apply" /\ orphaned[p] => p \in owed \cup retrying
       /\ live[p].phase = "active" => Asked(p) \/ Sound(p)

Kept == started /\ ~mishap => \A p \in Projects, n \in Namespaces : InOrder(n, p)

\* The inductive invariant.
RegistrationInv ==
    TypeOK /\ Informed /\ Marked /\ ConfigMapInformed /\ UntrackDue /\ ReadBack /\ Kept

-----------------------------------------------------------------------------
(* Registration namespaces belong to their projects *)

\* A step that writes a registration namespace of the right project, or another one.
LEMMA WritesMarked ==
    ASSUME TypeOK, Marked, NEW n \in Names, Writes(n), UNCHANGED <<cache, found, tracker>>,
           mishap => mishap',
           n \in Projects /\ ~mishap' /\ live'[n].phase # "absent" => live'[n].proj = n
    PROVE  Marked'
<1>1. CASE UNCHANGED <<live, watch>>
  BY <1>1 DEF Marked
<1>2. CASE \E obj \in Namespace : Write(n, obj)
  <2>0. PICK obj \in Namespace : Write(n, obj)
    BY <1>2
  <2> SUFFICES ASSUME ~mishap', NEW p \in Projects
               PROVE  /\ live'[p].phase # "absent" => live'[p].proj = p
                      /\ \A i \in DOMAIN watch' :
                            watch'[i].name = p /\ watch'[i].obj.phase # "absent" => watch'[i].obj.proj = p
    BY DEF Marked
  <2>1. live'[p].phase # "absent" => live'[p].proj = p
    BY <2>0, WriteStale, NamespaceTypes DEF Marked
  <2>2. ASSUME NEW i \in DOMAIN watch', watch'[i].name = p, watch'[i].obj.phase # "absent"
        PROVE  watch'[i].obj.proj = p
    <3>1. CASE watch' = watch
      BY <2>2, <3>1 DEF Marked
    <3>2. CASE watch' = Append(watch, [name |-> n, obj |-> obj])
      <4> DEFINE e == [name |-> n, obj |-> obj]
      <4>1. watch \in Seq(Event) /\ e \in Event
        BY DEF TypeOK, Event
      <4>2. /\ Len(watch) \in Nat /\ DOMAIN watch = 1..Len(watch)
            /\ watch' \in Seq(Event) /\ Len(watch') = Len(watch) + 1
            /\ \A j \in 1..Len(watch) : watch'[j] = watch[j]
            /\ watch'[Len(watch) + 1] = e
        BY <3>2, <4>1, AppendProperties, LenProperties
      <4>3. DOMAIN watch' = 1..(Len(watch) + 1)
        BY <4>2, LenProperties
      <4>4. CASE i = Len(watch) + 1
        <5>1. n = p /\ obj = live'[p]
          BY <2>0, <2>2, <4>2, <4>4, WriteStale
        <5> QED BY <2>1, <2>2, <4>2, <4>4, <5>1
      <4>5. CASE i \in DOMAIN watch
        BY <2>2, <4>2, <4>5 DEF Marked
      <4> QED BY <4>2, <4>3, <4>4, <4>5
    <3> QED BY <2>0, <3>1, <3>2 DEF Write
  <2> QED BY <2>1, <2>2
<1> QED BY <1>1, <1>2 DEF Writes

\* Every step keeps registration namespaces with their projects.
LEMMA MarkedStep == TypeOK /\ Marked /\ [Next]_vars => Marked'
<1> SUFFICES ASSUME TypeOK, Marked, [Next]_vars PROVE Marked'
  OBVIOUS
<1> USE NamespaceTypes
<1>0. live \in [Names -> Namespace] /\ cache \in [Names -> Namespace]
      /\ found \in [Projects -> Namespace]
  BY DEF TypeOK
<1>1. ASSUME NEW n \in Namespaces, UserChanges(n) PROVE Marked'
  <2>1. UNCHANGED <<cache, found, tracker, mishap>>
    BY <1>1 DEF UserChanges, worker
  <2> QED BY <1>1, <2>1, EnvironmentWrites, WritesMarked
<1>2. ASSUME NEW p \in Projects, UserDrifts(p) PROVE Marked'
  <2>1. CASE Mishap
    BY <2>1 DEF Mishap, Marked
  <2>2. CASE Write(p, [live[p] EXCEPT !.phase = "terminating"]) /\ UNCHANGED mishap
    <3>1. UNCHANGED <<cache, found, tracker>> /\ live[p].phase = "active"
      BY <1>2 DEF UserDrifts, worker
    <3>2. live'[p].proj = live[p].proj
      BY <1>0, <2>2 DEF Write, Namespace
    <3>3. ~mishap' => live'[p].proj = p
      BY <2>2, <3>1, <3>2 DEF Marked
    <3> QED BY <1>2, <2>2, <3>1, <3>3, EnvironmentWrites, WritesMarked
  <2> QED BY <1>2, <2>1, <2>2 DEF UserDrifts
<1>3. ASSUME NEW n \in Names, Vanish(n) PROVE Marked'
  <2>1. UNCHANGED <<cache, found, tracker, mishap>>
    BY <1>3 DEF Vanish, worker
  <2>2. live'[n].phase = "absent"
    BY <1>0, <1>3 DEF Vanish, Write, Absent
  <2> QED BY <1>3, <2>1, <2>2, EnvironmentWrites, WritesMarked
<1>4. CASE StartCaches
  <2>1. cache' = live /\ watch' = <<>> /\ UNCHANGED <<live, mishap, tracker, found>>
    BY <1>4 DEF StartCaches, cluster, worker
  <2> QED BY <2>1 DEF Marked
<1>5. CASE StartFails \/ Crash
  <2>1. /\ cache' = live /\ watch' = <<>> /\ UNCHANGED live
        /\ found' = Nowhere(Absent) /\ tracker' = Nowhere(Untracked)
    BY <1>5 DEF StartFails, Crash, Restart
  <2>2. mishap => mishap'
    BY <1>5 DEF StartFails, Crash
  <2> QED BY <2>1, <2>2 DEF Marked, Nowhere, Absent
<1>6. CASE Deliver
  <2>0. watch \in Seq(Event) /\ watch # <<>>
    BY <1>6 DEF TypeOK, Event, Deliver
  <2>1. /\ watch' = Tail(watch) /\ UNCHANGED <<live, mishap, tracker, found>>
        /\ cache' = [cache EXCEPT ![Head(watch).name] = Head(watch).obj]
    BY <1>6 DEF Deliver, cluster, worker
  <2>2. /\ Len(watch) \in Nat /\ Len(watch) > 0 /\ DOMAIN watch = 1..Len(watch)
        /\ watch' \in Seq(Event) /\ Len(watch') = Len(watch) - 1
        /\ \A i \in 1..Len(watch') : watch'[i] = watch[i + 1]
        /\ Head(watch) = watch[1]
    BY <2>0, <2>1, HeadTailProperties, LenProperties, EmptySeq
  <2>3. DOMAIN watch' = 1..(Len(watch) - 1)
    BY <2>2, LenProperties
  <2>4. 1 \in DOMAIN watch /\ \A i \in DOMAIN watch' : i + 1 \in DOMAIN watch /\ watch'[i] = watch[i + 1]
    BY <2>2, <2>3
  <2> QED BY <1>0, <2>1, <2>2, <2>4 DEF Marked
<1>7. ASSUME NEW n \in Names, LeavesProjects(n) PROVE Marked'
  <2>1. UNCHANGED <<cache, found, tracker, mishap>>
    BY <1>7 DEF LeavesProjects, worker
  <2>2. mishap \/ n \notin Projects
    BY <1>7, NamesAssumption DEF LeavesProjects, Marked
  <2> QED BY <1>7, <2>1, <2>2, HandlerWrites, WritesMarked
<1>8. ASSUME NEW n \in Names, ProjectNamespaceChanged(n) PROVE Marked'
  <2>1. UNCHANGED <<cache, found, tracker>> /\ (mishap => mishap')
    BY <1>8 DEF ProjectNamespaceChanged, Mishap, worker
  <2>2. Write(n, [live[n] EXCEPT !.id = cache[n].proj]) \/ UNCHANGED live
    BY <1>8 DEF ProjectNamespaceChanged
  <2>3. live'[n].phase = live[n].phase /\ live'[n].proj = live[n].proj
    BY <1>0, <2>2 DEF Write, Namespace
  <2>4. n \in Projects /\ ~mishap' /\ live'[n].phase # "absent" => live'[n].proj = n
    BY <2>1, <2>3 DEF Marked
  <2> QED BY <1>8, <2>1, <2>4, HandlerWrites, WritesMarked
<1>9. ASSUME NEW p \in Projects, ApplyNamespace(p) PROVE Marked'
  <2>1. UNCHANGED <<cache, found, tracker, mishap>>
    BY <1>9 DEF ApplyNamespace
  <2>2. ~mishap /\ live'[p].phase # "absent" => live'[p].proj = p
    <3>1. CASE Write(p, Desired(p))
      BY <1>0, <3>1 DEF Write, Desired
    <3>2. CASE live[p].phase # "absent" /\ Write(p, Patched(p))
      <4>1. Patched(p).proj \in {live[p].proj, p}
        BY <1>0 DEF Patched, Desired, Namespace
      <4>2. live'[p] = Patched(p)
        BY <1>0, <3>2 DEF Write
      <4> QED BY <3>2, <4>1, <4>2 DEF Marked
    <3>3. CASE UNCHANGED <<live, watch>>
      BY <3>3 DEF Marked
    <3> QED BY <1>9, <3>1, <3>2, <3>3 DEF ApplyNamespace
  <2> QED BY <1>9, <2>1, <2>2, ApplyWrites, WritesMarked
<1>10. ASSUME NEW p \in Projects, GetNamespace(p) PROVE Marked'
  <2>1. UNCHANGED <<live, mishap, cache, watch, tracker>> /\ found' = [found EXCEPT ![p] = live[p]]
    BY <1>10 DEF GetNamespace, cluster, informer
  <2> QED BY <1>0, <2>1 DEF Marked
<1>11. ASSUME NEW p \in Projects, Track(p) PROVE Marked'
  <2>1. /\ UNCHANGED <<live, mishap, cache, watch>>
        /\ found' = [found EXCEPT ![p] = Absent] /\ tracker' = [tracker EXCEPT ![p] = found[p].proj]
    BY <1>11 DEF Track, cluster, informer
  <2>2. found[p].phase # "absent" /\ tracker \in [Projects -> Labels \cup {Untracked}]
    BY <1>11 DEF Track, TypeOK
  <2> QED BY <1>0, <2>1, <2>2 DEF Marked, Absent
<1>12. ASSUME UNCHANGED <<live, cache, watch, found, tracker>>, mishap => mishap' PROVE Marked'
  BY <1>12 DEF Marked
<1>13. ASSUME NEW p \in Projects, Untrack(p) PROVE Marked'
  <2>1. /\ UNCHANGED <<live, mishap, cache, watch, found>>
        /\ tracker' = [tracker EXCEPT ![p] = Untracked]
    BY <1>13 DEF Untrack, cluster, informer, worker
  <2>2. tracker \in [Projects -> Labels \cup {Untracked}]
    BY DEF TypeOK
  <2> QED BY <2>1, <2>2 DEF Marked
<1>14. ASSUME NEW p \in Projects,
              \/ UserDeletesConfigMap(p) \/ DeliverConfigMap(p) \/ RegistrationChanged(p)
              \/ CountNamespaces(p) \/ ApplyConfigMap(p) \/ ApplyFails(p) \/ Finish(p) \/ BackoffEnds(p)
       PROVE  Marked'
  <2>1. CASE UserDeletesConfigMap(p) \/ DeliverConfigMap(p) \/ RegistrationChanged(p)
    BY <1>12, <2>1 DEF UserDeletesConfigMap, DeliverConfigMap, RegistrationChanged,
                       cluster, informer, worker
  <2>2. CASE CountNamespaces(p) \/ ApplyConfigMap(p) \/ Finish(p) \/ BackoffEnds(p)
    BY <1>12, <2>2 DEF CountNamespaces, ApplyConfigMap, Finish, BackoffEnds,
                       cluster, informer, worker
  <2>3. CASE ApplyFails(p)
    <3>1. UNCHANGED <<live, configMap, informer, handler, tracker, found>> /\ (mishap => mishap')
      BY <2>3 DEF ApplyFails
    <3> QED BY <1>12, <3>1 DEF informer
  <2> QED BY <1>14, <2>1, <2>2, <2>3
<1>15. CASE Resync \/ \E n \in Names : IgnoreNamespace(n)
  <2>1. UNCHANGED <<cluster, informer, tracker, worker>>
    BY <1>15 DEF Resync, IgnoreNamespace
  <2> QED BY <1>12, <2>1 DEF cluster, informer, worker
<1>16. CASE UNCHANGED vars
  BY <1>12, <1>16 DEF vars, cluster, informer, worker
<1> QED
  BY <1>1, <1>2, <1>3, <1>4, <1>5, <1>6, <1>7, <1>8, <1>9, <1>10, <1>11, <1>13, <1>14, <1>15, <1>16
     DEF Next, Environment, Operator, Controller, Handler, Registration, Application

-----------------------------------------------------------------------------
(* What is on its way to the handler *)

\* Every step keeps the cache of ConfigMaps informed.
LEMMA ConfigMapStep == TypeOK /\ ConfigMapInformed /\ [Next]_vars => ConfigMapInformed'
<1> SUFFICES ASSUME TypeOK, ConfigMapInformed, [Next]_vars PROVE ConfigMapInformed'
  OBVIOUS
<1>0. configMap \in [Projects -> BOOLEAN] /\ cmCache \in [Projects -> BOOLEAN]
  BY DEF TypeOK
<1>1. ASSUME UNCHANGED <<started, configMap, cmCache, cmWatch>> PROVE ConfigMapInformed'
  BY <1>1 DEF ConfigMapInformed
<1>2. ASSUME NEW p \in Projects, UserDeletesConfigMap(p) PROVE ConfigMapInformed'
  <2>1. /\ UNCHANGED <<started, cmCache>> /\ cmWatch' = cmWatch \cup {p}
        /\ configMap' = [configMap EXCEPT ![p] = FALSE]
    BY <1>2 DEF UserDeletesConfigMap
  <2> QED BY <1>0, <2>1 DEF ConfigMapInformed
<1>3. CASE \E n \in Names : Vanish(n)
  <2>1. /\ UNCHANGED <<started, cmCache>>
        /\ cmWatch' = cmWatch \cup {p \in Projects : configMap'[p] # configMap[p]}
    BY <1>3 DEF Vanish
  <2> QED BY <2>1 DEF ConfigMapInformed
<1>4. CASE StartCaches
  <2>1. cmCache' = configMap /\ UNCHANGED configMap
    BY <1>4 DEF StartCaches, cluster
  <2> QED BY <2>1 DEF ConfigMapInformed
<1>5. CASE StartFails \/ Crash
  BY <1>5 DEF StartFails, Crash, Restart, ConfigMapInformed
<1>6. ASSUME NEW p \in Projects, DeliverConfigMap(p) PROVE ConfigMapInformed'
  <2>1. /\ UNCHANGED <<started, configMap>> /\ cmWatch' = cmWatch \ {p}
        /\ cmCache' = [cmCache EXCEPT ![p] = configMap[p]]
    BY <1>6 DEF DeliverConfigMap, cluster
  <2> QED BY <1>0, <2>1 DEF ConfigMapInformed
<1>7. ASSUME NEW p \in Projects, ApplyConfigMap(p) PROVE ConfigMapInformed'
  <2>1. /\ UNCHANGED <<started, cmCache>>
        /\ \/ UNCHANGED <<configMap, cmWatch>>
           \/ /\ configMap' = [configMap EXCEPT ![p] = TRUE]
              /\ cmWatch' = IF configMap[p] THEN cmWatch ELSE cmWatch \cup {p}
    BY <1>7 DEF ApplyConfigMap
  <2> QED BY <1>0, <2>1 DEF ConfigMapInformed
<1>8. CASE Deliver \/ Resync
  BY <1>1, <1>8 DEF Deliver, Resync, cluster, informer
<1>9. CASE (\E n \in Namespaces : UserChanges(n)) \/ \E p \in Projects : UserDrifts(p)
  BY <1>1, <1>9 DEF UserChanges, UserDrifts
<1>10. CASE \E n \in Names : Handler(n)
  <2>1. ASSUME NEW n \in Names, IgnoreNamespace(n) PROVE ConfigMapInformed'
    BY <1>1, <2>1 DEF IgnoreNamespace, cluster, informer
  <2>2. ASSUME NEW n \in Names, LeavesProjects(n) PROVE ConfigMapInformed'
    BY <1>1, <2>2 DEF LeavesProjects
  <2>3. ASSUME NEW n \in Names, ProjectNamespaceChanged(n) PROVE ConfigMapInformed'
    BY <1>1, <2>3 DEF ProjectNamespaceChanged
  <2> QED BY <1>10, <2>1, <2>2, <2>3 DEF Handler
<1>11. CASE \E p \in Projects : Registration(p) \/ BackoffEnds(p)
  BY <1>1, <1>11 DEF Registration, RegistrationChanged, Untrack, BackoffEnds, cluster, informer
<1>12. ASSUME NEW p \in Projects,
              \/ CountNamespaces(p) \/ ApplyNamespace(p) \/ GetNamespace(p) \/ Track(p)
              \/ ApplyFails(p) \/ Finish(p)
       PROVE  ConfigMapInformed'
  <2>1. CASE CountNamespaces(p) \/ GetNamespace(p) \/ Track(p) \/ Finish(p)
    BY <1>1, <2>1 DEF CountNamespaces, GetNamespace, Track, Finish, cluster, informer
  <2>2. CASE ApplyNamespace(p)
    BY <1>1, <2>2 DEF ApplyNamespace
  <2>3. CASE ApplyFails(p)
    <3>1. UNCHANGED <<live, configMap, informer, handler, tracker, found>>
      BY <2>3 DEF ApplyFails
    <3> QED BY <1>1, <3>1 DEF informer
  <2> QED BY <1>12, <2>1, <2>2, <2>3
<1>13. CASE UNCHANGED vars
  BY <1>1, <1>13 DEF vars, cluster, informer
<1> QED
  BY <1>2, <1>3, <1>4, <1>5, <1>6, <1>7, <1>8, <1>9, <1>10, <1>11, <1>12, <1>13
     DEF Next, Environment, Operator, Controller, Application

\* Every step but a restart, a start of the caches or a delivery writes a namespace
\* at most.  Unless the step is a call of the handler with that namespace, it takes
\* nothing from the queue.
Quietly(n) ==
    /\ Writes(n) /\ UNCHANGED <<started, cache>> /\ (mishap => mishap')
    /\ queue \ {n} \subseteq queue' /\ (n \in queue \ queue' => Called(n))

\* The steps of users.
LEMMA EnvironmentQuiet ==
    ASSUME TypeOK
    PROVE  /\ \A n \in Namespaces : UserChanges(n) => Quietly(n)
           /\ \A p \in Projects : UserDrifts(p) \/ UserDeletesConfigMap(p) => Quietly(p)
           /\ \A n \in Names : Vanish(n) => Quietly(n)
<1>1. ASSUME NEW n \in Namespaces, UserChanges(n) PROVE Quietly(n)
  <2>1. UNCHANGED <<started, cache, queue, mishap>>
    BY <1>1 DEF UserChanges, handler
  <2> QED BY <1>1, <2>1, EnvironmentWrites DEF Quietly
<1>2. ASSUME NEW p \in Projects, UserDrifts(p) PROVE Quietly(p)
  <2>1. UNCHANGED <<started, cache, queue>> /\ (mishap => mishap')
    BY <1>2 DEF UserDrifts, Mishap, handler
  <2> QED BY <1>2, <2>1, EnvironmentWrites DEF Quietly
<1>3. ASSUME NEW p \in Projects, UserDeletesConfigMap(p) PROVE Quietly(p)
  BY <1>3 DEF UserDeletesConfigMap, Quietly, Writes, handler
<1>4. ASSUME NEW n \in Names, Vanish(n) PROVE Quietly(n)
  <2>1. UNCHANGED <<started, cache, queue, mishap>>
    BY <1>4 DEF Vanish, handler
  <2> QED BY <1>4, <2>1, EnvironmentWrites DEF Quietly
<1> QED BY <1>1, <1>2, <1>3, <1>4

\* The calls of the handler.
LEMMA HandlerQuiet ==
    ASSUME TypeOK, NEW n \in Names,
           Handler(n) \/ (n \in Projects /\ RegistrationChanged(n))
    PROVE  Quietly(n) /\ Called(n)
<1>1. CASE IgnoreNamespace(n)
  BY <1>1 DEF IgnoreNamespace, Returns, Quietly, Writes, cluster, informer
<1>2. CASE LeavesProjects(n)
  <2>1. UNCHANGED <<started, cache, mishap>> /\ queue \ {n} \subseteq queue' /\ Called(n)
    BY <1>2 DEF LeavesProjects, Returns
  <2> QED BY <1>2, <2>1, HandlerWrites DEF Quietly
<1>3. CASE ProjectNamespaceChanged(n)
  <2>1. UNCHANGED <<started, cache>> /\ queue \ {n} \subseteq queue' /\ Called(n) /\ (mishap => mishap')
    BY <1>3 DEF ProjectNamespaceChanged, Returns, Mishap
  <2> QED BY <1>3, <2>1, HandlerWrites DEF Quietly
<1>4. CASE RegistrationChanged(n)
  BY <1>4 DEF RegistrationChanged, Returns, Quietly, Writes, cluster, informer
<1> QED BY <1>1, <1>2, <1>3, <1>4 DEF Handler

\* The rest.
LEMMA ApplicationQuiet ==
    ASSUME TypeOK, NEW p \in Projects,
           Application(p) \/ BackoffEnds(p) \/ DeliverConfigMap(p) \/ Untrack(p)
    PROVE  Quietly(p) /\ queue \subseteq queue'
<1>1. CASE ApplyNamespace(p)
  <2>1. UNCHANGED <<started, cache, queue, mishap>>
    BY <1>1 DEF ApplyNamespace, handler
  <2> QED BY <1>1, <2>1, ApplyWrites DEF Quietly
<1>2. CASE ApplyFails(p)
  <2>1. UNCHANGED <<live, configMap, informer, handler, tracker, found>> /\ (mishap => mishap')
    BY <1>2 DEF ApplyFails
  <2> QED BY <2>1 DEF Quietly, Writes, informer, handler
<1>3. CASE CountNamespaces(p) \/ GetNamespace(p) \/ Track(p) \/ ApplyConfigMap(p) \/ Finish(p)
           \/ BackoffEnds(p) \/ Untrack(p)
  <2>1. UNCHANGED <<live, watch, started, cache, queue, mishap>>
    BY <1>3 DEF CountNamespaces, GetNamespace, Track, ApplyConfigMap, Finish, BackoffEnds, Untrack,
                cluster, informer, handler
  <2> QED BY <2>1 DEF Quietly, Writes
<1>4. CASE DeliverConfigMap(p)
  <2>1. UNCHANGED <<live, watch, started, cache, mishap>> /\ queue \subseteq queue'
    BY <1>4 DEF DeliverConfigMap, cluster
  <2> QED BY <2>1 DEF Quietly, Writes
<1> QED BY <1>1, <1>2, <1>3, <1>4 DEF Application

\* A namespace that differs after such a step has an event on its way, and so has
\* what had one.
LEMMA QuietlyStale ==
    ASSUME TypeOK, NEW n \in Names, Quietly(n)
    PROVE  /\ \A m \in Names : (live'[m] = live[m] \/ Stale(m)') /\ (Stale(m) => Stale(m)')
           /\ \A m \in Names \ {n} : live'[m] = live[m]
<1>1. CASE UNCHANGED <<live, watch>>
  BY <1>1 DEF Stale
<1>2. CASE \E obj \in Namespace : Write(n, obj)
  <2>1. PICK obj \in Namespace : Write(n, obj)
    BY <1>2
  <2>2. ASSUME NEW m \in Names
        PROVE  (live'[m] = live[m] \/ Stale(m)') /\ (Stale(m) => Stale(m)')
    BY <2>1, WriteStale
  <2>3. \A m \in Names \ {n} : live'[m] = live[m]
    BY <2>1, WriteStale
  <2> QED BY <2>2, <2>3
<1> QED BY <1>1, <1>2 DEF Quietly, Writes

\* Whatever the step, it is one of these.
LEMMA StepKinds ==
    ASSUME TypeOK, [Next]_vars
    PROVE  \/ StartCaches \/ Deliver
           \/ Restart /\ started' = FALSE
           \/ UNCHANGED <<cluster, informer, untracking, tracker, promise, worker>>
              /\ queue \subseteq queue'
           \/ \E n \in Namespaces : UserChanges(n)
           \/ \E p \in Projects : UserDrifts(p) \/ UserDeletesConfigMap(p)
           \/ \E n \in Names : Vanish(n)
           \/ \E n \in Names : Handler(n) \/ (n \in Projects /\ RegistrationChanged(n))
           \/ \E p \in Projects : Application(p) \/ BackoffEnds(p) \/ DeliverConfigMap(p) \/ Untrack(p)
<1>1. CASE StartFails \/ Crash
  BY <1>1 DEF StartFails, Crash, Restart
<1>2. CASE Resync
  BY <1>2 DEF Resync
<1>3. CASE UNCHANGED vars
  BY <1>3 DEF vars, handler
<1>4. CASE \E p \in Projects : Registration(p)
  BY <1>4, NamespaceTypes DEF Registration
<1> QED BY <1>1, <1>2, <1>3, <1>4 DEF Next, Environment, Operator, Controller

\* Every step keeps the informers informed.
LEMMA InformedStep == TypeOK /\ Informed /\ [Next]_vars => Informed'
<1> SUFFICES ASSUME TypeOK, Informed, [Next]_vars PROVE Informed'
  OBVIOUS
<1>1. ASSUME NEW n \in Names, Quietly(n) PROVE Informed'
  <2>1. Writes(n) /\ UNCHANGED cache
    BY <1>1 DEF Quietly
  <2>2. CASE UNCHANGED <<live, watch>>
    BY <2>1, <2>2 DEF Informed, Newest, Stale
  <2>3. CASE \E obj \in Namespace : Write(n, obj)
    BY <2>1, <2>3, WriteInforms
  <2> QED BY <2>1, <2>2, <2>3 DEF Writes
<1>2. CASE Deliver
  BY <1>2, DeliverInforms
<1>3. CASE StartCaches \/ Restart
  <2>1. cache' = live /\ watch' = <<>> /\ live' = live
    BY <1>3 DEF StartCaches, Restart, cluster
  <2> QED BY <2>1 DEF Informed
<1>4. CASE UNCHANGED <<cluster, informer, untracking, tracker, promise, worker>> /\ queue \subseteq queue'
  <2>1. UNCHANGED <<live, cache, watch>>
    BY <1>4 DEF cluster, informer
  <2> QED BY <2>1 DEF Informed, Newest, Stale
<1>5. CASE \/ \E n \in Namespaces : UserChanges(n)
           \/ \E p \in Projects : UserDrifts(p) \/ UserDeletesConfigMap(p)
           \/ \E n \in Names : Vanish(n)
  BY <1>1, <1>5, EnvironmentQuiet, NamespaceTypes
<1>6. CASE \E n \in Names : Handler(n) \/ (n \in Projects /\ RegistrationChanged(n))
  BY <1>1, <1>6, HandlerQuiet
<1>7. CASE \E p \in Projects : Application(p) \/ BackoffEnds(p) \/ DeliverConfigMap(p) \/ Untrack(p)
  BY <1>1, <1>7, ApplicationQuiet, NamespaceTypes
<1> QED BY <1>2, <1>3, <1>4, <1>5, <1>6, <1>7, StepKinds

\* Every step keeps it that a registration namespace is untracked only when it has
\* gone, or a new one has an event on its way.
LEMMA UntrackDueStep == TypeOK /\ Informed /\ UntrackDue /\ [Next]_vars => UntrackDue'
<1> SUFFICES ASSUME TypeOK, Informed, UntrackDue, [Next]_vars PROVE UntrackDue'
  OBVIOUS
<1> USE NamespaceTypes
<1>0. untracking \subseteq Projects
  BY DEF TypeOK
<1>1. ASSUME NEW n \in Names, Quietly(n), untracking' \subseteq untracking PROVE UntrackDue'
  <2> SUFFICES ASSUME started', NEW p \in untracking
               PROVE  live'[p].phase # "active" \/ Stale(p)' \/ p \in queue'
    BY <1>1 DEF UntrackDue
  <2>1. live[p].phase # "active" \/ Stale(p) \/ p \in queue
    BY <1>1 DEF UntrackDue, Quietly
  <2>2. p \in queue => p \in queue'
    BY <1>1 DEF Quietly, Called
  <2>3. p \in Names
    BY <1>0
  <2> QED BY <1>1, <2>1, <2>2, <2>3, QuietlyStale
<1>2. CASE StartCaches
  BY <1>2 DEF StartCaches, UntrackDue
<1>3. CASE Deliver
  <2>1. UNCHANGED <<live, started, untracking>> /\ queue \subseteq queue'
    BY <1>3 DEF Deliver, cluster
  <2> QED BY <1>0, <1>3, <2>1, DeliverStale DEF UntrackDue
<1>4. CASE started' = FALSE
  BY <1>4 DEF UntrackDue
<1>5. CASE UNCHANGED <<cluster, informer, untracking, tracker, promise, worker>> /\ queue \subseteq queue'
  BY <1>5 DEF UntrackDue, Stale, cluster, informer
<1>6. ASSUME NEW n \in Namespaces, UserChanges(n) PROVE UntrackDue'
  <2>1. UNCHANGED untracking
    BY <1>6 DEF UserChanges, handler
  <2> QED BY <1>1, <1>6, <2>1, EnvironmentQuiet
<1>7. ASSUME NEW p \in Projects, UserDrifts(p) \/ UserDeletesConfigMap(p) PROVE UntrackDue'
  <2>1. UNCHANGED untracking
    BY <1>7 DEF UserDrifts, UserDeletesConfigMap, handler
  <2> QED BY <1>1, <1>7, <2>1, EnvironmentQuiet
<1>8. ASSUME NEW n \in Names, Vanish(n) PROVE UntrackDue'
  <2>1. UNCHANGED untracking
    BY <1>8 DEF Vanish, handler
  <2> QED BY <1>1, <1>8, <2>1, EnvironmentQuiet
<1>9. ASSUME NEW n \in Names, Handler(n) PROVE UntrackDue'
  <2>1. UNCHANGED untracking
    BY <1>9 DEF Handler, IgnoreNamespace, LeavesProjects, ProjectNamespaceChanged
  <2> QED BY <1>1, <1>9, <2>1, HandlerQuiet
<1>10. ASSUME NEW p \in Projects, RegistrationChanged(p) PROVE UntrackDue'
  <2>1. Quietly(p) /\ Called(p)
    BY <1>10, HandlerQuiet
  <2>2. CASE untracking' = untracking
    BY <1>1, <2>1, <2>2
  <2>3. CASE cache[p].phase = "terminating" /\ untracking' = untracking \cup {p}
    <3> SUFFICES ASSUME started', NEW q \in untracking'
                 PROVE  live'[q].phase # "active" \/ Stale(q)' \/ q \in queue'
      BY DEF UntrackDue
    <3>1. CASE q = p
      <4>1. live[p] = cache[p] \/ Stale(p)
        BY DEF Informed
      <4> QED BY <2>1, <2>3, <3>1, <4>1, QuietlyStale
    <3>2. CASE q \in untracking
      <4>1. live[q].phase # "active" \/ Stale(q) \/ q \in queue
        BY <2>1, <3>2 DEF UntrackDue, Quietly
      <4>2. q \in Names /\ (q \in queue => q \in queue')
        BY <1>0, <2>1, <3>2 DEF Quietly, Called
      <4> QED BY <2>1, <4>1, <4>2, QuietlyStale
    <3> QED BY <2>3, <3>1, <3>2
  <2> QED BY <1>10, <2>2, <2>3 DEF RegistrationChanged
<1>11. ASSUME NEW p \in Projects,
              Application(p) \/ BackoffEnds(p) \/ DeliverConfigMap(p) \/ Untrack(p)
       PROVE  UntrackDue'
  <2>1. CASE Untrack(p) \/ DeliverConfigMap(p) \/ BackoffEnds(p)
    BY <1>1, <2>1, ApplicationQuiet DEF Untrack, DeliverConfigMap, BackoffEnds, handler
  <2>2. CASE Application(p)
    <3>1. UNCHANGED handler
      BY <2>2 DEF Application, CountNamespaces, ApplyNamespace, GetNamespace, Track, ApplyConfigMap,
                  ApplyFails, Finish
    <3> QED BY <1>1, <2>2, <3>1, ApplicationQuiet DEF handler
  <2> QED BY <1>11, <2>1, <2>2
<1> QED BY <1>2, <1>3, <1>4, <1>5, <1>6, <1>7, <1>8, <1>9, <1>10, <1>11, StepKinds

\* Every step keeps it that what was read back as being deleted does not come back
\* while it is tracked.
LEMMA ReadBackStep == TypeOK /\ ReadBack /\ [Next]_vars => ReadBack'
<1> SUFFICES ASSUME TypeOK, ReadBack, [Next]_vars PROVE ReadBack'
  OBVIOUS
<1> USE NamespaceTypes
<1>0. live \in [Names -> Namespace] /\ step \in [Projects -> Steps] /\ found \in [Projects -> Namespace]
  BY DEF TypeOK
<1>1. ASSUME NEW n \in Names, Quietly(n), UNCHANGED <<step, found>>,
             n \in Projects /\ live'[n].phase = "active" => live[n].phase = "active"
      PROVE  ReadBack'
  BY <1>1, QuietlyStale DEF ReadBack
<1>2. CASE StartCaches \/ Deliver
  BY <1>2 DEF StartCaches, Deliver, cluster, worker, ReadBack
<1>3. CASE Restart
  <2>1. step' = Nowhere("idle")
    BY <1>3 DEF Restart
  <2> QED BY <2>1 DEF ReadBack, Nowhere
<1>4. CASE UNCHANGED <<cluster, informer, untracking, tracker, promise, worker>> /\ queue \subseteq queue'
  BY <1>4 DEF ReadBack, cluster, worker
<1>5. ASSUME NEW n \in Namespaces, UserChanges(n) PROVE ReadBack'
  <2>1. UNCHANGED <<step, found>>
    BY <1>5 DEF UserChanges, worker
  <2> QED BY <1>1, <1>5, <2>1, EnvironmentQuiet
<1>6. ASSUME NEW p \in Projects, UserDrifts(p) \/ UserDeletesConfigMap(p) PROVE ReadBack'
  <2>1. UNCHANGED <<step, found>> /\ (UNCHANGED live \/ live[p].phase = "active")
    BY <1>6 DEF UserDrifts, UserDeletesConfigMap, worker
  <2> QED BY <1>1, <1>6, <2>1, EnvironmentQuiet
<1>7. ASSUME NEW n \in Names, Vanish(n) PROVE ReadBack'
  <2>1. UNCHANGED <<step, found>> /\ live'[n].phase = "absent"
    BY <1>0, <1>7 DEF Vanish, Write, Absent, worker
  <2> QED BY <1>1, <1>7, <2>1, EnvironmentQuiet
<1>8. ASSUME NEW n \in Names, Handler(n) \/ (n \in Projects /\ RegistrationChanged(n)) PROVE ReadBack'
  <2>1. UNCHANGED <<step, found>>
    BY <1>8 DEF Handler, IgnoreNamespace, LeavesProjects, ProjectNamespaceChanged,
                RegistrationChanged, worker
  <2>2. \/ UNCHANGED live
        \/ \E l : live' = [live EXCEPT ![n] = [live[n] EXCEPT !.id = l]]
    <3>1. CASE LeavesProjects(n)
      BY <3>1 DEF LeavesProjects, Write
    <3>2. CASE ProjectNamespaceChanged(n)
      BY <3>2 DEF ProjectNamespaceChanged, Write
    <3>3. CASE IgnoreNamespace(n) \/ RegistrationChanged(n)
      BY <3>3 DEF IgnoreNamespace, RegistrationChanged, cluster
    <3> QED BY <1>8, <3>1, <3>2, <3>3 DEF Handler
  <2>3. live'[n].phase = live[n].phase
    BY <1>0, <2>2 DEF Namespace
  <2> QED BY <1>1, <1>8, <2>1, <2>3, HandlerQuiet
<1>9. ASSUME NEW p \in Projects, Application(p) \/ BackoffEnds(p) \/ DeliverConfigMap(p) \/ Untrack(p)
      PROVE  ReadBack'
  <2>1. CASE GetNamespace(p)
    <3>1. UNCHANGED live /\ step' = [step EXCEPT ![p] = "track"] /\ found' = [found EXCEPT ![p] = live[p]]
      BY <2>1 DEF GetNamespace, cluster
    <3> QED BY <1>0, <3>1 DEF ReadBack
  <2>2. CASE \E s \in Steps \ {"track"} : step' = [step EXCEPT ![p] = s]
    <3>1. PICK s \in Steps \ {"track"} : step' = [step EXCEPT ![p] = s]
      BY <2>2
    <3>2. \A q \in Projects \ {p} : step'[q] = step[q] /\ live'[q] = live[q]
      BY <1>0, <1>9, <3>1, ApplicationQuiet, QuietlyStale
    <3>3. \A q \in Projects \ {p} : found'[q] = found[q]
      BY <1>0, <1>9 DEF Application, CountNamespaces, ApplyNamespace, GetNamespace, Track,
                        ApplyConfigMap, ApplyFails, Finish, BackoffEnds, DeliverConfigMap, Untrack, worker
    <3>4. step'[p] # "track"
      BY <1>0, <3>1
    <3> QED BY <3>2, <3>3, <3>4 DEF ReadBack
  <2>3. CASE BackoffEnds(p) \/ DeliverConfigMap(p) \/ Untrack(p)
    BY <2>3 DEF BackoffEnds, DeliverConfigMap, Untrack, cluster, worker, ReadBack
  <2>4. CASE CountNamespaces(p) \/ ApplyNamespace(p) \/ Track(p) \/ ApplyConfigMap(p) \/ ApplyFails(p)
             \/ Finish(p)
    BY <2>2, <2>4 DEF CountNamespaces, ApplyNamespace, Track, ApplyConfigMap, ApplyFails, Finish, Steps
  <2> QED BY <1>9, <2>1, <2>3, <2>4 DEF Application
<1> QED BY <1>2, <1>3, <1>4, <1>5, <1>6, <1>7, <1>8, <1>9, StepKinds

-----------------------------------------------------------------------------
(* A settled namespace keeps its project in order *)

\* What was applied for, or will be retried, still is.
Owing(p) == p \in owed \cup retrying => p \in owed' \cup retrying'

\* The ConfigMap of p does not go unnoticed.
Noticed(p) == configMap[p] \/ p \in cmWatch => configMap'[p] \/ p \in cmWatch'

\* Nothing happens to the application of p, and what is seen of it.
Untouched(p) ==
    /\ step'[p] = step[p] /\ orphaned'[p] = orphaned[p] /\ tracker'[p] = tracker[p]
    /\ Owing(p) /\ Noticed(p)

\* A namespace that is settled after such a step has been before, or it was handled.
LEMMA SettledBefore ==
    ASSUME TypeOK, NEW m \in Names, Quietly(m), NEW n \in Namespaces, NEW p \in Projects,
           Settled(n, p)'
    PROVE  live'[n] = live[n] /\ ~Stale(n) /\ (Settled(n, p) \/ (n = m /\ n \in queue))
<1>1. live'[n] = live[n] /\ ~Stale(n)
  BY QuietlyStale, NamespaceTypes DEF Settled
<1> QED BY <1>1 DEF Settled, Quietly

\* A project that nothing happens to, but that its registration namespace may be
\* written, stays in order.
LEMMA UntouchedKept ==
    ASSUME TypeOK, Kept, started, ~mishap, NEW m \in Names, Quietly(m),
           NEW p \in Projects, Untouched(p), p \in queue => p \in queue',
           NEW n \in Namespaces, Settled(n, p)
    PROVE  InOrder(n, p)'
<1>1. /\ step[p] = "apply" /\ orphaned[p] => p \in owed \cup retrying
      /\ live[p].phase = "active" => Asked(p) \/ Sound(p)
  BY DEF Kept, InOrder
<1>2. (live'[p] = live[p] \/ Stale(p)') /\ (Stale(p) => Stale(p)')
  BY QuietlyStale, NamespaceTypes
<1>3. Asked(p) => Asked(p)'
  BY <1>2 DEF Asked, Untouched, Owing
<1>4. live'[p] = live[p] /\ Sound(p) => Sound(p)'
  BY DEF Sound, Untouched, Noticed
<1>5. step'[p] = "apply" /\ orphaned'[p] => p \in owed' \cup retrying'
  BY <1>1 DEF Untouched, Owing
<1>6. live'[p].phase = "active" => Asked(p)' \/ Sound(p)'
  BY <1>1, <1>2, <1>3, <1>4 DEF Asked
<1> QED BY <1>5, <1>6 DEF InOrder

\* A step that takes nothing from the queue and touches the application of q only.
LEMMA OneProjectKept ==
    ASSUME TypeOK, Kept, NEW m \in Names, Quietly(m), queue \subseteq queue',
           NEW q \in Projects, \A p \in Projects \ {q} : Untouched(p),
           \A n \in Namespaces : started /\ ~mishap /\ Settled(n, q) /\ ~mishap' /\ Settled(n, q)'
                                 => InOrder(n, q)'
    PROVE  Kept'
<1> SUFFICES ASSUME started', ~mishap', NEW p \in Projects, NEW n \in Namespaces, Settled(n, p)'
             PROVE  InOrder(n, p)'
  BY DEF Kept, InOrder
<1>1. started /\ ~mishap
  BY DEF Quietly
<1>2. Settled(n, p)
  BY SettledBefore DEF Settled
<1>3. CASE p = q
  BY <1>1, <1>2, <1>3
<1>4. CASE p # q
  BY <1>1, <1>2, <1>4, UntouchedKept
<1> QED BY <1>3, <1>4

\* A step that takes nothing from the queue and touches no application.
LEMMA NoProjectKept ==
    ASSUME TypeOK, Kept, NEW m \in Names, Quietly(m), queue \subseteq queue',
           \A p \in Projects : Untouched(p)
    PROVE  Kept'
<1> SUFFICES ASSUME started', ~mishap', NEW p \in Projects, NEW n \in Namespaces, Settled(n, p)'
             PROVE  InOrder(n, p)'
  BY DEF Kept, InOrder
<1>1. started /\ ~mishap
  BY DEF Quietly
<1>2. Settled(n, p)
  BY SettledBefore DEF Settled
<1> QED BY <1>1, <1>2, UntouchedKept

\* A call of the handler with m: a namespace of a project has asked for it when it is
\* settled, and a registration namespace that is there has asked for its project, or
\* has unsettled the namespaces of it.
LEMMA HandledKept ==
    ASSUME TypeOK, Kept, NEW m \in Names, Quietly(m), \A p \in Projects : Untouched(p),
           \A p \in Projects : started /\ ~mishap' /\ m \in Namespaces /\ Settled(m, p)'
                               => p \in owed' \cup retrying',
           started /\ ~mishap' /\ m \in Projects /\ live'[m].phase = "active" /\ ~Stale(m)'
           => m \in owed' \cup retrying' \/ \A n \in Namespaces : ~Settled(n, m)'
    PROVE  Kept'
<1> SUFFICES ASSUME started', ~mishap', NEW p \in Projects, NEW n \in Namespaces, Settled(n, p)'
             PROVE  InOrder(n, p)'
  BY DEF Kept, InOrder
<1>1. started /\ ~mishap
  BY DEF Quietly
<1>2. CASE n = m
  BY <1>1, <1>2 DEF InOrder, Asked
<1>3. CASE n # m
  <2>1. Settled(n, p)
    BY <1>3, SettledBefore
  <2>2. CASE p = m
    <3>1. step'[p] = "apply" /\ orphaned'[p] => p \in owed' \cup retrying'
      BY <1>1, <2>1 DEF Kept, InOrder, Untouched, Owing
    <3>2. live'[p].phase = "active" => Asked(p)'
      BY <1>1, <2>2 DEF Asked
    <3> QED BY <3>1, <3>2 DEF InOrder
  <2>3. CASE p # m
    <3>1. p \in queue => p \in queue'
      BY <2>3 DEF Quietly
    <3> QED BY <1>1, <2>1, <3>1, UntouchedKept
  <2> QED BY <2>2, <2>3
<1> QED BY <1>2, <1>3

\* The steps of users keep it.
LEMMA EnvironmentKept == TypeOK /\ Kept /\ Environment => Kept'
<1> SUFFICES ASSUME TypeOK, Kept, Environment PROVE Kept'
  OBVIOUS
<1> USE NamespaceTypes
<1>0. configMap \in [Projects -> BOOLEAN]
  BY DEF TypeOK
<1>1. ASSUME UNCHANGED <<tracker, promise, worker>>, \A p \in Projects : Noticed(p)
      PROVE  \A p \in Projects : Untouched(p)
  BY <1>1 DEF Untouched, Owing, promise, worker
<1>2. ASSUME NEW n \in Namespaces, UserChanges(n) PROVE Kept'
  <2>1. UNCHANGED <<configMap, cmWatch, queue, tracker, promise, worker>>
    BY <1>2 DEF UserChanges, handler
  <2> QED BY <1>1, <1>2, <2>1, EnvironmentQuiet, NoProjectKept DEF Noticed
<1>3. ASSUME NEW p \in Projects, UserDrifts(p) PROVE Kept'
  <2>1. UNCHANGED <<configMap, cmWatch, queue, tracker, promise, worker>>
    BY <1>3 DEF UserDrifts, handler
  <2> QED BY <1>1, <1>3, <2>1, EnvironmentQuiet, NoProjectKept DEF Noticed
<1>4. ASSUME NEW p \in Projects, UserDeletesConfigMap(p) PROVE Kept'
  <2>1. /\ UNCHANGED <<queue, tracker, promise, worker>>
        /\ configMap' = [configMap EXCEPT ![p] = FALSE] /\ cmWatch' = cmWatch \cup {p}
    BY <1>4 DEF UserDeletesConfigMap, handler
  <2>2. \A q \in Projects : Noticed(q)
    BY <1>0, <2>1 DEF Noticed
  <2> QED BY <1>1, <1>4, <2>1, <2>2, EnvironmentQuiet, NoProjectKept
<1>5. ASSUME NEW n \in Names, Vanish(n) PROVE Kept'
  <2>1. /\ UNCHANGED <<queue, tracker, promise, worker>>
        /\ cmWatch' = cmWatch \cup {p \in Projects : configMap'[p] # configMap[p]}
    BY <1>5 DEF Vanish, handler
  <2>2. \A q \in Projects : Noticed(q)
    BY <2>1 DEF Noticed
  <2> QED BY <1>1, <1>5, <2>1, <2>2, EnvironmentQuiet, NoProjectKept
<1> QED BY <1>2, <1>3, <1>4, <1>5 DEF Environment

\* The calls of the handler keep it.
LEMMA HandlerKept ==
    ASSUME TypeOK, Informed, Marked, Kept, NEW m \in Names,
           Handler(m) \/ (m \in Projects /\ RegistrationChanged(m))
    PROVE  Kept'
<1> USE NamespaceTypes
<1>0. Quietly(m)
  BY HandlerQuiet
<1>1. ASSUME ~Stale(m)' PROVE live'[m] = live[m] /\ live[m] = cache[m] /\ ~Stale(m)
  BY <1>0, <1>1, QuietlyStale DEF Informed
<1>2. ~mishap' => ~mishap
  BY <1>0 DEF Quietly
<1>3. System \notin Projects /\ NoProject \notin Projects
  BY NamesAssumption
<1>4. CASE IgnoreNamespace(m)
  <2>1. UNCHANGED <<configMap, cmWatch, tracker, promise, worker>>
    BY <1>4 DEF IgnoreNamespace, cluster, informer
  <2>2. \A p \in Projects : Untouched(p)
    BY <2>1 DEF Untouched, Owing, Noticed, promise, worker
  <2>3. cache[m].phase = "absent" \/ cache[m].proj = System
    BY <1>4 DEF IgnoreNamespace, IsSystem
  <2>4. \A p \in Projects : ~Settled(m, p)'
    BY <1>1, <1>3, <2>3 DEF Settled
  <2>5. m \in Projects /\ ~mishap' => Stale(m)' \/ live'[m].phase # "active"
    BY <1>1, <1>2, <1>3, <2>3 DEF Marked
  <2> QED BY <1>0, <2>2, <2>4, <2>5, HandledKept
<1>5. CASE LeavesProjects(m)
  <2>1. UNCHANGED <<configMap, cmWatch, tracker, promise, worker>>
    BY <1>5 DEF LeavesProjects
  <2>2. \A p \in Projects : Untouched(p)
    BY <2>1 DEF Untouched, Owing, Noticed, promise, worker
  <2>3. cache[m].phase # "absent" /\ cache[m].proj = NoProject
    BY <1>5 DEF LeavesProjects
  <2>4. \A p \in Projects : ~Settled(m, p)'
    BY <1>1, <1>3, <2>3 DEF Settled
  <2>5. m \notin Projects \/ mishap'
    BY <1>2, <1>3, <2>3 DEF Marked
  <2> QED BY <1>0, <2>2, <2>4, <2>5, HandledKept
<1>6. CASE ProjectNamespaceChanged(m)
  <2> DEFINE r == cache[m].proj
  <2>1. /\ r \in Projects /\ cache[m].phase # "absent"
        /\ UNCHANGED <<configMap, cmWatch, tracker, worker>>
    BY <1>6 DEF ProjectNamespaceChanged
  <2>2. Promise!Request(r) \/ UNCHANGED promise
    BY <1>6 DEF ProjectNamespaceChanged
  <2>3. \A p \in Projects : Untouched(p)
    <3>1. owed \subseteq owed' /\ UNCHANGED retrying
      BY <2>2 DEF Promise!Request, promise
    <3> QED BY <2>1, <3>1 DEF Untouched, Owing, Noticed, worker
  <2>4. ASSUME ~mishap', ~Stale(m)', live'[m].phase = "active" PROVE r \in owed'
    <3>1. cache[m].phase = "active" /\ ~Stale(m)
      BY <1>1, <2>4
    <3>2. Promise!Request(r)
      BY <1>6, <2>4, <3>1 DEF ProjectNamespaceChanged, Mishap
    <3> QED BY <3>2 DEF Promise!Request
  <2>5. \A p \in Projects : ~mishap' /\ Settled(m, p)' => p \in owed'
    BY <1>1, <2>4 DEF Settled
  <2>6. m \in Projects /\ ~mishap' => r = m
    BY <1>2, <2>1 DEF Marked
  <2> QED BY <1>0, <2>3, <2>4, <2>5, <2>6, HandledKept
<1>7. CASE m \in Projects /\ RegistrationChanged(m)
  <2>1. /\ UNCHANGED <<configMap, cmWatch, tracker, promise, worker, started>>
        /\ queue' = (queue \ {m}) \cup InProject(tracker[m]) /\ tracker[m] # Untracked
    BY <1>7 DEF RegistrationChanged, Returns, IsTracked, cluster, informer
  <2>2. \A p \in Projects : Untouched(p)
    BY <2>1 DEF Untouched, Owing, Noticed, promise, worker
  <2>3. ASSUME started, ~mishap', NEW n \in Namespaces, Settled(n, m)' PROVE FALSE
    <3>1. tracker[m] = m
      BY <1>2, <1>7, <2>1, <2>3 DEF Marked
    <3>2. live'[n] = live[n] /\ ~Stale(n)
      BY <1>0, <1>7, <2>3, SettledBefore
    <3>3. cache[n].phase = "active" /\ cache[n].proj = m
      BY <2>3, <3>2 DEF Informed, Settled
    <3>4. n \in InProject(m)
      BY <1>3, <1>7, <2>3, <3>3 DEF InProject
    <3> QED BY <2>1, <2>3, <3>1, <3>4 DEF Settled
  <2>4. m \notin Namespaces
    BY <1>7
  <2> QED BY <1>0, <1>7, <2>2, <2>3, <2>4, HandledKept
<1> QED BY <1>4, <1>5, <1>6, <1>7 DEF Handler

\* An application of q leaves those of other projects alone.
LEMMA OthersUntouched ==
    ASSUME TypeOK, NEW q \in Projects,
           Application(q) \/ BackoffEnds(q) \/ DeliverConfigMap(q) \/ Untrack(q)
    PROVE  \A p \in Projects \ {q} : Untouched(p)
<1>0. /\ step \in [Projects -> Steps] /\ orphaned \in [Projects -> BOOLEAN]
      /\ tracker \in [Projects -> Labels \cup {Untracked}] /\ configMap \in [Projects -> BOOLEAN]
  BY DEF TypeOK
<1>1. CASE CountNamespaces(q)
  <2>1. /\ step' = [step EXCEPT ![q] = "apply"]
        /\ \E b \in BOOLEAN : orphaned' = [orphaned EXCEPT ![q] = b]
        /\ UNCHANGED <<tracker, configMap, cmWatch>>
    BY <1>1 DEF CountNamespaces, cluster, informer
  <2>2. owed' = owed \ {q} /\ UNCHANGED retrying
    BY <1>1 DEF CountNamespaces, Promise!Start
  <2> QED BY <1>0, <2>1, <2>2 DEF Untouched, Owing, Noticed
<1>2. CASE ApplyNamespace(q)
  <2>1. /\ step' = [step EXCEPT ![q] = "get"] /\ orphaned' = [orphaned EXCEPT ![q] = FALSE]
        /\ UNCHANGED <<tracker, configMap, cmWatch, promise>>
    BY <1>2 DEF ApplyNamespace
  <2> QED BY <1>0, <2>1 DEF Untouched, Owing, Noticed, promise
<1>3. CASE GetNamespace(q) \/ Track(q)
  <2>1. /\ \E s \in Steps : step' = [step EXCEPT ![q] = s]
        /\ \E l \in Labels \cup {Untracked} : tracker' = [tracker EXCEPT ![q] = l]
        /\ UNCHANGED <<orphaned, configMap, cmWatch, promise>>
    <3>1. CASE GetNamespace(q)
      <4>1. tracker' = [tracker EXCEPT ![q] = tracker[q]]
        BY <1>0, <3>1 DEF GetNamespace
      <4> QED BY <1>0, <3>1, <4>1 DEF GetNamespace, cluster, informer, Steps
    <3>2. CASE Track(q)
      <4>1. found[q].proj \in Labels
        BY DEF TypeOK, Namespace
      <4> QED BY <3>2, <4>1 DEF Track, cluster, informer, Steps
    <3> QED BY <1>3, <3>1, <3>2
  <2> QED BY <1>0, <2>1 DEF Untouched, Owing, Noticed, promise
<1>4. CASE ApplyConfigMap(q)
  <2>1. /\ step' = [step EXCEPT ![q] = "finish"] /\ UNCHANGED <<orphaned, tracker, promise>>
        /\ \/ UNCHANGED <<configMap, cmWatch>>
           \/ configMap' = [configMap EXCEPT ![q] = TRUE] /\ cmWatch \subseteq cmWatch'
    BY <1>4 DEF ApplyConfigMap
  <2> QED BY <1>0, <2>1 DEF Untouched, Owing, Noticed, promise
<1>5. CASE ApplyFails(q)
  <2>1. /\ step' = [step EXCEPT ![q] = "finish"] /\ orphaned' = [orphaned EXCEPT ![q] = FALSE]
        /\ UNCHANGED <<tracker, configMap, informer>>
    BY <1>5 DEF ApplyFails
  <2>2. UNCHANGED owed /\ retrying' = retrying \cup {q}
    BY <1>5 DEF ApplyFails, Promise!Fail
  <2> QED BY <1>0, <2>1, <2>2 DEF Untouched, Owing, Noticed, informer
<1>6. CASE Finish(q)
  <2>1. step' = [step EXCEPT ![q] = "idle"] /\ UNCHANGED <<orphaned, tracker, configMap, cmWatch>>
    BY <1>6 DEF Finish, cluster, informer
  <2>2. UNCHANGED <<owed, retrying>>
    BY <1>6 DEF Finish, Promise!Finish
  <2> QED BY <1>0, <2>1, <2>2 DEF Untouched, Owing, Noticed
<1>7. CASE BackoffEnds(q)
  <2>1. UNCHANGED <<step, orphaned, tracker, configMap, cmWatch>>
    BY <1>7 DEF BackoffEnds, cluster, informer, worker
  <2>2. owed' = owed \cup {q} /\ retrying' = retrying \ {q}
    BY <1>7 DEF BackoffEnds, Promise!Retry
  <2> QED BY <2>1, <2>2 DEF Untouched, Owing, Noticed
<1>8. CASE DeliverConfigMap(q)
  <2>1. UNCHANGED <<step, orphaned, tracker, configMap, promise>> /\ cmWatch' = cmWatch \ {q}
    BY <1>8 DEF DeliverConfigMap, cluster, worker
  <2> QED BY <2>1 DEF Untouched, Owing, Noticed, promise
<1>9. CASE Untrack(q)
  <2>1. /\ tracker' = [tracker EXCEPT ![q] = Untracked]
        /\ UNCHANGED <<step, orphaned, configMap, cmWatch, promise>>
    BY <1>9 DEF Untrack, cluster, informer, worker
  <2> QED BY <1>0, <2>1 DEF Untouched, Owing, Noticed, promise
<1> QED BY <1>1, <1>2, <1>3, <1>4, <1>5, <1>6, <1>7, <1>8, <1>9 DEF Application

\* An application keeps its project in order: the count sees the namespace that is
\* settled, and a patch from an old copy leaves the event behind that made it old.
LEMMA ApplicationKept ==
    ASSUME TypeOK, Informed, Marked, ConfigMapInformed, UntrackDue, ReadBack, Kept, NEW q \in Projects,
           Application(q) \/ BackoffEnds(q) \/ DeliverConfigMap(q) \/ Untrack(q)
    PROVE  Kept'
<1> USE NamespaceTypes
<1>0. /\ live \in [Names -> Namespace] /\ cache \in [Names -> Namespace]
      /\ step \in [Projects -> Steps] /\ orphaned \in [Projects -> BOOLEAN]
      /\ tracker \in [Projects -> Labels \cup {Untracked}] /\ configMap \in [Projects -> BOOLEAN]
      /\ cmCache \in [Projects -> BOOLEAN]
      /\ (step[q] = "track" <=> found[q].phase # "absent") /\ (orphaned[q] => step[q] = "apply")
  BY DEF TypeOK
<1>1. Quietly(q) /\ queue \subseteq queue'
  BY ApplicationQuiet
<1> SUFFICES ASSUME started, ~mishap, NEW n \in Namespaces, Settled(n, q), ~mishap', Settled(n, q)'
             PROVE  InOrder(n, q)'
  BY <1>1, OthersUntouched, OneProjectKept
<1>2. /\ step[q] = "apply" /\ orphaned[q] => q \in owed \cup retrying
      /\ live[q].phase = "active" => Asked(q) \/ Sound(q)
  BY DEF Kept, InOrder
<1>3. (live'[q] = live[q] \/ Stale(q)') /\ (Stale(q) => Stale(q)')
  BY <1>1, QuietlyStale
<1>4. SUFFICES ASSUME ~(q \in owed' \cup retrying') \/ ~(step'[q] = "apply" /\ orphaned'[q])
               PROVE  /\ ~(step'[q] = "apply" /\ orphaned'[q])
                      /\ live'[q].phase = "active" => Asked(q)' \/ Sound(q)'
  BY DEF InOrder, Asked
<1>5. ASSUME q \in owed' \cup retrying' PROVE Asked(q)'
  BY <1>5 DEF Asked
<1>6. CASE CountNamespaces(q)
  <2>1. cache[n].phase = "active" /\ n \in InProject(q)
    BY NamesAssumption DEF Settled, Informed, InProject
  <2>2. orphaned' = [orphaned EXCEPT ![q] = FALSE]
    BY <1>6, <2>1 DEF CountNamespaces
  <2>3. step' = [step EXCEPT ![q] = "apply"] /\ UNCHANGED live
    BY <1>6 DEF CountNamespaces, cluster
  <2>4. ~orphaned'[q] /\ step'[q] = "apply"
    BY <1>0, <2>2, <2>3
  <2> QED BY <2>4 DEF Sound
<1>7. CASE ApplyNamespace(q)
  <2>1. /\ step[q] = "apply" /\ step' = [step EXCEPT ![q] = "get"]
        /\ UNCHANGED promise
    BY <1>7 DEF ApplyNamespace
  <2>2. step'[q] = "get"
    BY <1>0, <2>1
  <2>3. CASE q \in owed \cup retrying
    BY <1>5, <2>1, <2>2, <2>3 DEF promise
  <2>4. CASE ~orphaned[q]
    <3>1. CASE Write(q, Desired(q))
      <4>1. live'[q] = Desired(q) /\ ~live'[q].orphaned
        BY <1>0, <2>4, <3>1 DEF Write, Desired
      <4> QED BY <2>2, <4>1 DEF Sound
    <3>2. CASE Write(q, Patched(q))
      <4>1. live'[q] = Patched(q)
        BY <1>0, <3>2 DEF Write
      <4>2. Patched(q).orphaned => cache[q] # live[q]
        BY <1>0, <2>4 DEF Patched, Desired, Namespace
      <4>3. live'[q].orphaned => Stale(q)'
        BY <1>3, <4>1, <4>2 DEF Informed
      <4> QED BY <2>2, <4>3 DEF Sound, Asked
    <3>3. CASE live[q].phase = "absent" /\ UNCHANGED live
      BY <2>2, <3>3
    <3> QED BY <1>7, <3>1, <3>2, <3>3 DEF ApplyNamespace
  <2> QED BY <1>2, <2>1, <2>3, <2>4
<1>8. CASE GetNamespace(q)
  <2>1. /\ step[q] = "get" /\ step' = [step EXCEPT ![q] = "track"]
        /\ UNCHANGED <<live, watch, queue, promise>>
    BY <1>8 DEF GetNamespace, cluster, informer, handler
  <2>2. step'[q] = "track"
    BY <1>0, <2>1
  <2> QED BY <1>2, <2>1, <2>2 DEF Asked, Sound, Stale, promise
<1>9. CASE Track(q)
  <2>1. /\ step[q] = "track" /\ tracker' = [tracker EXCEPT ![q] = found[q].proj]
        /\ step' = [step EXCEPT ![q] = IF found[q].phase = "terminating" THEN "finish" ELSE "configMap"]
        /\ UNCHANGED <<live, watch, queue, promise>>
    BY <1>9 DEF Track, cluster, informer, handler
  <2>2. tracker'[q] = q
    BY <1>0, <2>1 DEF Marked
  <2>3. CASE found[q].phase = "terminating"
    <3>1. step'[q] = "finish" /\ live'[q].phase # "active"
      BY <1>0, <2>1, <2>3 DEF ReadBack
    <3> QED BY <3>1
  <2>4. CASE found[q].phase # "terminating"
    <3>1. step'[q] = "configMap"
      BY <1>0, <2>1, <2>4
    <3> QED BY <1>2, <2>1, <2>2, <3>1 DEF Asked, Sound, Stale, promise
  <2> QED BY <2>3, <2>4
<1>10. CASE ApplyConfigMap(q)
  <2>1. /\ step[q] = "configMap" /\ step' = [step EXCEPT ![q] = "finish"]
        /\ UNCHANGED <<live, watch, queue, tracker, promise>>
    BY <1>10 DEF ApplyConfigMap, handler
  <2>2. step'[q] = "finish"
    BY <1>0, <2>1
  <2>3. configMap'[q] \/ q \in cmWatch'
    <3>1. CASE cmCache[q] /\ UNCHANGED <<configMap, cmWatch>>
      BY <3>1 DEF ConfigMapInformed
    <3>2. CASE configMap' = [configMap EXCEPT ![q] = TRUE]
      BY <1>0, <3>2
    <3> QED BY <1>10, <3>1, <3>2 DEF ApplyConfigMap
  <2> QED BY <1>2, <2>1, <2>2, <2>3 DEF Asked, Sound, Stale, promise
<1>11. CASE ApplyFails(q)
  <2>1. q \in retrying' /\ step' = [step EXCEPT ![q] = "finish"]
    BY <1>11 DEF ApplyFails, Promise!Fail
  <2>2. step'[q] = "finish"
    BY <1>0, <2>1
  <2> QED BY <1>5, <2>1, <2>2
<1>12. CASE Finish(q)
  <2>1. /\ step[q] = "finish" /\ step' = [step EXCEPT ![q] = "idle"]
        /\ UNCHANGED <<live, watch, queue, tracker, configMap, cmWatch>>
    BY <1>12 DEF Finish, cluster, informer, handler
  <2>2. UNCHANGED <<owed, retrying>>
    BY <1>12 DEF Finish, Promise!Finish
  <2>3. step'[q] = "idle"
    BY <1>0, <2>1
  <2> QED BY <1>2, <2>1, <2>2, <2>3 DEF Asked, Sound, Stale
<1>13. CASE BackoffEnds(q)
  <2>1. q \in owed'
    BY <1>13 DEF BackoffEnds, Promise!Retry
  <2> QED BY <1>4, <1>5, <2>1
<1>14. CASE DeliverConfigMap(q)
  <2>1. /\ UNCHANGED <<live, watch, tracker, configMap, step, orphaned, promise>>
        /\ queue' = IF tracker[q] = Untracked THEN queue ELSE queue \cup {q}
    BY <1>14 DEF DeliverConfigMap, cluster, worker
  <2>2. ~(step'[q] = "apply" /\ orphaned'[q])
    BY <1>2, <1>4, <2>1 DEF promise
  <2>3. CASE tracker[q] # Untracked
    BY <2>1, <2>2, <2>3 DEF Asked
  <2>4. CASE tracker[q] = Untracked
    <3>1. tracker[q] # q
      BY <2>4, NamesAssumption
    <3> QED BY <1>2, <2>1, <2>2, <3>1 DEF Asked, Sound, Stale, promise
  <2> QED BY <2>3, <2>4
<1>15. CASE Untrack(q)
  <2>1. q \in untracking /\ UNCHANGED <<live, watch, queue, step, orphaned, promise>>
    BY <1>15 DEF Untrack, cluster, informer, worker
  <2>2. live[q].phase # "active" \/ Stale(q) \/ q \in queue
    BY <2>1 DEF UntrackDue
  <2>3. ~(step'[q] = "apply" /\ orphaned'[q])
    BY <1>2, <1>4, <2>1 DEF promise
  <2> QED BY <2>1, <2>2, <2>3 DEF Asked, Stale
<1> QED BY <1>6, <1>7, <1>8, <1>9, <1>10, <1>11, <1>12, <1>13, <1>14, <1>15 DEF Application

\* Whatever the step, a settled namespace keeps its project in order.
LEMMA KeptStep == RegistrationInv /\ [Next]_vars => Kept'
<1> SUFFICES ASSUME TypeOK, Informed, Marked, ConfigMapInformed, UntrackDue, ReadBack, Kept, [Next]_vars
             PROVE  Kept'
  BY DEF RegistrationInv
<1> USE NamespaceTypes
<1>1. CASE StartCaches
  <2>1. UNCHANGED live /\ Existing(live) \subseteq queue'
    BY <1>1 DEF StartCaches, cluster
  <2>2. \A p \in Projects, n \in Namespaces : ~Settled(n, p)'
    BY <2>1 DEF Existing, Settled
  <2> QED BY <2>2 DEF Kept, InOrder
<1>2. CASE Deliver
  <2>1. /\ UNCHANGED <<live, started, mishap, configMap, cmWatch, tracker, promise, worker>>
        /\ queue \subseteq queue'
    BY <1>2 DEF Deliver, cluster
  <2>2. \A m \in Names : Stale(m) => Stale(m)' \/ m \in queue'
    BY <1>2, DeliverStale
  <2> SUFFICES ASSUME started, ~mishap, NEW p \in Projects, NEW n \in Namespaces, Settled(n, p)'
               PROVE  InOrder(n, p)'
    BY <2>1 DEF Kept, InOrder
  <2>3. Settled(n, p)
    BY <2>1, <2>2 DEF Settled
  <2>4. InOrder(n, p)
    BY DEF Kept
  <2>5. Asked(p) => Asked(p)'
    BY <2>1, <2>2 DEF Asked, promise
  <2>6. Sound(p) => Sound(p)'
    BY <2>1 DEF Sound, worker
  <2> QED BY <2>1, <2>3, <2>4, <2>5, <2>6 DEF InOrder, promise, worker
<1>3. CASE started' = FALSE
  BY <1>3 DEF Kept
<1>4. CASE UNCHANGED <<cluster, informer, untracking, tracker, promise, worker>> /\ queue \subseteq queue'
  <2>1. /\ UNCHANGED <<live, watch, started, mishap, configMap, cmWatch, tracker, promise, worker>>
        /\ queue \subseteq queue'
    BY <1>4 DEF cluster, informer
  <2> SUFFICES ASSUME started, ~mishap, NEW p \in Projects, NEW n \in Namespaces, Settled(n, p)'
               PROVE  InOrder(n, p)'
    BY <2>1 DEF Kept, InOrder
  <2>2. Settled(n, p) /\ InOrder(n, p)
    BY <2>1 DEF Settled, Stale, Kept
  <2>3. Asked(p) => Asked(p)'
    BY <2>1 DEF Asked, Stale, promise
  <2>4. Sound(p) => Sound(p)'
    BY <2>1 DEF Sound, worker
  <2> QED BY <2>1, <2>2, <2>3, <2>4 DEF InOrder, promise, worker
<1>5. CASE \/ \E n \in Namespaces : UserChanges(n)
           \/ \E p \in Projects : UserDrifts(p) \/ UserDeletesConfigMap(p)
           \/ \E n \in Names : Vanish(n)
  BY <1>5, EnvironmentKept DEF Environment
<1>6. CASE \E n \in Names : Handler(n) \/ (n \in Projects /\ RegistrationChanged(n))
  BY <1>6, HandlerKept
<1>7. CASE \E p \in Projects : Application(p) \/ BackoffEnds(p) \/ DeliverConfigMap(p) \/ Untrack(p)
  BY <1>7, ApplicationKept
<1> QED BY <1>1, <1>2, <1>3, <1>4, <1>5, <1>6, <1>7, StepKinds

\* A project that is settled at rest is in order: nothing is asked any more, and no
\* application runs.
LEMMA OrderAtRest ==
    RegistrationInv /\ Quiet /\ ~mishap =>
       \A p \in Projects : InUse(p) /\ live[p].phase = "active"
          => ~live[p].orphaned /\ tracker[p] = p /\ configMap[p]
<1> SUFFICES ASSUME TypeOK, Marked, Kept, Quiet, ~mishap,
                    NEW p \in Projects, InUse(p), live[p].phase = "active"
             PROVE  ~live[p].orphaned /\ tracker[p] = p /\ configMap[p]
  BY DEF RegistrationInv
<1>1. started /\ watch = <<>> /\ cmWatch = {} /\ owed = {} /\ running = {} /\ retrying = {}
  BY DEF Quiet
<1>2. \A m \in queue : m \in Projects /\ tracker[m] = NoProject
  BY DEF Quiet, IsTracked
<1>3. queue = {}
  <2> SUFFICES ASSUME NEW m \in queue PROVE FALSE
    OBVIOUS
  <2>1. tracker[m] \in {m, Untracked} /\ tracker[m] = NoProject /\ m \in Projects
    BY <1>2 DEF Marked
  <2> QED BY <2>1, NamesAssumption
<1>4. \A m : ~Stale(m)
  BY <1>1 DEF Stale
<1>5. PICK n \in Namespaces : live[n].phase = "active" /\ live[n].proj = p
  BY DEF InUse
<1>6. Settled(n, p)
  BY <1>3, <1>4, <1>5 DEF Settled
<1>7. ~Asked(p) /\ step[p] = "idle"
  BY <1>1, <1>3, <1>4 DEF Asked, TypeOK
<1>8. Sound(p)
  BY <1>1, <1>6, <1>7 DEF Kept, InOrder
<1> QED BY <1>1, <1>7, <1>8 DEF Sound

\* The start satisfies the invariant: the caches do not run.
LEMMA RegistrationInit == Init => RegistrationInv
<1> SUFFICES ASSUME Init PROVE RegistrationInv
  OBVIOUS
<1>1. TypeOK
  BY InitType
<1>2. watch = <<>> /\ cache = live /\ started = FALSE
  BY DEF Init
<1>3. tracker = Nowhere(Untracked) /\ found = Nowhere(Absent) /\ step = Nowhere("idle")
  BY DEF Init
<1>4. \A p \in Projects : live[p].phase # "absent" => live[p].proj = p
  BY DEF Init, Absent
<1>5. Marked
  BY <1>2, <1>3, <1>4 DEF Marked, Nowhere, Absent
<1>6. Informed /\ ConfigMapInformed /\ UntrackDue /\ Kept
  BY <1>2 DEF Informed, ConfigMapInformed, UntrackDue, Kept
<1>7. ReadBack
  BY <1>3 DEF ReadBack, Nowhere
<1> QED BY <1>1, <1>5, <1>6, <1>7 DEF RegistrationInv

\* The invariant of the registration namespaces.
THEOREM RegistrationCorrect == Safe => []RegistrationInv
<1>1. RegistrationInv /\ [Next]_vars => RegistrationInv'
  <2> SUFFICES ASSUME RegistrationInv, [Next]_vars PROVE RegistrationInv'
    OBVIOUS
  <2>1. TypeOK'
    BY StepType DEF RegistrationInv
  <2>2. Informed'
    BY InformedStep DEF RegistrationInv
  <2>3. Marked'
    BY MarkedStep DEF RegistrationInv
  <2>4. ConfigMapInformed'
    BY ConfigMapStep DEF RegistrationInv
  <2>5. UntrackDue'
    BY UntrackDueStep DEF RegistrationInv
  <2>6. ReadBack'
    BY ReadBackStep DEF RegistrationInv
  <2>7. Kept'
    BY KeptStep
  <2> QED BY <2>1, <2>2, <2>3, <2>4, <2>5, <2>6, <2>7 DEF RegistrationInv
<1> QED BY <1>1, RegistrationInit, PTL DEF Safe

\* At rest no project in use is marked as orphaned, although the count and the
\* patch are made from caches (namespace/controller.go:218-293).
THEOREM NotOrphaned == Safe => []NeverOrphanedInUse
<1>1. RegistrationInv => NeverOrphanedInUse
  BY OrderAtRest DEF NeverOrphanedInUse
<1> QED BY <1>1, RegistrationCorrect, PTL

\* At rest the registration namespace of a project in use is tracked, and has its
\* ConfigMap, although a new one may be created while the old one is untracked
\* (namespace/controller.go:103-136).
THEOREM Tracked == Safe => []TrackedAtRest
<1>1. RegistrationInv => TrackedAtRest
  BY OrderAtRest DEF TrackedAtRest
<1> QED BY <1>1, RegistrationCorrect, PTL
=============================================================================
