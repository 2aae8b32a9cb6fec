----------------------- MODULE ProjectHelmChartsProofs -----------------------
(***************************************************************************)
(* The type invariant of ProjectHelmCharts, for all sets of charts.  Its   *)
(* last conjunct relates four pieces of state: a chart in the index by     *)
(* release name exists in the cache, and its registration namespace is     *)
(* tracked, unless that namespace was deleted; so among the charts whose   *)
(* registration namespaces stay, a conflict (controller.go:201-229) is     *)
(* always one with a chart that is managed.                                *)
(***************************************************************************)
EXTENDS ProjectHelmCharts, TLAPS

\* The count of what the environment does stays below its bound.
LEMMA HappensType == TypeOK /\ Happens => events' \in 0..MaxEvents
<1> SUFFICES ASSUME events \in 0..MaxEvents, Happens PROVE events' \in 0..MaxEvents
  BY DEF TypeOK
<1> QED BY ChartsAssumption DEF Happens

\* What Write does to a chart.
LEMMA WriteType ==
    ASSUME TypeOK, NEW c \in Charts, NEW obj \in Chart, Write(c, obj)
    PROVE  chart' \in [Charts -> Chart] /\ watch' \subseteq Charts
  BY DEF TypeOK, Write

\* What a change of the owner does to the HelmChart.
LEMMA OwnerType ==
    ASSUME TypeOK, NEW o \in Owners, SetOwner(o)
    PROVE  /\ helm' \in [owner : Owners, installed : BOOLEAN]
           /\ dashboard' \in BOOLEAN /\ helmWatch' \subseteq Charts
<1>1. helm.owner \in Owners /\ helm.installed \in BOOLEAN
  BY DEF TypeOK
<1>2. helm' \in [owner : Owners, installed : BOOLEAN]
  BY <1>1 DEF SetOwner
<1>3. dashboard' \in BOOLEAN
  BY DEF SetOwner, TypeOK
<1>4. helmWatch' \subseteq Charts
  BY <1>1 DEF SetOwner, TypeOK, Owners
<1> QED BY <1>2, <1>3, <1>4

\* What the ConfigMap enqueues.
LEMMA WokenType ==
    ASSUME TypeOK PROVE Woken \subseteq Charts
  BY DEF TypeOK, Woken

\* What an apply does to the HelmChart.
LEMMA ApplyHelmType ==
    ASSUME TypeOK, NEW c \in Charts, ApplyHelm(c)
    PROVE  /\ helm' \in [owner : Owners, installed : BOOLEAN]
           /\ dashboard' \in BOOLEAN /\ helmWatch' \subseteq Charts
<1>1. CASE UNCHANGED <<helm, helmWatch, dashboard>>
  BY <1>1 DEF TypeOK
<1>2. CASE SetOwner(IF plan[c].helm THEN c ELSE NoOwner)
  BY <1>2, OwnerType DEF Owners
<1> QED BY <1>1, <1>2 DEF ApplyHelm

\* What a decision does to the handler of a chart.
LEMMA GoesOnType ==
    ASSUME TypeOK, NEW c \in Charts, NEW next \in {"idle", "apply", "remove"}, NEW p \in Plan,
           GoesOn(c, next, p)
    PROVE  TypeOK'
<1>1. [p EXCEPT !.read = cache[c]] \in Plan
  BY DEF TypeOK, Plan
<1>2. plan' \in [Charts -> Plan]
  BY <1>1 DEF GoesOn, TypeOK
<1>3. step' \in [Charts -> {"idle", "apply", "remove"}] /\ queue' \subseteq Charts
  BY DEF GoesOn, TypeOK
<1> QED BY <1>2, <1>3 DEF GoesOn, TypeOK, cluster, informer

\* What is left of a handler that is over.
LEMMA ReturnsType ==
    ASSUME TypeOK, NEW c \in Charts, NEW b \in BOOLEAN, Returns(c, b)
    PROVE  /\ step' \in [Charts -> {"idle", "apply", "remove"}]
           /\ plan' \in [Charts -> Plan] /\ queue' \subseteq Charts
<1>1. Nothing \in Plan
  BY DEF Nothing, Plan, Gone, Chart, Statuses, Unable
<1>2. Woken \subseteq Charts
  BY WokenType
<1>3. queue' \subseteq Charts
  BY <1>2 DEF Returns, TypeOK
<1> QED BY <1>1, <1>3 DEF Returns, TypeOK

-----------------------------------------------------------------------------

\* A record of a chart in the cluster, changed as the code and its users change it.
LEMMA ChartTypes ==
    ASSUME NEW x \in Chart
    PROVE  /\ Gone \in Chart /\ Fresh \in Chart
           /\ [x EXCEPT !.cleanup = ~x.cleanup] \in Chart
           /\ [x EXCEPT !.phase = "deleting"] \in Chart
           /\ \A s \in Statuses : [x EXCEPT !.status = s] \in Chart
  BY DEF Gone, Fresh, Chart, Statuses, Unable

\* What OnChange may decide.
LEMMA PlanTypes ==
    ASSUME NEW n \in {"none", "used", "orphaned"}, NEW h \in BOOLEAN, NEW s \in Statuses
    PROVE  [[[Nothing EXCEPT !.ns = n] EXCEPT !.helm = h] EXCEPT !.status = s] \in Plan
  BY DEF Nothing, Plan, Gone, Chart, Statuses, Unable

\* At the start the cache has all charts, and the index lists them.
LEMMA InitType == Init => TypeOK
<1> SUFFICES ASSUME Init PROVE TypeOK
  OBVIOUS
<1>1. Fresh \in Chart /\ Nothing \in Plan
  BY DEF Fresh, Nothing, Plan, Gone, Chart, Statuses, Unable
<1>2. chart \in [Charts -> Chart] /\ plan \in [Charts -> Plan]
  BY <1>1 DEF Init
<1>3. \A c \in Charts : cache[c].phase # "absent"
  BY DEF Init, Fresh, Gone
<1>4. 0 \in 0..MaxEvents
  BY ChartsAssumption
<1> QED BY <1>2, <1>3, <1>4 DEF Init, TypeOK, Owners, Registration

\* The steps of the users, one by one.
LEMMA UsersType == TypeOK /\ Users => TypeOK'
<1> SUFFICES ASSUME TypeOK, Users PROVE TypeOK'
  OBVIOUS
<1>1. ASSUME NEW c \in Charts, UserChanges(c) PROVE TypeOK'
  <2>1. [chart[c] EXCEPT !.cleanup = ~chart[c].cleanup] \in Chart
    BY ChartTypes DEF TypeOK
  <2>2. chart' \in [Charts -> Chart] /\ watch' \subseteq Charts
    BY <1>1, <2>1, WriteType DEF UserChanges
  <2> QED BY <1>1, <2>2, HappensType DEF UserChanges, TypeOK, handler
<1>2. ASSUME NEW c \in Charts, UserDeletes(c) PROVE TypeOK'
  <2>1. [chart[c] EXCEPT !.phase = "deleting"] \in Chart
    BY ChartTypes DEF TypeOK
  <2>2. chart' \in [Charts -> Chart] /\ watch' \subseteq Charts
    BY <1>2, <2>1, WriteType DEF UserDeletes
  <2> QED BY <1>2, <2>2, HappensType DEF UserDeletes, TypeOK, handler
<1>3. ASSUME NEW c \in Charts, UserMovesNamespaces(c) PROVE TypeOK'
  <2>1. queue' \subseteq Charts
    BY <1>3 DEF UserMovesNamespaces, Reapplied, Enqueued, TypeOK
  <2> QED BY <1>3, <2>1, HappensType DEF UserMovesNamespaces, TypeOK, informer
<1>4. ASSUME UserDeletesNamespace PROVE TypeOK'
  <2>1. queue' \subseteq Charts
    BY <1>4, WokenType DEF UserDeletesNamespace, SetDashboard, TypeOK
  <2> QED BY <1>4, <2>1, HappensType DEF UserDeletesNamespace, SetDashboard, TypeOK, informer
<1>5. ASSUME NEW c \in Charts, UserDeletesRegistration(c) PROVE TypeOK'
  <2>1. reg' \in [Charts -> Registration] /\ \A d \in Charts : reg'[d] = "active" => reg[d] = "active"
    BY <1>5 DEF UserDeletesRegistration, TypeOK, Registration
  <2> QED BY <1>5, <2>1, HappensType DEF UserDeletesRegistration, TypeOK, informer, handler
<1> QED BY ChartsAssumption, <1>1, <1>2, <1>3, <1>4, <1>5 DEF Users

\* The steps of Kubernetes and of the Helm controller.
LEMMA KubernetesType == TypeOK /\ Kubernetes => TypeOK'
<1> SUFFICES ASSUME TypeOK, Kubernetes PROVE TypeOK'
  OBVIOUS
<1>1. CASE HelmInstalls
  <2>1. queue' \subseteq Charts
    BY <1>1, WokenType DEF HelmInstalls, SetDashboard, TypeOK
  <2>2. helm' \in [owner : Owners, installed : BOOLEAN]
    BY <1>1 DEF HelmInstalls, TypeOK
  <2> QED BY <1>1, <2>1, <2>2 DEF HelmInstalls, SetDashboard, TypeOK, informer
<1>2. ASSUME NEW c \in Charts, EmptiesRegistration(c) PROVE TypeOK'
  <2>1. (IF chart[c].status = "" THEN Gone ELSE [chart[c] EXCEPT !.phase = "deleting"]) \in Chart
    BY ChartTypes DEF TypeOK
  <2>2. chart' \in [Charts -> Chart] /\ watch' \subseteq Charts
    BY <1>2, <2>1, WriteType DEF EmptiesRegistration
  <2> QED BY <1>2, <2>2 DEF EmptiesRegistration, TypeOK, handler
<1>3. ASSUME NEW c \in Charts, RegistrationGoes(c) PROVE TypeOK'
  <2>1. reg' \in [Charts -> Registration] /\ \A d \in Charts : reg'[d] = "active" => reg[d] = "active"
    BY <1>3 DEF RegistrationGoes, TypeOK, Registration
  <2> QED BY <1>3, <2>1 DEF RegistrationGoes, TypeOK, informer, handler
<1> QED BY <1>1, <1>2, <1>3 DEF Kubernetes

\* The steps of the informers, and of the namespace controller.
LEMMA InformersType ==
    TypeOK /\ (Informers \/ \E c \in Charts : Track(c) \/ Untrack(c)) => TypeOK'
<1> SUFFICES ASSUME TypeOK, Informers \/ \E c \in Charts : Track(c) \/ Untrack(c) PROVE TypeOK'
  OBVIOUS
<1>1. ASSUME StartCaches PROVE TypeOK'
  BY <1>1 DEF StartCaches, Present, Owners, TypeOK, cluster
<1>2. ASSUME DeliverHelm PROVE TypeOK'
  BY <1>2 DEF DeliverHelm, TypeOK, cluster
<1>3. ASSUME NEW c \in Charts, DeliverChart(c) PROVE TypeOK'
  <2>1. cache' \in [Charts -> Chart] /\ watch' \subseteq Charts /\ queue' \subseteq Charts
    BY <1>3 DEF DeliverChart, TypeOK
  <2>2. \A d \in Charts : cache'[d] = IF d = c THEN chart[c] ELSE cache[d]
    BY <1>3 DEF DeliverChart, TypeOK
  <2>3. indexed' \subseteq Charts
    BY <1>3 DEF DeliverChart, TypeOK
  <2>4. \A d \in indexed' : reg[d] = "active" => d \in tracked /\ cache'[d].phase # "absent"
    BY <1>3, <2>2 DEF DeliverChart, Managed, Present, TypeOK
  <2> QED BY <1>3, <2>1, <2>3, <2>4 DEF DeliverChart, TypeOK, cluster
<1>4. ASSUME NEW c \in Charts, Track(c) PROVE TypeOK'
  BY <1>4 DEF Track, Enqueued, TypeOK, cluster, informer
<1>5. ASSUME NEW c \in Charts, Untrack(c) PROVE TypeOK'
  <2>1. reg' \in [Charts -> Registration]
    BY <1>5 DEF Untrack, TypeOK, Registration
  <2>2. \A d \in Charts : reg'[d] = "active" => reg[d] = "active" /\ (d \in tracked => d \in tracked')
    BY <1>5 DEF Untrack, TypeOK
  <2> QED BY <1>5, <2>1, <2>2 DEF Untrack, TypeOK, informer, handler
<1> QED BY <1>1, <1>2, <1>3, <1>4, <1>5 DEF Informers

\* What a decision of OnChange does to its state.
LEMMA DecidesType ==
    ASSUME TypeOK, NEW c \in Charts, NEW p \in Plan, Decides(c, p)
    PROVE  TypeOK'
  BY GoesOnType DEF Decides

\* The steps of a handler, one by one.
LEMMA HandlerType == ASSUME NEW c \in Charts, TypeOK, Handler(c) PROVE TypeOK'
<1>1. CASE NotManaged(c)
  <2>1. cache[c].status \in Statuses
    BY DEF TypeOK, Chart
  <2>2. [Nothing EXCEPT !.status = cache[c].status] \in Plan
    BY <2>1 DEF Nothing, Plan, Gone, Chart, Statuses, Unable
  <2> QED BY <1>1, <2>2, DecidesType DEF NotManaged
<1>2. CASE CleansUp(c)
  <2>1. [Nothing EXCEPT !.status = "AwaitingOperatorRedeployment"] \in Plan
    BY DEF Nothing, Plan, Gone, Chart, Statuses, Unable
  <2> QED BY <1>2, <2>1, DecidesType DEF CleansUp
<1>3. CASE Yields(c)
  <2>1. [Nothing EXCEPT !.status = "AlreadyTracked"] \in Plan
    BY DEF Nothing, Plan, Gone, Chart, Statuses, Unable
  <2> QED BY <1>3, <2>1, DecidesType DEF Yields
<1>4. CASE HasNoTargets(c)
  <2>1. [Nothing EXCEPT !.ns = "orphaned", !.status = "NoTargetProjectNamespaces"] \in Plan
    BY DEF Nothing, Plan, Gone, Chart, Statuses, Unable
  <2> QED BY <1>4, <2>1, DecidesType DEF HasNoTargets
<1>5. CASE NeedsNamespace(c)
  <2>1. [Nothing EXCEPT !.ns = "used", !.status = "NoReleaseNamespace"] \in Plan
    BY DEF Nothing, Plan, Gone, Chart, Statuses, Unable
  <2> QED BY <1>5, <2>1, DecidesType DEF NeedsNamespace
<1>6. CASE Deploys(c)
  <2> DEFINE status == IF dashboard THEN "Deployed" ELSE "WaitingForDashboardValues"
  <2>1. [Nothing EXCEPT !.ns = "used", !.helm = TRUE, !.status = status] \in Plan
    BY DEF Nothing, Plan, Gone, Chart, Statuses, Unable
  <2> QED BY <1>6, <2>1, DecidesType DEF Deploys
<1>7. CASE Apply(c)
  <2>1. plan[c] \in Plan
    BY DEF TypeOK
  <2>2. relNs' \in {"absent", "used", "orphaned"}
    BY <1>7, <2>1 DEF Apply, TypeOK, Plan
  <2>3. /\ helm' \in [owner : Owners, installed : BOOLEAN]
        /\ dashboard' \in BOOLEAN /\ helmWatch' \subseteq Charts
    BY <1>7, ApplyHelmType DEF Apply
  <2>4. [chart[c] EXCEPT !.status = plan[c].status] \in Chart
    BY <2>1, ChartTypes DEF TypeOK, Plan
  <2>5. chart' \in [Charts -> Chart] /\ watch' \subseteq Charts
    <3>1. CASE UNCHANGED <<chart, watch>>
      BY <3>1 DEF TypeOK
    <3>2. CASE Write(c, [chart[c] EXCEPT !.status = plan[c].status])
      BY <3>2, <2>4, WriteType
    <3> QED BY <1>7, <3>1, <3>2 DEF Apply, UpdateStatus
  <2>6. Refused(c) \in BOOLEAN
    BY DEF Refused
  <2>7. /\ step' \in [Charts -> {"idle", "apply", "remove"}]
        /\ plan' \in [Charts -> Plan] /\ queue' \subseteq Charts
    BY <1>7, <2>6, ReturnsType DEF Apply
  <2> QED BY <1>7, <2>2, <2>3, <2>5, <2>7 DEF Apply, TypeOK
<1>8. CASE BeginsRemoval(c)
  <2>1. Nothing \in Plan
    BY DEF Nothing, Plan, Gone, Chart, Statuses, Unable
  <2>2. (IF Managed(c) THEN "remove" ELSE "idle") \in {"idle", "apply", "remove"}
    OBVIOUS
  <2> QED BY <1>8, <2>1, <2>2, GoesOnType DEF BeginsRemoval
<1>9. CASE Remove(c)
  <2>1. Gone \in Chart
    BY DEF Gone, Chart, Statuses, Unable
  <2>2. chart' \in [Charts -> Chart] /\ watch' \subseteq Charts
    <3>1. CASE UNCHANGED <<chart, watch>>
      BY <3>1 DEF TypeOK
    <3>2. CASE Write(c, Gone)
      BY <3>2, <2>1, WriteType
    <3> QED BY <1>9, <3>1, <3>2 DEF Remove
  <2>3. /\ step' \in [Charts -> {"idle", "apply", "remove"}]
        /\ plan' \in [Charts -> Plan] /\ queue' \subseteq Charts
    BY <1>9, ReturnsType DEF Remove
  <2> QED BY <1>9, <2>2, <2>3 DEF Remove, TypeOK
<1>10. CASE Prune(c)
  <2>1. /\ helm' \in [owner : Owners, installed : BOOLEAN]
        /\ dashboard' \in BOOLEAN /\ helmWatch' \subseteq Charts
    <3>1. CASE UNCHANGED <<helm, helmWatch, dashboard>>
      BY <3>1 DEF TypeOK
    <3>2. CASE SetOwner(NoOwner)
      BY <3>2, OwnerType DEF Owners
    <3> QED BY <1>10, <3>1, <3>2 DEF Prune
  <2>2. queue' \subseteq Charts
    BY <1>10, WokenType DEF Prune, TypeOK
  <2> QED BY <1>10, <2>1, <2>2 DEF Prune, TypeOK
<1>11. CASE ApplyFails(c)
  <2>1. relNs' \in {"absent", "used", "orphaned"}
    BY <1>11 DEF ApplyFails, TypeOK, Plan
  <2>2. /\ helm' \in [owner : Owners, installed : BOOLEAN]
        /\ dashboard' \in BOOLEAN /\ helmWatch' \subseteq Charts
    <3>1. CASE UNCHANGED <<helm, helmWatch, dashboard>>
      BY <3>1 DEF TypeOK
    <3>2. CASE ApplyHelm(c)
      BY <3>2, ApplyHelmType
    <3> QED BY <1>11, <3>1, <3>2 DEF ApplyFails
  <2>3. /\ step' \in [Charts -> {"idle", "apply", "remove"}]
        /\ plan' \in [Charts -> Plan] /\ queue' \subseteq Charts
    BY <1>11, ReturnsType DEF ApplyFails
  <2> QED BY <1>11, <2>1, <2>2, <2>3, HappensType DEF ApplyFails, TypeOK
<1> QED BY <1>1, <1>2, <1>3, <1>4, <1>5, <1>6, <1>7, <1>8, <1>9, <1>10, <1>11 DEF Handler

\* A restart forgets all that the operator had in memory.
LEMMA RestartType == TypeOK /\ (Restart \/ Panics) => TypeOK'
<1> SUFFICES ASSUME TypeOK, Restarted, Happens \/ UNCHANGED events PROVE TypeOK'
  BY DEF Restart, Panics
<1>1. Gone \in Chart /\ Nothing \in Plan
  BY DEF Nothing, Plan, Gone, Chart, Statuses, Unable
<1>2. cache' \in [Charts -> Chart] /\ plan' \in [Charts -> Plan]
  BY <1>1 DEF Restarted
<1>3. step' \in [Charts -> {"idle", "apply", "remove"}]
  BY DEF Restarted
<1>4. ASSUME NEW x \in Chart, NEW b PROVE [x EXCEPT !.cleanup = x.cleanup /\ ~b] \in Chart
  BY DEF Chart
<1>5. chart' \in [Charts -> Chart]
  BY <1>4 DEF Restarted, Relabelled, TypeOK
<1>6. reg' \in [Charts -> Registration]
  BY DEF Restarted, TypeOK, Registration
<1>7. events' \in 0..MaxEvents
  BY HappensType DEF TypeOK
<1> QED BY <1>2, <1>3, <1>5, <1>6, <1>7 DEF Restarted, Owners, TypeOK

\* Every step keeps the types, and the index to charts that exist and are tracked.
LEMMA NextType == TypeOK /\ [Next]_vars => TypeOK'
<1> SUFFICES ASSUME TypeOK, [Next]_vars PROVE TypeOK'
  OBVIOUS
<1>1. CASE Users
  BY <1>1, UsersType
<1>2. CASE Kubernetes
  BY <1>2, KubernetesType
<1>3. CASE Informers \/ \E c \in Charts : Track(c) \/ Untrack(c)
  BY <1>3, InformersType
<1>4. CASE Resync
  <2>1. indexed' \subseteq Charts /\ queue' \subseteq Charts
    BY <1>4 DEF Resync, Present, Owners, TypeOK
  <2>2. \A d \in indexed' : reg[d] = "active" => d \in tracked /\ cache[d].phase # "absent"
    BY <1>4 DEF Resync, Managed, TypeOK
  <2> QED BY <1>4, <2>1, <2>2 DEF Resync, TypeOK, cluster
<1>5. CASE \E c \in Charts : Handler(c)
  BY <1>5, HandlerType
<1>6. CASE Restart \/ Panics
  BY <1>6, RestartType
<1>7. CASE UNCHANGED vars
  BY <1>7 DEF vars, cluster, informer, handler, TypeOK
<1> QED BY <1>1, <1>2, <1>3, <1>4, <1>5, <1>6, <1>7 DEF Next, Operator

\* The types, and that of the charts whose registration namespace stays, the index by
\* release name (indexers.go:67-74) lists only those that exist in the cache and whose
\* registration namespace is tracked.
THEOREM TypeCorrect == Spec => []TypeOK
  BY InitType, NextType, PTL DEF Spec, Safe
=============================================================================
