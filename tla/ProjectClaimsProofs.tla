------------------------- MODULE ProjectClaimsProofs -------------------------
(***************************************************************************)
(* Who claims the release: OneClaim and OwnerClaims, for all sets of       *)
(* charts.  Both are about states at rest, and the invariant says what     *)
(* holds before.  Of two charts that claim the release, each in the cache  *)
(* and in the index, one at least is queued, has an event on its way, or   *)
(* is about to give up its claim: whichever of them is handled last sees   *)
(* the other one (OneStands).  The owner of the HelmChart will be handled  *)
(* again, is being handled, says in its status that it is the owner, or is *)
(* to go with its registration namespace (Owned).                          *)
(***************************************************************************)
EXTENDS ProjectHelmChartsProofs

\* What a chart that claims the release says, and one that has applied it.
Names  == {"NoTargetProjectNamespaces", "WaitingForDashboardValues", "Deployed"}
Serves == {"WaitingForDashboardValues", "Deployed"}

\* Before the informers have started there is nothing for a handler to decide from.
Asleep == ~started => indexed = {} /\ \A c \in Charts : cache[c] = Gone /\ step[c] = "idle"

\* The informer has c as it is, unless an event of it is on its way.
Informed(c) == started /\ c \notin watch => cache[c] = chart[c]

\* A handler whose chart is not queued again was called with what the cache has still.
ReadFresh(c) == step[c] # "idle" /\ c \notin queue => plan[c].read = cache[c]

\* What is applied was decided for a live chart, and a HelmChart is applied only with
\* a status that says so; what is removed was being deleted.
PlanSound(c) ==
    /\ step[c] = "apply" => /\ plan[c].read.phase = "live"
                            /\ plan[c].helm => plan[c].status \in Serves
    /\ step[c] = "remove" => plan[c].read.phase = "deleting"

\* c will be handled again, or is being handled.
Owed(c) == \/ c \in queue \cup watch
           \/ c \notin tracked /\ cache[c].phase # "absent"
           \/ step[c] # "idle"

\* A registration namespace that has gone has left nothing behind.
Emptied == \A c \in Charts : reg[c] = "gone" => chart[c].phase = "absent"

\* c is to be deleted with its registration namespace, or has its finalizer left.
Leaving(c) == Closing(c) /\ chart[c].phase # "absent"

\* The owner of the HelmChart has an event of the HelmChart on its way, or else the
\* cache knows it, and it will be handled again unless it says that it is the owner, or
\* is to go with its registration namespace.
Owned(c) == started /\ helm.owner = c =>
    \/ c \in helmWatch
    \/ /\ helmCache = c
       /\ \/ Owed(c)
          \/ chart[c].phase = "live" /\ chart[c].status \in Serves
          \/ Leaving(c)

ChartInv(c) == Informed(c) /\ ReadFresh(c) /\ PlanSound(c) /\ Owned(c)

\* c is known to claim the release, and nothing is under way that could change this.
Stands(c) ==
    /\ reg[c] = "active"
    /\ c \in indexed /\ c \notin watch /\ c \notin queue
    /\ cache[c].phase = "live" /\ cache[c].status \in Names
    /\ step[c] = "apply" => plan[c].status \in Names

OneStands == \A c, d \in Charts : Stands(c) /\ Stands(d) => c = d

ClaimInv == Asleep /\ OneStands /\ \A c \in Charts : ChartInv(c)

-----------------------------------------------------------------------------
(* Steps that leave a chart alone *)

\* The handler and the copy of c stay as they are, and whatever else happens to c is
\* noticed: it has an event on its way, or c is queued.
Keeps(c) ==
    /\ started' = started /\ cache'[c] = cache[c]
    /\ step'[c] = step[c] /\ plan'[c] = plan[c]
    /\ c \in queue => c \in queue'
    /\ c \in watch => c \in watch'
    /\ c \notin watch' => chart'[c] = chart[c]
    /\ c \in indexed' => c \in indexed
    /\ reg'[c] = "active" => reg[c] = "active"
    /\ Closing(c) => Closing(c)' \/ chart'[c].phase = "absent"
    /\ c \notin tracked /\ cache[c].phase # "absent"
          => c \notin tracked' \/ c \in queue' \/ Closing(c)'
    /\ helmCache' = helmCache
    /\ c \in helmWatch => c \in helmWatch'
    /\ helm'.owner = c => helm.owner = c \/ c \in helmWatch'

\* Then the invariant of c is kept, and c does not begin to stand by its claim.
LEMMA KeepsInv ==
    ASSUME NEW c \in Charts, ChartInv(c), Keeps(c)
    PROVE  ChartInv(c)' /\ (Stands(c)' => Stands(c))
<1>1. Informed(c)'
  BY DEF ChartInv, Informed, Keeps
<1>2. ReadFresh(c)'
  BY DEF ChartInv, ReadFresh, Keeps
<1>3. PlanSound(c)'
  BY DEF ChartInv, PlanSound, Keeps
<1>4. Owned(c)'
  <2> DEFINE serves == chart[c].phase = "live" /\ chart[c].status \in Serves
  <2> SUFFICES ASSUME started', helm'.owner = c, c \notin helmWatch'
               PROVE  helmCache' = c /\ (Owed(c)' \/ serves' \/ Leaving(c)')
    BY DEF Owned
  <2>1. started /\ helm.owner = c /\ c \notin helmWatch
    BY DEF Keeps
  <2>2. helmCache = c /\ (Owed(c) \/ serves \/ Leaving(c))
    BY <2>1 DEF ChartInv, Owned
  <2>3. CASE c \in watch'
    BY <2>2, <2>3 DEF Owed, Keeps
  <2>4. CASE c \notin watch'
    <3>1. chart'[c] = chart[c] /\ cache'[c] = chart'[c] /\ cache'[c] = cache[c]
      BY <1>1, <2>4 DEF Informed, Keeps
    <3>2. CASE Owed(c)
      BY <2>2, <3>1, <3>2 DEF Owed, Leaving, Keeps
    <3>3. CASE serves
      BY <2>2, <3>1, <3>3 DEF Keeps
    <3>4. CASE Leaving(c)
      BY <2>2, <3>1, <3>4 DEF Leaving, Keeps
    <3> QED BY <2>2, <3>2, <3>3, <3>4
  <2> QED BY <2>3, <2>4
<1>5. Stands(c)' => Stands(c)
  BY DEF Stands, Keeps
<1> QED BY <1>1, <1>2, <1>3, <1>4, <1>5 DEF ChartInv

\* Steps that leave all charts alone.
LEMMA AllKept ==
    ASSUME ClaimInv, Asleep', \A c \in Charts : Keeps(c)
    PROVE  ClaimInv'
<1>1. \A c \in Charts : ChartInv(c)' /\ (Stands(c)' => Stands(c))
  BY KeepsInv DEF ClaimInv
<1> QED BY <1>1 DEF ClaimInv, OneStands

\* Steps that leave all charts but one alone: that one may begin to stand by its claim
\* when no other one does.
LEMMA OthersKept ==
    ASSUME ClaimInv, Asleep', NEW c \in Charts, ChartInv(c)',
           Stands(c)' => Stands(c) \/ \A d \in Charts \ {c} : ~Stands(d),
           \A d \in Charts \ {c} : Keeps(d)
    PROVE  ClaimInv'
<1>1. \A d \in Charts \ {c} : ChartInv(d)' /\ (Stands(d)' => Stands(d))
  BY KeepsInv DEF ClaimInv
<1>2. OneStands'
  BY <1>1 DEF ClaimInv, OneStands
<1> QED BY <1>1, <1>2 DEF ClaimInv

\* What a change of a chart leaves alone.
LEMMA WriteKeeps ==
    ASSUME TypeOK, NEW c \in Charts, NEW obj, Write(c, obj)
    PROVE  /\ watch \subseteq watch'
           /\ \A d \in Charts : d \notin watch' => chart'[d] = chart[d]
  BY DEF TypeOK, Write

\* A new owner of the HelmChart has an event on its way.
LEMMA OwnerKeeps ==
    ASSUME NEW o \in Owners, SetOwner(o), NEW d \in Charts
    PROVE  /\ d \in helmWatch => d \in helmWatch'
           /\ helm'.owner = d => helm.owner = d \/ d \in helmWatch'
           /\ helm'.owner = o
<1>1. d # NoOwner
  BY ChartsAssumption
<1> QED BY <1>1 DEF SetOwner

-----------------------------------------------------------------------------
(* The users, the Helm controller and the namespace controller *)

\* The steps of the others leave the handlers and their copies alone.
LEMMA OutsideClaims ==
    ASSUME TypeOK, ClaimInv, Users \/ Kubernetes \/ \E c \in Charts : Track(c) \/ Untrack(c)
    PROVE  ClaimInv'
<1> USE DEF handler, informer
<1>1. ASSUME NEW c \in Charts, NEW obj, Write(c, obj),
             UNCHANGED <<reg, helm, started, cache, indexed, helmCache, helmWatch, tracked, handler>>
      PROVE  ClaimInv'
  <2>1. Asleep'
    BY <1>1 DEF ClaimInv, Asleep
  <2>2. \A d \in Charts : Keeps(d)
    BY <1>1, WriteKeeps DEF Keeps, Closing
  <2> QED BY <2>1, <2>2, AllKept
<1>2. ASSUME NEW c \in Charts, UserChanges(c) PROVE ClaimInv'
  BY <1>1, <1>2 DEF UserChanges
<1>3. ASSUME NEW c \in Charts, UserDeletes(c) PROVE ClaimInv'
  BY <1>1, <1>3 DEF UserDeletes
<1>4. ASSUME UNCHANGED <<chart, informer, step, plan>>, helm'.owner = helm.owner,
             queue \subseteq queue',
             \A d \in Charts :
                /\ reg'[d] = "active" => reg[d] = "active"
                /\ Closing(d) => Closing(d)' \/ chart[d].phase = "absent"
                /\ d \in tracked' \ tracked /\ cache[d].phase # "absent"
                      => d \in queue' \/ Closing(d)'
      PROVE  ClaimInv'
  <2>1. Asleep'
    BY <1>4 DEF ClaimInv, Asleep
  <2>2. \A d \in Charts : Keeps(d)
    BY <1>4 DEF Keeps
  <2> QED BY <2>1, <2>2, AllKept
<1>5. ASSUME NEW c \in Charts, UserMovesNamespaces(c) PROVE ClaimInv'
  <2>1. queue \subseteq queue'
    BY <1>5 DEF UserMovesNamespaces, Reapplied, Enqueued
  <2> QED BY <1>4, <1>5, <2>1 DEF UserMovesNamespaces, Closing
<1>6. ASSUME UserDeletesNamespace PROVE ClaimInv'
  BY <1>4, <1>6 DEF UserDeletesNamespace, SetDashboard, Closing
<1>7. ASSUME HelmInstalls PROVE ClaimInv'
  <2>1. helm'.owner = helm.owner
    BY <1>7 DEF HelmInstalls, TypeOK
  <2> QED BY <1>4, <1>7, <2>1 DEF HelmInstalls, SetDashboard, Closing
<1>8. ASSUME NEW c \in Charts, Track(c) PROVE ClaimInv'
  <2>1. \A d \in Charts : d \in tracked' \ tracked /\ cache[d].phase # "absent"
                         => d \in queue' \/ Closing(d)'
    BY <1>8 DEF Track, Enqueued, Closing, TypeOK, Registration, cluster
  <2>2. queue \subseteq queue'
    BY <1>8 DEF Track, Enqueued
  <2> QED BY <1>4, <1>8, <2>1, <2>2 DEF Track, Closing, cluster
<1>9. ASSUME NEW c \in Charts, UserDeletesRegistration(c) PROVE ClaimInv'
  <2>1. \A d \in Charts : /\ reg'[d] = "active" => reg[d] = "active"
                         /\ Closing(d) => Closing(d)'
    BY <1>9 DEF UserDeletesRegistration, Closing, TypeOK
  <2> QED BY <1>4, <1>9, <2>1 DEF UserDeletesRegistration
<1>10. ASSUME NEW c \in Charts, EmptiesRegistration(c) PROVE ClaimInv'
  BY <1>1, <1>10 DEF EmptiesRegistration
<1>11. ASSUME NEW c \in Charts, RegistrationGoes(c) PROVE ClaimInv'
  <2>1. \A d \in Charts : /\ reg'[d] = "active" => reg[d] = "active"
                         /\ Closing(d) => Closing(d)' \/ chart[d].phase = "absent"
    BY <1>11 DEF RegistrationGoes, Closing, TypeOK
  <2> QED BY <1>4, <1>11, <2>1 DEF RegistrationGoes
<1>12. ASSUME NEW c \in Charts, Untrack(c) PROVE ClaimInv'
  <2>1. \A d \in Charts : /\ reg'[d] = "active" => reg[d] = "active"
                         /\ Closing(d) => Closing(d)'
    BY <1>12 DEF Untrack, Closing, TypeOK
  <2> QED BY <1>4, <1>12, <2>1 DEF Untrack
<1> QED BY ChartsAssumption, <1>2, <1>3, <1>5, <1>6, <1>7, <1>8, <1>9, <1>10, <1>11, <1>12
        DEF Users, Kubernetes

-----------------------------------------------------------------------------
(* The informers, resyncs and restarts *)

\* A chart that was delivered is queued, and so cannot stand by its claim.
LEMMA DeliverChartClaims ==
    ASSUME TypeOK, ClaimInv, NEW c \in Charts, DeliverChart(c)
    PROVE  ClaimInv'
<1>1. Asleep'
  BY DEF DeliverChart, Asleep
<1>2. \A d \in Charts \ {c} : Keeps(d)
  BY DEF DeliverChart, Keeps, Closing, TypeOK, cluster
<1>3. c \in queue' /\ cache'[c] = chart'[c]
  BY DEF DeliverChart, TypeOK, cluster
<1>4. PlanSound(c)'
  BY DEF ClaimInv, ChartInv, PlanSound, DeliverChart
<1>5. Owned(c)'
  BY <1>3 DEF ClaimInv, ChartInv, Owned, Owed, DeliverChart, cluster
<1>6. ChartInv(c)' /\ ~Stands(c)'
  BY <1>3, <1>4, <1>5 DEF ChartInv, Informed, ReadFresh, Stands
<1> QED BY <1>1, <1>2, <1>6, OthersKept

\* All who were to hear of the HelmChart are queued.
LEMMA DeliverHelmClaims ==
    ASSUME TypeOK, ClaimInv, DeliverHelm
    PROVE  ClaimInv'
<1>1. Asleep'
  BY DEF DeliverHelm, ClaimInv, Asleep
<1>2. ASSUME NEW c \in Charts PROVE ChartInv(c)' /\ (Stands(c)' => Stands(c))
  <2>1. Informed(c)' /\ ReadFresh(c)' /\ PlanSound(c)'
    BY DEF ClaimInv, ChartInv, Informed, ReadFresh, PlanSound, DeliverHelm, cluster
  <2>2. Owned(c)'
    BY DEF ClaimInv, ChartInv, Owned, Owed, Leaving, Closing, DeliverHelm, cluster
  <2>3. Stands(c)' => Stands(c)
    BY DEF Stands, DeliverHelm, cluster
  <2> QED BY <2>1, <2>2, <2>3 DEF ChartInv
<1> QED BY <1>1, <1>2 DEF ClaimInv, OneStands

\* What a start and a resync have in common: what is in the index is queued, so that
\* nobody stands by a claim, and so is the owner of the HelmChart, who is known.
LEMMA ListedClaims ==
    ASSUME ClaimInv, started', cache' = chart', step' = step, plan' = plan,
           indexed' \subseteq queue', helm'.owner \in queue' \cup {NoOwner},
           helm'.owner # NoOwner => helmCache' = helm'.owner,
           \A c \in Charts : step[c] # "idle" /\ c \notin queue' => plan[c].read = cache'[c]
    PROVE  ClaimInv'
<1>1. Asleep' /\ OneStands'
  BY DEF Asleep, OneStands, Stands
<1>2. ASSUME NEW c \in Charts PROVE ChartInv(c)'
  <2>1. Informed(c)' /\ ReadFresh(c)'
    BY DEF Informed, ReadFresh
  <2>2. PlanSound(c)'
    BY DEF ClaimInv, ChartInv, PlanSound
  <2>3. Owned(c)'
    BY ChartsAssumption DEF Owned, Owed
  <2> QED BY <2>1, <2>2, <2>3 DEF ChartInv
<1> QED BY <1>1, <1>2 DEF ClaimInv

\* When the caches have been listed no handler runs.
LEMMA StartClaims ==
    ASSUME TypeOK, ClaimInv, StartCaches
    PROVE  ClaimInv'
<1>1. \A c \in Charts : step[c] = "idle"
  BY DEF StartCaches, ClaimInv, Asleep
<1>2. helm'.owner \in queue' \cup {NoOwner} /\ helmCache' = helm'.owner
  BY DEF StartCaches, cluster
<1>3. indexed' \subseteq queue' /\ cache' = chart' /\ step' = step /\ plan' = plan /\ started'
  BY DEF StartCaches, cluster
<1> QED BY <1>1, <1>2, <1>3, ListedClaims

\* What is at rest is known to the informers.
LEMMA RestKnown ==
    ASSUME TypeOK, ClaimInv, Quiet
    PROVE  cache = chart /\ (helm.owner # NoOwner => helmCache = helm.owner)
<1>1. \A c \in Charts : cache[c] = chart[c]
  BY DEF Quiet, ClaimInv, ChartInv, Informed
<1>2. cache = chart
  BY <1>1 DEF TypeOK
<1>3. ASSUME helm.owner # NoOwner PROVE helmCache = helm.owner
  <2>1. helm.owner \in Charts
    BY <1>3 DEF TypeOK, Owners
  <2> QED BY <2>1 DEF Quiet, ClaimInv, ChartInv, Owned
<1> QED BY <1>2, <1>3

\* A resync finds nothing that the informers do not know.
LEMMA ResyncClaims ==
    ASSUME TypeOK, ClaimInv, Resync
    PROVE  ClaimInv'
<1>1. cache' = chart' /\ (helm.owner # NoOwner => helmCache = helm.owner)
  BY RestKnown DEF Resync, cluster
<1>2. indexed' \subseteq queue'
  BY <1>1 DEF Resync, Quiet, Stale, Present, TypeOK, cluster
<1>3. helm'.owner \in queue' \cup {NoOwner} /\ (helm'.owner # NoOwner => helmCache' = helm'.owner)
  BY <1>1 DEF Resync, cluster
<1>4. started' /\ step' = step /\ plan' = plan /\ \A c \in Charts : step[c] = "idle"
  BY DEF Resync, Quiet
<1> QED BY <1>1, <1>2, <1>3, <1>4, ListedClaims

\* A restart begins with nothing in memory.
LEMMA RestartClaims ==
    ASSUME TypeOK, ClaimInv, Restart \/ Panics
    PROVE  ClaimInv'
<1> SUFFICES ASSUME Restarted PROVE ClaimInv'
  BY DEF Restart, Panics
<1>1. Asleep' /\ OneStands'
  BY DEF Restarted, Asleep, OneStands, Stands
<1>2. \A c \in Charts : ChartInv(c)'
  BY DEF Restarted, ChartInv, Informed, ReadFresh, PlanSound, Owned
<1> QED BY <1>1, <1>2 DEF ClaimInv

\* A chart that has gone does not come back, and a registration namespace goes when it
\* is empty.
LEMMA EmptiedKept == TypeOK /\ Emptied /\ [Next]_vars => Emptied'
<1> SUFFICES ASSUME TypeOK, Emptied, [Next]_vars PROVE Emptied'
  OBVIOUS
<1> DEFINE AsBefore(c) == /\ reg'[c] = "gone" => reg[c] = "gone" \/ chart[c].phase = "absent"
                          /\ chart[c].phase = "absent" => chart'[c].phase = "absent"
<1>1. (\A c \in Charts : AsBefore(c)) => Emptied'
  BY DEF Emptied
<1>2. UNCHANGED <<chart, reg>> => Emptied'
  BY DEF Emptied
<1>3. ASSUME NEW c \in Charts, NEW obj, Write(c, obj), UNCHANGED reg,
             chart[c].phase = "absent" => obj.phase = "absent"
      PROVE  Emptied'
  BY <1>1, <1>3 DEF Write, TypeOK
<1>4. CASE Users
  <2>1. ASSUME NEW c \in Charts, UserChanges(c) \/ UserDeletes(c) PROVE Emptied'
    BY <1>3, <2>1 DEF UserChanges, UserDeletes
  <2>2. ASSUME NEW c \in Charts, UserDeletesRegistration(c) PROVE Emptied'
    BY <1>1, <2>2 DEF UserDeletesRegistration, TypeOK
  <2> QED BY <1>2, <1>4, <2>1, <2>2, ChartsAssumption
          DEF Users, UserDeletesNamespace, UserMovesNamespaces
<1>5. CASE Kubernetes
  <2>1. ASSUME NEW c \in Charts, EmptiesRegistration(c) PROVE Emptied'
    BY <1>3, <2>1 DEF EmptiesRegistration
  <2>2. ASSUME NEW c \in Charts, RegistrationGoes(c) PROVE Emptied'
    BY <1>1, <2>2 DEF RegistrationGoes, TypeOK
  <2> QED BY <1>2, <1>5, <2>1, <2>2 DEF Kubernetes, HelmInstalls
<1>6. CASE Informers \/ Resync \/ \E c \in Charts : Track(c)
  BY <1>2, <1>6 DEF Informers, StartCaches, DeliverHelm, DeliverChart, Resync, Track, cluster
<1>7. ASSUME NEW c \in Charts, Untrack(c) PROVE Emptied'
  BY <1>1, <1>7 DEF Untrack, TypeOK
<1>8. ASSUME NEW c \in Charts, Handler(c) PROVE Emptied'
  <2>1. CASE Apply(c)
    <3>1. [chart[c] EXCEPT !.status = plan[c].status].phase = chart[c].phase
      BY DEF TypeOK, Chart
    <3>2. CASE UNCHANGED <<chart, watch>>
      BY <1>2, <2>1, <3>2 DEF Apply
    <3>3. CASE Write(c, [chart[c] EXCEPT !.status = plan[c].status])
      BY <1>3, <2>1, <3>1, <3>3 DEF Apply
    <3> QED BY <2>1, <3>2, <3>3 DEF Apply, UpdateStatus
  <2>2. CASE Remove(c)
    <3>1. Gone.phase = "absent"
      BY DEF Gone
    <3>2. CASE UNCHANGED <<chart, watch>>
      BY <1>2, <2>2, <3>2 DEF Remove
    <3>3. CASE Write(c, Gone)
      BY <1>3, <2>2, <3>1, <3>3 DEF Remove
    <3> QED BY <2>2, <3>2, <3>3 DEF Remove
  <2>3. CASE ApplyFails(c) \/ Prune(c)
    BY <1>2, <2>3 DEF ApplyFails, Prune
  <2> QED BY <1>2, <1>8, <2>1, <2>2, <2>3
          DEF Handler, NotManaged, CleansUp, Yields, HasNoTargets, NeedsNamespace, Deploys,
              BeginsRemoval, Decides, GoesOn, cluster
<1>9. CASE Restart \/ Panics
  <2>1. Restarted
    BY <1>9 DEF Restart, Panics
  <2>2. \A c \in Charts : chart'[c].phase = chart[c].phase
    BY <2>1 DEF Restarted, Relabelled, TypeOK, Chart
  <2> QED BY <1>1, <2>1, <2>2 DEF Restarted, TypeOK
<1>10. CASE UNCHANGED vars
  BY <1>2, <1>10 DEF vars, cluster
<1> QED BY <1>4, <1>5, <1>6, <1>7, <1>8, <1>9, <1>10 DEF Next, Operator

-----------------------------------------------------------------------------
(* The handlers *)

\* A handler that goes on with p, having been called with what the cache has.
LEMMA GoesOnClaims ==
    ASSUME TypeOK, ClaimInv, NEW c \in Charts, NEW next \in {"idle", "apply", "remove"},
           NEW p \in Plan, GoesOn(c, next, p), Called(c), started,
           next = "idle" => c \in watch \/ (c \notin tracked /\ cache[c].phase # "absent"),
           next = "remove" => cache[c].phase = "deleting",
           next = "apply" => cache[c].phase = "live" /\ (p.helm => p.status \in Serves),
           Stands(c)' => \A d \in Charts \ {c} : ~Stands(d)
    PROVE  ClaimInv'
<1> USE DEF GoesOn, cluster, informer
<1>1. Asleep'
  BY DEF Asleep
<1>2. \A d \in Charts \ {c} : Keeps(d)
  BY DEF Keeps, Closing, TypeOK
<1>3. step'[c] = next /\ plan'[c] = [p EXCEPT !.read = cache[c]]
  BY DEF TypeOK
<1>4. plan'[c].read = cache[c] /\ plan'[c].helm = p.helm /\ plan'[c].status = p.status
  BY <1>3 DEF Plan
<1>5. Informed(c)' /\ ReadFresh(c)' /\ PlanSound(c)'
  BY <1>3, <1>4 DEF ClaimInv, ChartInv, Informed, ReadFresh, PlanSound
<1>6. Owned(c)'
  BY <1>3 DEF ClaimInv, ChartInv, Owned, Owed
<1> QED BY <1>1, <1>2, <1>5, <1>6, OthersKept DEF ChartInv

\* A chart of the cache that a handler is called with is one of a cache that was listed.
LEMMA Awake ==
    ASSUME ClaimInv, NEW c \in Charts, cache[c].phase # "absent" \/ step[c] # "idle"
    PROVE  started
<1>1. Gone.phase = "absent"
  BY DEF Gone
<1>2. ~started => cache[c] = Gone /\ step[c] = "idle"
  BY DEF ClaimInv, Asleep
<1> QED BY <1>1, <1>2

\* A decision of OnChange.  What is not managed is not in the index; what gives up its
\* claim does not stand by it; and what claims the release has seen nobody else claim it.
LEMMA DecidesClaims ==
    ASSUME TypeOK, ClaimInv, NEW c \in Charts, NEW p \in Plan, OnChange(c), Decides(c, p),
           p.helm => p.status \in Serves,
           p.status \in Names => reg[c] # "active" \/ c \notin indexed \/ ~Conflict(c)
    PROVE  ClaimInv'
<1>1. started /\ cache[c].phase = "live"
  BY Awake DEF OnChange
<1>2. step'[c] = "apply" /\ plan'[c].status = p.status /\ indexed' = indexed
  BY DEF Decides, GoesOn, TypeOK, Plan, informer
<1>3. ASSUME Stands(c)', NEW d \in Charts \ {c} PROVE ~Stands(d)
  <2>1. ~Tracks(d) \/ d \notin indexed
    BY <1>2, <1>3 DEF Stands, Conflict, Decides, GoesOn, cluster
  <2> QED BY <2>1 DEF Stands, Tracks, Names, Unable
<1> QED BY <1>1, <1>3, GoesOnClaims DEF Decides, OnChange

\* The decisions of OnChange, one by one.
LEMMA OnChangeClaims ==
    ASSUME TypeOK, ClaimInv, NEW c \in Charts,
           \/ NotManaged(c) \/ CleansUp(c) \/ Yields(c) \/ HasNoTargets(c)
           \/ NeedsNamespace(c) \/ Deploys(c)
    PROVE  ClaimInv'
<1> USE DEF Nothing, Plan, Gone, Chart, Statuses, Unable
<1>1. CASE NotManaged(c)
  <2> DEFINE p == [Nothing EXCEPT !.status = cache[c].status]
  <2>1. p \in Plan /\ ~p.helm
    BY DEF TypeOK
  <2>2. reg[c] # "active" \/ c \notin indexed
    BY <1>1, Awake DEF NotManaged, OnChange, Managed, TypeOK
  <2>3. OnChange(c) /\ Decides(c, p)
    BY <1>1 DEF NotManaged
  <2> HIDE DEF p
  <2> QED BY <2>1, <2>2, <2>3, DecidesClaims
<1>2. CASE CleansUp(c)
  <2> DEFINE p == [Nothing EXCEPT !.status = "AwaitingOperatorRedeployment"]
  <2>1. p \in Plan /\ ~p.helm /\ p.status \notin Names
    BY DEF Names
  <2>2. OnChange(c) /\ Decides(c, p)
    BY <1>2 DEF CleansUp
  <2> HIDE DEF p
  <2> QED BY <2>1, <2>2, DecidesClaims
<1>3. CASE Yields(c)
  <2> DEFINE p == [Nothing EXCEPT !.status = "AlreadyTracked"]
  <2>1. p \in Plan /\ ~p.helm /\ p.status \notin Names
    BY DEF Names
  <2>2. OnChange(c) /\ Decides(c, p)
    BY <1>3 DEF Yields, Competes
  <2> HIDE DEF p
  <2> QED BY <2>1, <2>2, DecidesClaims
<1>4. CASE HasNoTargets(c)
  <2> DEFINE p == [Nothing EXCEPT !.ns = "orphaned", !.status = "NoTargetProjectNamespaces"]
  <2>1. p \in Plan /\ ~p.helm
    OBVIOUS
  <2>2. OnChange(c) /\ Decides(c, p) /\ ~Conflict(c)
    BY <1>4 DEF HasNoTargets, Competes
  <2> HIDE DEF p
  <2> QED BY <2>1, <2>2, DecidesClaims
<1>5. CASE NeedsNamespace(c)
  <2> DEFINE p == [Nothing EXCEPT !.ns = "used", !.status = "NoReleaseNamespace"]
  <2>1. p \in Plan /\ ~p.helm
    OBVIOUS
  <2>2. OnChange(c) /\ Decides(c, p) /\ ~Conflict(c)
    BY <1>5 DEF NeedsNamespace, Competes
  <2> HIDE DEF p
  <2> QED BY <2>1, <2>2, DecidesClaims
<1>6. CASE Deploys(c)
  <2> DEFINE s == IF dashboard THEN "Deployed" ELSE "WaitingForDashboardValues"
             p == [Nothing EXCEPT !.ns = "used", !.helm = TRUE, !.status = s]
  <2>1. p \in Plan /\ p.status \in Serves
    BY DEF Serves
  <2>2. OnChange(c) /\ Decides(c, p) /\ ~Conflict(c)
    BY <1>6 DEF Deploys, Competes
  <2> HIDE DEF p
  <2> QED BY <2>1, <2>2, DecidesClaims
<1> QED BY <1>1, <1>2, <1>3, <1>4, <1>5, <1>6

\* The removal of a chart that is being deleted begins, unless it is not managed.
LEMMA BeginsRemovalClaims ==
    ASSUME TypeOK, Emptied, ClaimInv, NEW c \in Charts, BeginsRemoval(c)
    PROVE  ClaimInv'
<1> DEFINE next == IF Managed(c) THEN "remove" ELSE "idle"
<1>1. Called(c) /\ cache[c].phase = "deleting" /\ GoesOn(c, next, Nothing)
  BY DEF BeginsRemoval
<1>2. started
  BY <1>1, Awake
<1>3. Nothing \in Plan
  BY DEF Nothing, Plan, Gone, Chart, Statuses, Unable
<1>4. ~Stands(c)'
  BY <1>1 DEF Stands, GoesOn, informer
<1>5. c \notin watch => reg[c] # "gone"
  BY <1>1, <1>2 DEF Emptied, ClaimInv, ChartInv, Informed
<1>6. next \in {"idle", "remove"} /\ (next = "idle" => c \in watch \/ c \notin tracked)
  BY <1>2, <1>5 DEF Managed
<1> HIDE DEF next
<1> QED BY <1>1, <1>2, <1>3, <1>4, <1>6, GoesOnClaims

\* What an apply does to the owners of the HelmChart: it leaves those alone who are no
\* owners, and the HelmChart has no owner that the cache knows and the plan does not want.
LEMMA ApplyHelmKeeps ==
    ASSUME TypeOK, NEW c \in Charts, ApplyHelm(c), NEW d \in Charts
    PROVE  /\ d \in helmWatch => d \in helmWatch'
           /\ helm'.owner = d => helm.owner = d \/ d \in helmWatch'
           /\ helm'.owner = c => plan[c].helm \/ helmCache # c
<1>1. plan[c].helm \in BOOLEAN /\ c # NoOwner
  BY ChartsAssumption DEF TypeOK, Plan
<1>2. CASE plan[c].helm = (helmCache = c)
  BY <1>1, <1>2 DEF ApplyHelm
<1>3. CASE plan[c].helm # (helmCache = c)
  <2>1. SetOwner(IF plan[c].helm THEN c ELSE NoOwner)
    BY <1>3 DEF ApplyHelm
  <2>2. CASE plan[c].helm
    BY <2>1, <2>2, OwnerKeeps DEF Owners
  <2>3. CASE ~plan[c].helm
    BY <1>1, <2>1, <2>3, OwnerKeeps DEF Owners
  <2> QED BY <2>2, <2>3
<1> QED BY <1>2, <1>3

\* What the end of a handler leaves alone.
LEMMA ReturnsKeeps ==
    ASSUME TypeOK, NEW c \in Charts, NEW b \in BOOLEAN, Returns(c, b)
    PROVE  /\ queue \subseteq queue' /\ (b => c \in queue')
           /\ step'[c] = "idle"
           /\ \A d \in Charts \ {c} : step'[d] = step[d] /\ plan'[d] = plan[d]
  BY DEF Returns, TypeOK

\* What an apply was decided for, when its chart has no event on its way and is not
\* queued again, is the chart as it is.
LEMMA ReadIsChart ==
    ASSUME ClaimInv, NEW c \in Charts, step[c] # "idle", c \notin watch, c \notin queue
    PROVE  plan[c].read = chart[c]
<1>1. started
  BY Awake
<1> QED BY <1>1 DEF ClaimInv, ChartInv, Informed, ReadFresh

\* The objects of a chart are applied and its status is updated: unless the chart is
\* queued again or has an event on its way, it had the status of the plan before.
LEMMA ApplyClaims ==
    ASSUME TypeOK, ClaimInv, NEW c \in Charts, Apply(c)
    PROVE  ClaimInv'
<1> DEFINE b == Refused(c)
<1>1. b \in BOOLEAN
  BY DEF Refused
<1>2. Returns(c, b) /\ step[c] = "apply"
  BY DEF Apply
<1>3. /\ UNCHANGED <<reg, started, cache, indexed, helmCache, tracked>>
      /\ ApplyHelm(c)
  BY DEF Apply
<1>4. /\ watch \subseteq watch'
      /\ \A d \in Charts : d \notin watch' => chart'[d] = chart[d]
  BY WriteKeeps DEF Apply, UpdateStatus
<1>5. ASSUME ~b, c \notin watch' PROVE plan[c].read.status = plan[c].status
  <2>1. SUFFICES ASSUME plan[c].read.status # plan[c].status PROVE FALSE
    OBVIOUS
  <2>2. Write(c, [chart[c] EXCEPT !.status = plan[c].status]) /\ chart[c] = plan[c].read
    BY <1>5, <2>1 DEF Apply, UpdateStatus, Refused
  <2>3. [chart[c] EXCEPT !.status = plan[c].status] # chart[c]
    BY <2>1, <2>2 DEF TypeOK, Chart
  <2> QED BY <1>5, <2>2, <2>3 DEF Write
<1> HIDE DEF b
<1>6. /\ queue \subseteq queue' /\ (b => c \in queue')
      /\ step'[c] = "idle"
      /\ \A d \in Charts \ {c} : step'[d] = step[d] /\ plan'[d] = plan[d]
  BY <1>1, <1>2, ReturnsKeeps
<1>7. started
  BY <1>2, Awake
<1>8. Asleep'
  BY <1>3, <1>7 DEF Asleep
<1>9. ASSUME NEW d \in Charts
      PROVE  /\ d \in helmWatch => d \in helmWatch'
             /\ helm'.owner = d => helm.owner = d \/ d \in helmWatch'
             /\ helm'.owner = c => plan[c].helm \/ helmCache # c
  BY <1>3, ApplyHelmKeeps
<1>10. \A d \in Charts \ {c} : Keeps(d)
  BY <1>3, <1>4, <1>6, <1>9 DEF Keeps, Closing
<1>11. ASSUME c \notin queue', c \notin watch'
       PROVE  /\ chart'[c] = plan[c].read /\ cache[c] = plan[c].read
              /\ plan[c].read.status = plan[c].status
  <2>1. c \notin queue /\ c \notin watch /\ ~b
    BY <1>4, <1>6, <1>11
  <2>2. plan[c].read = chart[c] /\ plan[c].read = cache[c]
    BY <1>2, <2>1, ReadIsChart DEF ClaimInv, ChartInv, ReadFresh
  <2> QED BY <1>4, <1>5, <1>11, <2>1, <2>2
<1>12. Informed(c)' /\ ReadFresh(c)' /\ PlanSound(c)'
  BY <1>3, <1>4, <1>6 DEF ClaimInv, ChartInv, Informed, ReadFresh, PlanSound
<1>13. Owned(c)'
  <2> SUFFICES ASSUME helm'.owner = c, c \notin helmWatch'
               PROVE  helmCache' = c /\ (Owed(c)' \/ (/\ chart'[c].phase = "live"
                                                     /\ chart'[c].status \in Serves))
    BY DEF Owned
  <2>1. helm.owner = c /\ c \notin helmWatch
    BY <1>9
  <2>2. helmCache = c
    BY <1>7, <2>1 DEF ClaimInv, ChartInv, Owned
  <2>3. plan[c].helm
    BY <1>9, <2>2
  <2>4. plan[c].read.phase = "live" /\ plan[c].status \in Serves
    BY <1>2, <2>3 DEF ClaimInv, ChartInv, PlanSound
  <2>5. CASE c \in queue' \cup watch'
    BY <1>3, <2>2, <2>5 DEF Owed
  <2>6. CASE c \notin queue' \cup watch'
    BY <1>3, <1>11, <2>2, <2>4, <2>6
  <2> QED BY <2>5, <2>6
<1>14. Stands(c)' => Stands(c)
  BY <1>2, <1>3, <1>4, <1>6, <1>11 DEF Stands
<1> QED BY <1>8, <1>10, <1>12, <1>13, <1>14, OthersKept DEF ChartInv

\* A handler whose apply fails is queued again.
LEMMA ApplyFailsClaims ==
    ASSUME TypeOK, ClaimInv, NEW c \in Charts, ApplyFails(c)
    PROVE  ClaimInv'
<1>1. Returns(c, TRUE) /\ step[c] # "idle"
  BY DEF ApplyFails
<1>2. UNCHANGED <<chart, reg, watch, started, cache, indexed, helmCache, tracked>>
  BY DEF ApplyFails
<1>3. /\ queue \subseteq queue' /\ c \in queue' /\ step'[c] = "idle"
      /\ \A d \in Charts \ {c} : step'[d] = step[d] /\ plan'[d] = plan[d]
  BY <1>1, ReturnsKeeps
<1>4. Asleep'
  BY <1>1, <1>2, Awake DEF Asleep
<1>5. ASSUME NEW d \in Charts
      PROVE  /\ d \in helmWatch => d \in helmWatch'
             /\ helm'.owner = d => helm.owner = d \/ d \in helmWatch'
  <2>1. CASE UNCHANGED <<helm, helmWatch, dashboard>>
    BY <2>1
  <2>2. CASE ApplyHelm(c)
    BY <2>2, ApplyHelmKeeps
  <2> QED BY <2>1, <2>2 DEF ApplyFails
<1>6. \A d \in Charts \ {c} : Keeps(d)
  BY <1>2, <1>3, <1>5 DEF Keeps, Closing
<1>7. Informed(c)' /\ ReadFresh(c)' /\ PlanSound(c)'
  BY <1>2, <1>3 DEF ClaimInv, ChartInv, Informed, ReadFresh, PlanSound
<1>8. Owned(c)'
  BY <1>2, <1>3, <1>5 DEF ClaimInv, ChartInv, Owned, Owed
<1>9. ~Stands(c)'
  BY <1>3 DEF Stands
<1> QED BY <1>4, <1>6, <1>7, <1>8, <1>9, OthersKept DEF ChartInv

\* A removal is over: the chart is queued again, or it goes, of which there is an event.
LEMMA RemoveClaims ==
    ASSUME TypeOK, ClaimInv, NEW c \in Charts, Remove(c)
    PROVE  ClaimInv'
<1> DEFINE b == chart[c] # plan[c].read
<1>1. Returns(c, b) /\ step[c] = "remove" /\ b \in BOOLEAN
  BY DEF Remove
<1>2. UNCHANGED <<reg, helm, started, cache, indexed, helmCache, helmWatch, tracked>>
  BY DEF Remove
<1>3. /\ watch \subseteq watch'
      /\ \A d \in Charts : d \notin watch' => chart'[d] = chart[d]
  BY WriteKeeps DEF Remove
<1>4. ~b => c \in watch'
  <2> SUFFICES ASSUME ~b PROVE c \in watch'
    OBVIOUS
  <2>1. chart[c].phase = "deleting" /\ Write(c, Gone)
    BY <1>1 DEF Remove, ClaimInv, ChartInv, PlanSound
  <2>2. Gone.phase = "absent"
    BY DEF Gone
  <2> QED BY <2>1, <2>2 DEF Write
<1> HIDE DEF b
<1>5. /\ queue \subseteq queue' /\ (b => c \in queue')
      /\ step'[c] = "idle"
      /\ \A d \in Charts \ {c} : step'[d] = step[d] /\ plan'[d] = plan[d]
  BY <1>1, ReturnsKeeps
<1>6. started
  BY <1>1, Awake
<1>7. Asleep'
  BY <1>2, <1>6 DEF Asleep
<1>8. \A d \in Charts \ {c} : Keeps(d)
  BY <1>2, <1>3, <1>5 DEF Keeps, Closing
<1>9. c \in queue' \cup watch'
  BY <1>1, <1>4, <1>5
<1>10. Informed(c)' /\ ReadFresh(c)' /\ PlanSound(c)'
  BY <1>2, <1>3, <1>5 DEF ClaimInv, ChartInv, Informed, ReadFresh, PlanSound
<1>11. Owned(c)'
  BY <1>2, <1>9 DEF ClaimInv, ChartInv, Owned, Owed
<1>12. ~Stands(c)'
  BY <1>9 DEF Stands
<1> QED BY <1>7, <1>8, <1>10, <1>11, <1>12, OthersKept DEF ChartInv

\* Nothing is left of a chart that has gone, and of its HelmChart, if the cache knows it.
LEMMA PruneClaims ==
    ASSUME TypeOK, ClaimInv, NEW c \in Charts, Prune(c)
    PROVE  ClaimInv'
<1>1. /\ UNCHANGED <<chart, reg, started, cache, watch, indexed, helmCache, tracked, step,
                      plan>>
      /\ step[c] = "idle" /\ cache[c].phase = "absent" /\ queue \ {c} \subseteq queue'
  BY DEF Prune, Called
<1>2. c # NoOwner /\ NoOwner \in Owners
  BY ChartsAssumption DEF Owners
<1>3. ASSUME NEW d \in Charts
      PROVE  /\ d \in helmWatch => d \in helmWatch'
             /\ helm'.owner = d => helm.owner = d \/ d \in helmWatch'
             /\ helmCache = c => helm'.owner # c
  BY <1>2, OwnerKeeps DEF Prune
<1>4. Asleep'
  BY <1>1 DEF ClaimInv, Asleep
<1>5. \A d \in Charts \ {c} : Keeps(d)
  BY <1>1, <1>3 DEF Keeps, Closing
<1>6. Informed(c)' /\ ReadFresh(c)' /\ PlanSound(c)'
  BY <1>1 DEF ClaimInv, ChartInv, Informed, ReadFresh, PlanSound
<1>7. Owned(c)'
  BY <1>1, <1>3 DEF ClaimInv, ChartInv, Owned
<1>8. ~Stands(c)'
  BY <1>1 DEF Stands
<1> QED BY <1>4, <1>5, <1>6, <1>7, <1>8, OthersKept DEF ChartInv

-----------------------------------------------------------------------------
(* The whole system *)

\* At the start all charts are queued, and none has claimed the release.
LEMMA InitClaims == Init => Emptied /\ ClaimInv
<1> SUFFICES ASSUME Init PROVE Emptied /\ ClaimInv
  OBVIOUS
<1>0. Emptied
  BY DEF Init, Emptied
<1>1. Asleep /\ OneStands
  BY DEF Init, Asleep, OneStands, Stands
<1>2. ASSUME NEW c \in Charts PROVE ChartInv(c)
  BY ChartsAssumption, <1>2 DEF Init, ChartInv, Informed, ReadFresh, PlanSound, Owned
<1> QED BY <1>0, <1>1, <1>2 DEF ClaimInv

\* Every step keeps the invariant.
LEMMA NextClaims == TypeOK /\ Emptied /\ ClaimInv /\ [Next]_vars => ClaimInv'
<1> SUFFICES ASSUME TypeOK, Emptied, ClaimInv, [Next]_vars PROVE ClaimInv'
  OBVIOUS
<1>1. CASE Users \/ Kubernetes \/ \E c \in Charts : Track(c) \/ Untrack(c)
  BY <1>1, OutsideClaims
<1>2. CASE Informers
  BY <1>2, StartClaims, DeliverHelmClaims, DeliverChartClaims DEF Informers
<1>3. CASE Resync
  BY <1>3, ResyncClaims
<1>4. CASE \E c \in Charts : Handler(c)
  BY <1>4, OnChangeClaims, ApplyClaims, ApplyFailsClaims, BeginsRemovalClaims, RemoveClaims,
     PruneClaims
  DEF Handler
<1>5. CASE Restart \/ Panics
  BY <1>5, RestartClaims
<1>6. CASE UNCHANGED vars
  <2>1. Asleep'
    BY <1>6 DEF vars, informer, handler, ClaimInv, Asleep
  <2>2. \A c \in Charts : Keeps(c)
    BY <1>6 DEF vars, cluster, informer, handler, Keeps, Closing
  <2> QED BY <2>1, <2>2, AllKept
<1> QED BY <1>1, <1>2, <1>3, <1>4, <1>5, <1>6 DEF Next, Operator

\* The invariant of the claims, for every behaviour: two charts that compete for a
\* release (project/controller.go:201-229) cannot both be done with while both claim it, and
\* the owner of the HelmChart is not done with unless it says so, or is to go with its
\* registration namespace.
THEOREM ClaimsCorrect == Spec => [](TypeOK /\ Emptied /\ ClaimInv)
  BY InitType, NextType, InitClaims, EmptiedKept, NextClaims, PTL DEF Spec, Safe

\* At rest one chart of the index at most claims the release, although each decides from
\* cached statuses (OnChange, project/controller.go:201-229).
THEOREM OneClaimHolds == Spec => []OneClaim
<1>1. TypeOK /\ ClaimInv => OneClaim
  <2> SUFFICES ASSUME TypeOK, ClaimInv, Quiet,
                      NEW c \in indexed, NEW d \in indexed, Claims(c), Claims(d)
               PROVE  c = d
    BY DEF OneClaim
  <2>1. cache = chart
    BY RestKnown
  <2>2. indexed \subseteq Charts
    BY DEF TypeOK
  <2>3. ASSUME NEW e \in indexed, Claims(e) PROVE Stands(e)
    <3>1. reg[e] = "active"
      BY <2>2, <2>3 DEF Claims, Quiet, Settled
    <3> QED BY <2>1, <2>2, <2>3, <3>1 DEF Stands, Claims, Names, Quiet
  <2> QED BY <2>2, <2>3 DEF ClaimInv, OneStands
<1> QED BY <1>1, ClaimsCorrect, PTL

\* At rest the HelmChart belongs to a live chart whose status says so, or to one that was
\* deleted with its registration namespace and is still there: what was created for one
\* that lost the competition, was relabelled, has gone, or was half applied is deleted.
THEOREM OwnerClaimsHolds == Spec => []OwnerClaims
<1>1. TypeOK /\ ClaimInv => OwnerClaims
  <2> SUFFICES ASSUME TypeOK, ClaimInv, Quiet, helm.owner # NoOwner
               PROVE  \/ /\ chart[helm.owner].phase = "live"
                         /\ chart[helm.owner].status \in Serves
                      \/ reg[helm.owner] = "terminating" /\ chart[helm.owner].phase = "deleting"
    BY DEF OwnerClaims, Serves
  <2>1. PICK c \in Charts : helm.owner = c
    BY DEF TypeOK, Owners
  <2>2. c \notin helmWatch /\ c \notin queue \cup watch /\ step[c] = "idle" /\ Settled(c) /\ started
    BY <2>1 DEF Quiet
  <2>3. cache = chart
    BY RestKnown
  <2>4. CASE Owed(c)
    BY <2>2, <2>3, <2>4 DEF Owed, Settled
  <2>5. CASE Leaving(c)
    BY <2>1, <2>2, <2>5 DEF Leaving, Closing, Settled
  <2> QED BY <2>1, <2>2, <2>4, <2>5 DEF ClaimInv, ChartInv, Owned
<1> QED BY <1>1, ClaimsCorrect, PTL
=============================================================================
