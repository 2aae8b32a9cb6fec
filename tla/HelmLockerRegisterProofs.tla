---------------------- MODULE HelmLockerRegisterProofs ----------------------
(***************************************************************************)
(* The register of the Helm Locker, for any releases, resources, manifests *)
(* and workers, with faults and restarts: what is registered, applied and  *)
(* locked is a revision that Helm has deployed, the informer follows the   *)
(* register, and what is locked at rest is watched as a whole.             *)
(*                                                                         *)
(* All goroutines share state objects through pointers that they read      *)
(* under the lock and use after it.  The argument is about who points to   *)
(* what: the objects of two keys are different ones, a new object is one   *)
(* that nobody points to, and an object that somebody points to changes    *)
(* only where deleteState clears it.                                       *)
(***************************************************************************)
EXTENDS HelmLocker, SequenceTheorems, TLAPS

\* What the records of the state are.
RelRec   == [pc : RelSteps, purge : BOOLEAN, old : 0..MaxObjects]
CallRec  == [pc : CallSteps, key : Keys \cup {NoKey}, os : 0..MaxRevision,
             locked : BOOLEAN, old : 0..MaxObjects]
SetRec   == [pc : SetSteps, obj : 0..MaxObjects, os : 0..MaxRevision]
StateRec == [os : 0..MaxRevision, locked : BOOLEAN]
EventRec == [key : Keys, obj : 0..MaxObjects]
LiveRec  == [val : -1..MaxRevision, set : Keys \cup {NoKey}]

\* The steps of deleteState that have an object.
Holding == {"remove", "clearSet", "clearLocked"}

\* A call works on a key, and the one of a release worker on its own; the pointers
\* that are dereferenced are not nil.
WellFormed ==
    /\ \A c \in Callers : call[c].pc # "idle" => call[c].key \in Keys
    /\ \A k \in Keys :
          /\ call[k].pc # "idle" => call[k].key = k /\ rel[k].pc = "setting"
          /\ set[k].pc = "read" => set[k].obj # Nil
          /\ rel[k].pc \in Holding => rel[k].old # Nil

\* The latest revision of a release is not superseded.
Latest == \A k \in Keys : Last(k) # "superseded"

TypeInv == TypeOK /\ WellFormed /\ Latest

\* An object set that was parsed from a revision which Helm had deployed by then.
Parsed(k, os) == os # Nil => /\ os \in 1..Len(history[k])
                             /\ history[k][os] \notin {"pending", "written", "failed"}

\* The idle records are records.
LEMMA IdleTypes ==
    /\ IdleRel \in RelRec /\ IdleCall \in CallRec /\ IdleSet \in SetRec /\ Unused \in StateRec
    /\ Missing \in LiveRec
  BY BoundsAssumption DEF IdleRel, IdleCall, IdleSet, Unused, Missing, RelRec, CallRec, SetRec,
     StateRec, LiveRec, RelSteps, CallSteps, SetSteps, Nil

-----------------------------------------------------------------------------
(* The history of a release *)

\* A release goes on from one history to another: no revision is dropped, and what
\* was deployed once stays so, or is superseded or uninstalled.
GoesOn(h, i) ==
    /\ Len(h) <= Len(i)
    /\ \A v \in 1..Len(h) : h[v] \notin {"pending", "written", "failed"}
                           => i[v] \notin {"pending", "written", "failed"}

\* What one status that changes does to a history.
LEMMA StatusGoesOn ==
    ASSUME NEW h \in Seq(Statuses), NEW v \in 1..Len(h), NEW s \in Statuses,
           h[v] \in {"pending", "written", "failed"} \/ s \notin {"pending", "written", "failed"}
    PROVE  /\ [h EXCEPT ![v] = s] \in Seq(Statuses)
           /\ Len([h EXCEPT ![v] = s]) = Len(h)
           /\ GoesOn(h, [h EXCEPT ![v] = s])
<1> DEFINE i == [h EXCEPT ![v] = s]
<1>1. i \in Seq(Statuses) /\ Len(i) = Len(h)
  BY ExceptSeq
<1>2. \A w \in 1..Len(h) : i[w] = IF w = v THEN s ELSE h[w]
  BY LenProperties
<1>3. Len(h) \in Nat
  BY LenProperties
<1> QED BY <1>1, <1>2, <1>3 DEF GoesOn

\* Helm's steps take the history of their release on.
LEMMA HelmHistory ==
    ASSUME TypeOK, NEW k \in Keys, Helm(k)
    PROVE  \E h \in Seq(Statuses) : /\ history' = [history EXCEPT ![k] = h]
                                    /\ Len(h) \in Revisions
                                    /\ GoesOn(history[k], h)
                                    /\ h[Len(h)] # "superseded"
<1> DEFINE old == history[k]
           rev == Len(old)
<1>1. old \in Seq(Statuses) /\ rev \in Revisions /\ rev \in Nat /\ rev \in 1..rev
  BY BoundsAssumption DEF TypeOK, Revisions
<1>2. DOMAIN old = 1..rev /\ \A v \in 1..rev : old[v] \in Statuses
  BY <1>1, LenProperties, ElementOfSeq
<1>3. {"pending", "written", "deployed", "superseded", "failed", "uninstalling", "uninstalled",
       "removed"} \subseteq Statuses
  BY DEF Statuses, Transitioning
<1>4. ASSUME HelmBegins(k)
      PROVE  \E h \in Seq(Statuses) : history' = [history EXCEPT ![k] = h]
                                      /\ Len(h) \in Revisions /\ GoesOn(old, h)
                                      /\ h[Len(h)] # "superseded"
  <2>1. history' = [history EXCEPT ![k] = Append(old, "pending")] /\ rev < MaxRevision
    BY <1>4 DEF HelmBegins, SetHistory
  <2>2. /\ Append(old, "pending") \in Seq(Statuses) /\ Len(Append(old, "pending")) = rev + 1
        /\ Append(old, "pending")[rev + 1] = "pending"
        /\ \A v \in 1..rev : Append(old, "pending")[v] = old[v]
    BY <1>1, <1>3, AppendProperties
  <2>3. rev + 1 \in Revisions
    BY <1>1, <2>1, BoundsAssumption DEF Revisions
  <2>4. GoesOn(old, Append(old, "pending"))
    BY <1>1, <2>2 DEF GoesOn
  <2> QED BY <2>1, <2>2, <2>3, <2>4
<1>5. ASSUME NEW s \in Statuses \ {"superseded"}, SetHistory(k, [old EXCEPT ![rev] = s]),
             old[rev] \in {"pending", "written", "failed"} \/ s \notin {"pending", "written", "failed"}
      PROVE  \E h \in Seq(Statuses) : history' = [history EXCEPT ![k] = h]
                                      /\ Len(h) \in Revisions /\ GoesOn(old, h)
                                      /\ h[Len(h)] # "superseded"
  <2> DEFINE h == [old EXCEPT ![rev] = s]
  <2>1. h \in Seq(Statuses) /\ Len(h) = rev /\ GoesOn(old, h)
    BY <1>1, <1>5, StatusGoesOn
  <2>2. h[rev] = s
    BY <1>1, <1>2
  <2> QED BY <1>1, <1>5, <2>1, <2>2 DEF SetHistory
<1>6. CASE HelmWrites(k)
  BY <1>3, <1>5, <1>6 DEF HelmWrites, Last
<1>7. CASE HelmEnds(k)
  <2> DEFINE done == [v \in 1..rev |-> CASE v = rev -> "deployed"
                                         [] old[v] = "deployed" -> "superseded"
                                         [] OTHER -> old[v]]
  <2>1. CASE SetHistory(k, done)
    <3>1. \A v \in 1..rev : /\ done[v] \in Statuses
                            /\ v = rev => done[v] = "deployed"
                            /\ done[v] # old[v] => done[v] \in {"deployed", "superseded"}
      <4>1. old[rev] = "written"
        BY <1>7 DEF HelmEnds, Last
      <4> QED BY <1>1, <1>2, <1>3, <4>1
    <3>2. done \in [1..rev -> Statuses]
      BY <3>1
    <3>3. done \in Seq(Statuses) /\ Len(done) = rev
      BY <1>1, <3>2, SeqDef, LenProperties
    <3>4. GoesOn(old, done)
      BY <1>1, <3>1, <3>3 DEF GoesOn
    <3>5. done[rev] = "deployed"
      BY <1>1, <3>1
    <3> QED BY <1>1, <2>1, <3>3, <3>4, <3>5 DEF SetHistory
  <2>2. CASE SetHistory(k, [old EXCEPT ![rev] = "failed"])
    BY <1>3, <1>5, <1>7, <2>2 DEF HelmEnds, Last
  <2> QED BY <1>7, <2>1, <2>2 DEF HelmEnds
<1>8. CASE HelmUninstalls(k)
  <2>1. PICK s \in {"uninstalling", "uninstalled", "removed"} : SetHistory(k, [old EXCEPT ![rev] = s])
    BY <1>8 DEF HelmUninstalls
  <2> QED BY <1>3, <1>5, <2>1
<1> QED BY <1>4, <1>6, <1>7, <1>8 DEF Helm

\* lock, whether it succeeds or not, and what it writes to.
Locking(k) == LockEntries(k) \/ LockFails(k)
locked     == <<entries, watching, missed>>

\* Only Helm makes history; the entries change when a key is unlocked or locked, and
\* when the operator is restarted.
LEMMA ReleaseSteps ==
    ASSUME [Next]_vars
    PROVE  \/ UNCHANGED <<history, locked>>
           \/ \E k \in Keys : \/ Helm(k) /\ UNCHANGED locked
                              \/ entries' = Without(k) /\ UNCHANGED <<history, watching, missed>>
                              \/ Locking(k) /\ UNCHANGED history
           \/ Restart /\ UNCHANGED history
<1>1. ASSUME NEW k \in Keys, Helm(k) PROVE UNCHANGED locked
  BY <1>1 DEF Helm, HelmBegins, HelmWrites, HelmEnds, HelmUninstalls, register, watcher, locked
<1>2. ASSUME NEW k \in Keys, ReleaseWorker(k) \/ HelmReleaseDeleted(k)
      PROVE  /\ UNCHANGED <<history, watching, missed>>
             /\ UNCHANGED entries \/ entries' = Without(k)
  BY <1>2 DEF HelmReleaseDeleted, ReleaseWorker, ClaimRelease, ReconcileRelease, ReleaseNotFound,
              RemoveRelease, IgnoreRelease, UnlockRelease, Delete, DeleteGets, DeleteRemoves,
              DeleteClears, DeleteAnnounces, OnRemove, Purge, SetState, SetStateGets, SetStateCopies,
              SetStateBlocks, SetStateSends, cluster, register, watcher
<1>3. ASSUME NEW k \in Keys, SetWorker(k) \/ ReconcileFails(k) \/ LockFails(k)
      PROVE  /\ UNCHANGED history
             /\ \/ Locking(k)
                \/ UNCHANGED <<watching, missed>> /\ (UNCHANGED entries \/ entries' = Without(k))
  <2>1. CASE Locking(k)
    BY <2>1 DEF Locking, LockEntries, LockFails, cluster
  <2>2. CASE ~Locking(k)
    BY <1>3, <2>2 DEF SetWorker, ReconcileFails, NothingToReconcile, StartReconcile, ReconcileReads,
                      ReconcileApplies, LockGets, Locking, cluster, register, watcher
  <2> QED BY <2>1, <2>2
<1>4. ASSUME NEW w \in Watchers, WatchWorker(w) PROVE UNCHANGED <<history, locked>>
  BY <1>4 DEF WatchWorker, Resolve, SetState, SetStateGets, SetStateCopies, SetStateBlocks,
              SetStateSends, cluster, watcher, locked
<1>5. CASE Informer \/ ResyncReleases \/ ResyncStates \/ UNCHANGED vars
  BY <1>5 DEF Informer, ListStates, Deliver, ResyncReleases, ResyncStates, vars, cluster, register, watcher, locked
<1>6. CASE Restart
  BY <1>6 DEF Restart
<1>7. ASSUME NEW r \in Resources, UserDrifts(r) PROVE UNCHANGED <<history, locked>>
  BY <1>7 DEF UserDrifts, register, watcher, locked
<1> QED BY <1>1, <1>2, <1>3, <1>4, <1>5, <1>6, <1>7 DEF Next, Environment, Operator, locked

\* Whatever the step, what has been parsed stays parsed, and no revision is lost.
LEMMA ParsedStep ==
    ASSUME TypeOK, [Next]_vars
    PROVE  /\ history' \in [Keys -> Seq(Statuses)]
           /\ Latest => Latest'
           /\ \A j \in Keys : /\ Len(history'[j]) \in Revisions
                              /\ Len(history[j]) <= Len(history'[j])
                              /\ \A os : Parsed(j, os) => Parsed(j, os)'
<1>0. /\ history \in [Keys -> Seq(Statuses)]
      /\ \A j \in Keys : Len(history[j]) \in Revisions /\ Len(history[j]) \in Nat
  BY DEF TypeOK, Revisions
<1>1. ASSUME NEW k \in Keys, Helm(k)
      PROVE  /\ history' \in [Keys -> Seq(Statuses)]
             /\ \A j \in Keys : Len(history'[j]) \in Revisions /\ GoesOn(history[j], history'[j])
             /\ Latest => Latest'
  <2>1. PICK h \in Seq(Statuses) : history' = [history EXCEPT ![k] = h] /\ Len(h) \in Revisions
                                   /\ GoesOn(history[k], h) /\ h[Len(h)] # "superseded"
    BY <1>1, HelmHistory
  <2>2. \A j \in Keys : GoesOn(history[j], history[j])
    BY <1>0 DEF GoesOn
  <2>3. Latest => Latest'
    BY <1>0, <2>1 DEF Latest, Last
  <2> QED BY <1>0, <2>1, <2>2, <2>3
<1>2. UNCHANGED history \/ \E k \in Keys : Helm(k)
  BY ReleaseSteps
<1>3. /\ history' \in [Keys -> Seq(Statuses)]
      /\ \A j \in Keys : Len(history'[j]) \in Revisions /\ GoesOn(history[j], history'[j])
      /\ Latest => Latest'
  <2>1. CASE UNCHANGED history
    BY <1>0, <2>1 DEF GoesOn, Latest, Last
  <2> QED BY <1>1, <1>2, <2>1
<1>4. ASSUME NEW j \in Keys, NEW os, Parsed(j, os) PROVE Parsed(j, os)'
  <2>1. GoesOn(history[j], history'[j]) /\ Len(history[j]) \in Nat /\ Len(history'[j]) \in Nat
    BY <1>0, <1>3 DEF Revisions
  <2> QED BY <1>4, <2>1 DEF Parsed, GoesOn
<1> QED BY <1>3, <1>4 DEF GoesOn

-----------------------------------------------------------------------------
(* Types *)

\* The invariant says what every variable is.
LEMMA StateTypes ==
    TypeOK =>
       /\ cr \in [Keys -> {"unclaimed", "managed", "deleting", "gone"}]
       /\ rel \in [Keys -> RelRec] /\ call \in [Callers -> CallRec] /\ set \in [Keys -> SetRec]
       /\ heap \in [Objects -> StateRec] /\ stateChanges \in Seq(EventRec)
       /\ live \in [Resources -> LiveRec]
       /\ stateByKey \in [Keys -> 0..MaxObjects] /\ store \in [Keys -> 0..MaxObjects]
       /\ entries \in [Resources -> Keys \cup {NoKey}]
  BY DEF TypeOK, RelRec, CallRec, SetRec, StateRec, EventRec, LiveRec

\* The parts of the type invariant.
ClusterOK ==
    /\ cr \in [Keys -> {"unclaimed", "managed", "deleting", "gone"}]
    /\ status \in [Keys -> {"none", "Transitioning", "deployed", "failed", "uninstalled", "removed"}]
    /\ live \in [Resources -> LiveRec]
    /\ drifts \in 0..MaxDrift /\ faults \in 0..MaxFaults
    /\ relQueue \subseteq Keys

RegisterOK ==
    /\ stateByKey \in [Keys -> 0..MaxObjects]
    /\ stateChanges \in Seq(EventRec) /\ Len(stateChanges) <= Capacity
    /\ holder \in Callers \cup {NoKey}
    /\ entries \in [Resources -> Keys \cup {NoKey}]

InformerOK ==
    /\ listed \in BOOLEAN
    /\ store \in [Keys -> 0..MaxObjects]
    /\ setQueue \subseteq Keys
    /\ watching \subseteq Kinds
    /\ gvkQueue \subseteq Resources
    /\ missed \subseteq Keys

WorkersOK ==
    /\ rel \in [Keys -> RelRec] /\ call \in [Callers -> CallRec] /\ set \in [Keys -> SetRec]
    /\ heap \in [Objects -> StateRec]
    /\ WellFormed

\* The history apart, these are all of it.
LEMMA TypeParts ==
    TypeInv <=> /\ history \in [Keys -> Seq(Statuses)]
                /\ \A k \in Keys : Len(history[k]) \in Revisions
                /\ Latest
                /\ ClusterOK /\ RegisterOK /\ InformerOK /\ WorkersOK
  BY DEF TypeInv, TypeOK, ClusterOK, RegisterOK, InformerOK, WorkersOK,
         RelRec, CallRec, SetRec, StateRec, EventRec, LiveRec

\* Parts that a step leaves alone.
LEMMA SameParts ==
    /\ ClusterOK /\ UNCHANGED <<cr, status, live, drifts, faults, relQueue>> => ClusterOK'
    /\ RegisterOK /\ UNCHANGED <<stateByKey, stateChanges, holder, entries>> => RegisterOK'
    /\ InformerOK /\ UNCHANGED <<listed, store, setQueue, watching, gvkQueue, missed>> => InformerOK'
    /\ WorkersOK /\ UNCHANGED <<rel, call, set, heap>> => WorkersOK'
<1>1. ClusterOK /\ UNCHANGED <<cr, status, live, drifts, faults, relQueue>> => ClusterOK'
  BY DEF ClusterOK
<1>2. RegisterOK /\ UNCHANGED <<stateByKey, stateChanges, holder, entries>> => RegisterOK'
  BY DEF RegisterOK
<1>3. InformerOK /\ UNCHANGED <<listed, store, setQueue, watching, gvkQueue, missed>> => InformerOK'
  BY DEF InformerOK
<1>4. WorkersOK /\ UNCHANGED <<rel, call, set, heap>> => WorkersOK'
  BY DEF WorkersOK, WellFormed
<1> QED BY <1>1, <1>2, <1>3, <1>4

\* What the GVK watcher sees are resources.
LEMMA NotifyType ==
    ASSUME InformerOK, Notify, UNCHANGED <<listed, store, setQueue, watching, missed>> PROVE InformerOK'
  BY DEF InformerOK, Notify

\* The heap keeps its type when it is collected.
LEMMA CollectType ==
    ASSUME NEW h \in [Objects -> StateRec], Collect(h)
    PROVE  heap' \in [Objects -> StateRec] /\ \A p \in Objects : p \in Reachable' => heap'[p] = h[p]
  BY IdleTypes DEF Collect

\* A new object is one that nobody points to.
LEMMA FreshIsFree == Free # {} => Fresh \in Objects /\ Fresh \notin Reachable
<1> SUFFICES ASSUME Free # {} PROVE Fresh \in Free
  BY DEF Free
<1> QED BY DEF Fresh

\* Helm and the users.
LEMMA EnvironmentType ==
    ASSUME TypeInv, Environment
    PROVE  ClusterOK' /\ RegisterOK' /\ InformerOK' /\ WorkersOK'
<1>0. ClusterOK /\ RegisterOK /\ InformerOK /\ WorkersOK
  BY TypeParts
<1>1. ASSUME NEW k \in Keys, Helm(k) PROVE ClusterOK' /\ RegisterOK' /\ InformerOK' /\ WorkersOK'
  <2>1. UNCHANGED <<cr, status, drifts, faults, rel, register, listed, store, setQueue, set, watching, missed, heap>>
    BY <1>1 DEF Helm, HelmBegins, HelmWrites, HelmEnds, HelmUninstalls, informer, watcher
  <2>2. relQueue' \subseteq Keys
    BY <1>0, <1>1 DEF Helm, HelmBegins, HelmWrites, HelmEnds, HelmUninstalls, SetHistory, ClusterOK
  <2>3. Len(history[k]) \in 0..MaxRevision
    BY BoundsAssumption DEF TypeInv, TypeOK, Revisions
  <2>4. live' \in [Resources -> LiveRec]
    <3>1. ASSUME HelmWrites(k), NEW r \in Resources PROVE live'[r] \in LiveRec
      <4> DEFINE rev == Len(history[k])
      <4>1. live'[r] \in {[live[r] EXCEPT !.val = rev], Missing, live[r]}
        BY <3>1 DEF HelmWrites
      <4>2. live[r] \in LiveRec
        BY <1>0 DEF ClusterOK
      <4>3. [live[r] EXCEPT !.val = rev] \in LiveRec
        BY <2>3, <4>2 DEF LiveRec
      <4> QED BY <4>1, <4>2, <4>3, IdleTypes
    <3>2. ASSUME HelmUninstalls(k) PROVE live' \in [Resources -> LiveRec]
      BY <1>0, <3>2, IdleTypes DEF HelmUninstalls, ClusterOK
    <3>3. CASE HelmWrites(k)
      <4>1. DOMAIN live' = Resources /\ live' = [r \in DOMAIN live' |-> live'[r]]
        BY <3>3 DEF HelmWrites
      <4> QED BY <3>1, <3>3, <4>1
    <3>4. CASE HelmBegins(k) \/ HelmEnds(k)
      BY <1>0, <3>4 DEF HelmBegins, HelmEnds, ClusterOK
    <3> QED BY <1>1, <3>2, <3>3, <3>4 DEF Helm
  <2>5. InformerOK'
    <3>1. Notify \/ UNCHANGED gvkQueue
      BY <1>1 DEF Helm, HelmBegins, HelmWrites, HelmEnds, HelmUninstalls, watcher
    <3> QED BY <1>0, <2>1, <3>1, NotifyType, SameParts
  <2> QED BY <1>0, <2>1, <2>2, <2>4, <2>5, SameParts DEF ClusterOK, register
<1>2. ASSUME NEW r \in Resources, UserDrifts(r)
      PROVE  ClusterOK' /\ RegisterOK' /\ InformerOK' /\ WorkersOK'
  <2>1. UNCHANGED <<cr, status, faults, relQueue, rel, register, listed, store, setQueue, set, watching, missed, heap>>
    BY <1>2 DEF UserDrifts, release, informer
  <2>2. [live[r] EXCEPT !.val = Foreign] \in LiveRec
    BY <1>0, BoundsAssumption DEF ClusterOK, LiveRec, Foreign
  <2>3. live' \in [Resources -> LiveRec]
    BY <1>0, <1>2, <2>2, IdleTypes DEF UserDrifts, ClusterOK
  <2>4. drifts' \in 0..MaxDrift
    BY <1>0, <1>2, BoundsAssumption DEF UserDrifts, ClusterOK
  <2>5. InformerOK'
    BY <1>0, <1>2, <2>1, NotifyType DEF UserDrifts
  <2> QED BY <1>0, <2>1, <2>3, <2>4, <2>5, SameParts DEF ClusterOK, register
<1>3. ASSUME NEW k \in Keys, HelmReleaseDeleted(k)
      PROVE  ClusterOK' /\ RegisterOK' /\ InformerOK' /\ WorkersOK'
  <2>1. UNCHANGED <<history, status, live, drifts, faults, rel, register, informer, watcher, heap>>
    BY <1>3 DEF HelmReleaseDeleted
  <2>2. relQueue' \subseteq Keys /\ cr' \in [Keys -> {"unclaimed", "managed", "deleting", "gone"}]
    BY <1>0, <1>3 DEF HelmReleaseDeleted, ClusterOK
  <2> QED BY <1>0, <2>1, <2>2, SameParts DEF ClusterOK, register, informer, watcher
<1> QED BY <1>1, <1>2, <1>3 DEF Environment

\* A worker of the release controller goes on with another record: it is what
\* WellFormed says of it.
LEMMA RelWorkerType ==
    ASSUME WorkersOK, NEW k \in Keys, NEW x \in RelRec, rel' = [rel EXCEPT ![k] = x],
           UNCHANGED <<call, set>>, heap' \in [Objects -> StateRec],
           call[k].pc = "idle" \/ x.pc = "setting",
           x.pc \in Holding => x.old # Nil
    PROVE  WorkersOK'
<1>1. rel' \in [Keys -> RelRec]
  BY DEF WorkersOK
<1>2. WellFormed'
  <2>1. \A j \in Keys : rel'[j] = IF j = k THEN x ELSE rel[j]
    BY DEF WorkersOK
  <2> QED BY <2>1 DEF WorkersOK, WellFormed
<1> QED BY <1>1, <1>2 DEF WorkersOK

\* So does a caller of setState, and a release worker with it.
LEMMA CallType ==
    ASSUME WorkersOK, NEW c \in Callers, NEW x \in CallRec, call' = [call EXCEPT ![c] = x],
           UNCHANGED set, heap' \in [Objects -> StateRec],
           x.pc # "idle" => x.key \in Keys,
           c \notin Keys => UNCHANGED rel,
           c \in Keys => \E y \in RelRec : /\ rel' = [rel EXCEPT ![c] = y]
                                           /\ x.pc # "idle" => x.key = c /\ y.pc = "setting"
                                           /\ y.pc \notin Holding
    PROVE  WorkersOK'
<1>1. call' \in [Callers -> CallRec] /\ rel' \in [Keys -> RelRec]
  BY DEF WorkersOK
<1>2. WellFormed'
  <2>1. \A d \in Callers : call'[d] = IF d = c THEN x ELSE call[d]
    BY DEF WorkersOK
  <2>2. \A j \in Keys : j # c => rel'[j] = rel[j]
    BY DEF WorkersOK
  <2>3. \A j \in Keys : j \in Callers
    BY DEF Callers
  <2>4. \A d \in Callers : call'[d].pc # "idle" => call'[d].key \in Keys
    BY <2>1 DEF WorkersOK, WellFormed
  <2>5. \A j \in Keys : set'[j].pc = "read" => set'[j].obj # Nil
    BY DEF WorkersOK, WellFormed
  <2>6. ASSUME NEW j \in Keys
        PROVE  /\ call'[j].pc # "idle" => call'[j].key = j /\ rel'[j].pc = "setting"
               /\ rel'[j].pc \in Holding => rel'[j].old # Nil
    <3>1. CASE j = c
      <4>1. PICK y \in RelRec : /\ rel' = [rel EXCEPT ![c] = y]
                                /\ x.pc # "idle" => x.key = c /\ y.pc = "setting"
                                /\ y.pc \notin Holding
        BY <3>1
      <4>2. rel'[j] = y /\ call'[j] = x
        BY <2>1, <2>3, <3>1, <4>1 DEF WorkersOK
      <4> QED BY <3>1, <4>1, <4>2
    <3>2. CASE j # c
      <4>1. rel'[j] = rel[j] /\ call'[j] = call[j]
        BY <2>1, <2>2, <2>3, <3>2
      <4> QED BY <4>1 DEF WorkersOK, WellFormed
    <3> QED BY <3>1, <3>2
  <2> QED BY <2>4, <2>5, <2>6 DEF WellFormed
<1> QED BY <1>1, <1>2 DEF WorkersOK

\* So does a worker of the object set controller.
LEMMA SetType ==
    ASSUME WorkersOK, NEW k \in Keys, NEW x \in SetRec, set' = [set EXCEPT ![k] = x],
           UNCHANGED <<rel, call>>, heap' \in [Objects -> StateRec],
           x.pc = "read" => x.obj # Nil
    PROVE  WorkersOK'
<1>1. set' \in [Keys -> SetRec]
  BY DEF WorkersOK
<1>2. WellFormed'
  <2>1. \A j \in Keys : set'[j] = IF j = k THEN x ELSE set[j]
    BY DEF WorkersOK
  <2> QED BY <2>1 DEF WorkersOK, WellFormed
<1> QED BY <1>1, <1>2 DEF WorkersOK

\* The call of a release worker is idle unless it sets.
LEMMA IdleUnlessSetting ==
    ASSUME WorkersOK, NEW k \in Keys, rel[k].pc # "setting" PROVE call[k].pc = "idle"
  BY DEF WorkersOK, WellFormed

\* The status that the release controller reports.
LEMMA ReportedType ==
    ASSUME TypeInv, NEW k \in Keys
    PROVE  State(Last(k)) \in {"Transitioning", "deployed", "failed", "uninstalled", "removed"}
<1>1. Last(k) \in Statuses
  <2>1. history[k] \in Seq(Statuses) /\ Len(history[k]) \in 1..Len(history[k])
    BY BoundsAssumption DEF TypeInv, TypeOK, Revisions
  <2> QED BY <2>1, ElementOfSeq DEF Last
<1>2. Last(k) # "superseded"
  BY DEF TypeInv, Latest
<1> QED BY <1>1, <1>2 DEF State, Statuses

\* What SetStatus writes.
LEMMA SetStatusType ==
    ASSUME ClusterOK, NEW k \in Keys,
           NEW s \in {"Transitioning", "deployed", "failed", "uninstalled", "removed"},
           NEW queue \in SUBSET Keys, SetStatus(k, s, queue)
    PROVE  /\ status' \in [Keys -> {"none", "Transitioning", "deployed", "failed", "uninstalled", "removed"}]
           /\ relQueue' \subseteq Keys
  BY DEF ClusterOK, SetStatus

\* What an apply makes of the resources.
LEMMA AppliedType ==
    ASSUME live \in [Resources -> LiveRec], NEW k \in Keys, NEW os \in 0..MaxRevision
    PROVE  Applied(k, os) \in [Resources -> LiveRec]
<1>1. [val |-> os, set |-> k] \in LiveRec
  BY BoundsAssumption DEF LiveRec
<1>2. ASSUME NEW r \in Resources PROVE Applied(k, os)[r] \in LiveRec
  <2>1. Applied(k, os)[r] \in {[val |-> os, set |-> k], Missing, live[r]}
    BY DEF Applied
  <2> QED BY <1>1, <2>1, IdleTypes
<1>3. DOMAIN Applied(k, os) = Resources
      /\ Applied(k, os) = [r \in Resources |-> Applied(k, os)[r]]
  BY DEF Applied
<1> QED BY <1>2, <1>3

\* The release worker begins.
LEMMA ReleaseBeginsType ==
    ASSUME TypeInv, NEW k \in Keys,
           ClaimRelease(k) \/ ReconcileRelease(k) \/ ReleaseNotFound(k)
           \/ RemoveRelease(k) \/ IgnoreRelease(k)
    PROVE  ClusterOK' /\ RegisterOK' /\ InformerOK' /\ WorkersOK'
<1>0. /\ ClusterOK /\ RegisterOK /\ InformerOK /\ WorkersOK
      /\ rel[k] \in RelRec /\ heap \in [Objects -> StateRec] /\ k \in Callers
  BY TypeParts DEF WorkersOK, Callers
<1>a. rel[k].pc = "idle" /\ call[k].pc = "idle"
  BY <1>0, IdleUnlessSetting DEF ClaimRelease, ReconcileRelease, ReleaseNotFound, RemoveRelease, IgnoreRelease
<1>b. RegisterOK' /\ InformerOK'
  BY <1>0, SameParts DEF ClaimRelease, ReconcileRelease, ReleaseNotFound, RemoveRelease, IgnoreRelease,
     register, informer, watcher
<1>c. \A s \in RelSteps, b \in BOOLEAN : [IdleRel EXCEPT !.pc = s, !.purge = b] \in RelRec
                                         /\ [IdleRel EXCEPT !.pc = s] \in RelRec
                                         /\ [rel[k] EXCEPT !.pc = s] \in RelRec
                                         /\ [rel[k] EXCEPT !.pc = s].pc = s
  BY <1>0, IdleTypes DEF RelRec
<1>d. "setting" \in RelSteps /\ "unlock" \in RelSteps
  BY DEF RelSteps
<1>1. CASE ClaimRelease(k)
  <2>1. cr' \in [Keys -> {"unclaimed", "managed", "deleting", "gone"}]
    BY <1>0, <1>1 DEF ClaimRelease, ClusterOK
  <2> QED BY <1>0, <1>1, <1>b, <2>1, SameParts DEF ClaimRelease, ClusterOK, release, register, informer
<1>2. CASE ReconcileRelease(k)
  <2>1. ClusterOK'
    BY <1>0, <1>2, ReportedType, SetStatusType DEF ReconcileRelease, ClusterOK
  <2>2. CASE Last(k) = "deployed"
    <3> DEFINE x == [IdleCall EXCEPT !.pc = "get", !.key = k, !.os = Len(history[k])]
               y == [rel[k] EXCEPT !.pc = "setting"]
    <3>1. Len(history[k]) \in 0..MaxRevision
      BY BoundsAssumption DEF TypeInv, TypeOK, Revisions
    <3>2. x \in CallRec /\ x.pc # "idle" /\ x.key = k
      BY <3>1, IdleTypes DEF CallRec, CallSteps, IdleCall
    <3>3. y \in RelRec /\ y.pc = "setting"
      BY <1>c, <1>d
    <3>4. rel' = [rel EXCEPT ![k] = y] /\ call' = [call EXCEPT ![k] = x] /\ UNCHANGED <<set, heap>>
      BY <1>2, <2>2 DEF ReconcileRelease, informer
    <3> HIDE DEF x, y
    <3>5. \E z \in RelRec : /\ rel' = [rel EXCEPT ![k] = z]
                            /\ x.pc # "idle" => x.key = k /\ z.pc = "setting"
                            /\ z.pc \notin Holding
      BY <3>2, <3>3, <3>4 DEF Holding
    <3>6. WorkersOK'
      BY <1>0, <3>2, <3>4, <3>5, CallType
    <3> QED BY <1>b, <2>1, <3>6
  <2>3. CASE Last(k) # "deployed"
    <3> DEFINE y == [rel[k] EXCEPT !.pc = "unlock"]
    <3>1. y \in RelRec /\ y.pc = "unlock"
      BY <1>c, <1>d
    <3>2. rel' = [rel EXCEPT ![k] = y] /\ UNCHANGED <<call, set, heap>>
      BY <1>2, <2>3 DEF ReconcileRelease, informer
    <3> HIDE DEF y
    <3>3. WorkersOK'
      BY <1>0, <1>a, <3>1, <3>2, RelWorkerType DEF Holding
    <3> QED BY <1>b, <2>1, <3>3
  <2> QED BY <2>2, <2>3
<1>3. CASE ReleaseNotFound(k) \/ RemoveRelease(k) \/ IgnoreRelease(k)
  <2>1. ClusterOK'
    BY <1>0, <1>3 DEF ReleaseNotFound, RemoveRelease, IgnoreRelease, ClusterOK, cluster
  <2>2. UNCHANGED <<call, set, heap>>
    BY <1>3 DEF ReleaseNotFound, RemoveRelease, IgnoreRelease, register, informer
  <2>3. \/ UNCHANGED rel
        \/ rel' = [rel EXCEPT ![k] = [IdleRel EXCEPT !.pc = "get", !.purge = TRUE]]
        \/ rel' = [rel EXCEPT ![k] = [IdleRel EXCEPT !.pc = "get"]]
    BY <1>3 DEF ReleaseNotFound, RemoveRelease, IgnoreRelease
  <2>4. \A b \in BOOLEAN : [IdleRel EXCEPT !.pc = "get", !.purge = b] \in RelRec
                           /\ [IdleRel EXCEPT !.pc = "get", !.purge = b].pc = "get"
                           /\ [IdleRel EXCEPT !.pc = "get"] \in RelRec
                           /\ [IdleRel EXCEPT !.pc = "get"].pc = "get"
    BY IdleTypes DEF RelRec, RelSteps
  <2>5. WorkersOK'
    <3>1. CASE UNCHANGED rel
      BY <1>0, <2>2, <3>1, SameParts
    <3>2. ASSUME NEW x \in RelRec, x.pc = "get", rel' = [rel EXCEPT ![k] = x] PROVE WorkersOK'
      BY <1>0, <1>a, <2>2, <3>2, RelWorkerType DEF Holding
    <3> QED BY <2>3, <2>4, <3>1, <3>2
  <2> QED BY <1>b, <2>1, <2>5
<1> QED BY <1>1, <1>2, <1>3

\* The release worker unlocks, or removes the state.
LEMMA ReleaseGoesOnType ==
    ASSUME TypeInv, NEW k \in Keys, UnlockRelease(k) \/ Delete(k)
    PROVE  ClusterOK' /\ RegisterOK' /\ InformerOK' /\ WorkersOK'
<1>0. /\ ClusterOK /\ RegisterOK /\ InformerOK /\ WorkersOK
      /\ rel[k] \in RelRec /\ heap \in [Objects -> StateRec]
      /\ stateByKey[k] \in 0..MaxObjects
  BY TypeParts DEF WorkersOK, RegisterOK
<1>a. call[k].pc = "idle"
  <2>1. rel[k].pc # "setting"
    BY DEF UnlockRelease, Delete, DeleteGets, DeleteRemoves, DeleteClears, DeleteAnnounces, OnRemove, Purge
  <2> QED BY <1>0, <2>1, IdleUnlessSetting
<1>b. ASSUME NEW s \in RelSteps, NEW o \in 0..MaxObjects
      PROVE  /\ [rel[k] EXCEPT !.pc = s, !.old = o] \in RelRec
             /\ [rel[k] EXCEPT !.pc = s, !.old = o].pc = s /\ [rel[k] EXCEPT !.pc = s, !.old = o].old = o
             /\ [rel[k] EXCEPT !.old = o, !.pc = s] = [rel[k] EXCEPT !.pc = s, !.old = o]
             /\ [rel[k] EXCEPT !.pc = s] = [rel[k] EXCEPT !.pc = s, !.old = rel[k].old]
  BY <1>0 DEF RelRec
<1>c. {"onRemove", "remove", "clearSet", "clearLocked", "announce", "purge"} \subseteq RelSteps
      /\ Nil \in 0..MaxObjects /\ rel[k].old \in 0..MaxObjects
  BY <1>0, BoundsAssumption DEF RelSteps, Nil, RelRec
<1>d. ASSUME NEW s \in RelSteps, NEW o \in 0..MaxObjects,
             rel' = [rel EXCEPT ![k] = [rel[k] EXCEPT !.pc = s, !.old = o]],
             UNCHANGED <<call, set>>, heap' \in [Objects -> StateRec],
             s \in Holding => o # Nil
      PROVE  WorkersOK'
  <2> DEFINE x == [rel[k] EXCEPT !.pc = s, !.old = o]
  <2>1. x \in RelRec /\ x.pc = s /\ x.old = o /\ rel' = [rel EXCEPT ![k] = x]
    BY <1>b, <1>d
  <2> HIDE DEF x
  <2> QED BY <1>0, <1>a, <1>d, <2>1, RelWorkerType
<1>e. ASSUME rel' = [rel EXCEPT ![k] = IdleRel], UNCHANGED <<call, set>>, heap' \in [Objects -> StateRec]
      PROVE  WorkersOK'
  BY <1>0, <1>a, <1>e, RelWorkerType, IdleTypes DEF IdleRel, Holding
<1>1. CASE UnlockRelease(k)
  <2>1. entries' \in [Resources -> Keys \cup {NoKey}]
    BY <1>0, <1>1 DEF UnlockRelease, Without, RegisterOK
  <2>2. UNCHANGED <<cr, status, live, drifts, faults, relQueue, stateByKey, stateChanges, holder, call,
                    listed, store, setQueue, set, watching, gvkQueue, missed, heap>>
    BY <1>1 DEF UnlockRelease, cluster, informer, watcher
  <2>3. WorkersOK'
    BY <1>0, <1>1, <1>e, <2>2 DEF UnlockRelease
  <2> QED BY <1>0, <2>1, <2>2, <2>3, SameParts DEF RegisterOK
<1>2. CASE DeleteGets(k)
  <2>1. UNCHANGED <<cr, status, live, drifts, faults, relQueue, stateByKey, stateChanges, holder, entries, call,
                    listed, store, setQueue, set, watching, gvkQueue, missed, heap>>
    BY <1>2 DEF DeleteGets, cluster, register, informer, watcher
  <2> DEFINE s == IF stateByKey[k] = Nil THEN "onRemove" ELSE "remove"
  <2>2. rel' = [rel EXCEPT ![k] = [rel[k] EXCEPT !.pc = s, !.old = stateByKey[k]]]
    BY <1>0, <1>2 DEF DeleteGets, WorkersOK, RelRec
  <2>3. s \in RelSteps /\ (s \in Holding => stateByKey[k] # Nil)
    BY <1>c DEF Holding
  <2> HIDE DEF s
  <2>4. WorkersOK'
    BY <1>0, <1>d, <2>1, <2>2, <2>3
  <2> QED BY <1>0, <2>1, <2>4, SameParts
<1>3. CASE DeleteRemoves(k)
  <2>1. UNCHANGED <<cr, status, live, drifts, faults, relQueue, stateChanges, holder, entries, call,
                    listed, store, setQueue, set, watching, gvkQueue, missed>>
    BY <1>3 DEF DeleteRemoves, cluster, informer, watcher
  <2>2. rel' = [rel EXCEPT ![k] = [rel[k] EXCEPT !.pc = "clearSet", !.old = rel[k].old]]
    BY <1>3, <1>b, <1>c DEF DeleteRemoves
  <2>3. heap' \in [Objects -> StateRec]
    BY <1>0, <1>3, CollectType DEF DeleteRemoves
  <2>4. stateByKey' \in [Keys -> 0..MaxObjects]
    BY <1>0, <1>3, <1>c DEF DeleteRemoves, RegisterOK
  <2>5. rel[k].old # Nil
    BY <1>0, <1>3 DEF DeleteRemoves, WorkersOK, WellFormed, Holding
  <2>6. WorkersOK'
    BY <1>0, <1>c, <1>d, <2>1, <2>2, <2>3, <2>5
  <2> QED BY <1>0, <2>1, <2>4, <2>6, SameParts DEF RegisterOK
<1>4. CASE DeleteClears(k)
  <2>1. UNCHANGED <<cr, status, live, drifts, faults, relQueue, stateByKey, stateChanges, holder, entries, call,
                    listed, store, setQueue, set, watching, gvkQueue, missed>>
    BY <1>4 DEF DeleteClears, cluster, register, informer, watcher
  <2>2. heap' \in [Objects -> StateRec]
    <3>1. rel[k].old \in Objects
      BY <1>0, <1>4, BoundsAssumption DEF DeleteClears, WorkersOK, WellFormed, Holding, Objects, RelRec, Nil
    <3>2. heap[rel[k].old] \in StateRec /\ Nil \in 0..MaxRevision
      BY <1>0, <3>1, BoundsAssumption DEF Nil
    <3>3. /\ [heap[rel[k].old] EXCEPT !.os = Nil] \in StateRec
          /\ [heap[rel[k].old] EXCEPT !.locked = FALSE] \in StateRec
      BY <3>2 DEF StateRec
    <3> QED BY <1>0, <1>4, <3>1, <3>3 DEF DeleteClears
  <2>3. CASE rel[k].pc = "clearSet"
    <3>1. rel' = [rel EXCEPT ![k] = [rel[k] EXCEPT !.pc = "clearLocked", !.old = rel[k].old]]
      BY <1>4, <1>b, <1>c, <2>3 DEF DeleteClears
    <3>2. rel[k].old # Nil
      BY <1>0, <2>3 DEF WorkersOK, WellFormed, Holding
    <3> QED BY <1>0, <1>c, <1>d, <2>1, <2>2, <3>1, <3>2, SameParts
  <2>4. CASE rel[k].pc = "clearLocked"
    <3>1. rel' = [rel EXCEPT ![k] = [rel[k] EXCEPT !.pc = "announce", !.old = rel[k].old]]
      BY <1>4, <1>b, <1>c, <2>4 DEF DeleteClears
    <3> QED BY <1>0, <1>c, <1>d, <2>1, <2>2, <3>1, SameParts DEF Holding
  <2> QED BY <1>4, <2>3, <2>4 DEF DeleteClears
<1>5. CASE DeleteAnnounces(k)
  <2>1. UNCHANGED <<cr, status, live, drifts, faults, relQueue, stateByKey, holder, entries, call,
                    listed, store, setQueue, set, watching, gvkQueue, missed>>
    BY <1>5 DEF DeleteAnnounces, cluster, informer, watcher
  <2>2. rel' = [rel EXCEPT ![k] = [rel[k] EXCEPT !.pc = "onRemove", !.old = Nil]]
    BY <1>5 DEF DeleteAnnounces
  <2>3. heap' \in [Objects -> StateRec]
    BY <1>0, <1>5, CollectType DEF DeleteAnnounces
  <2>4. stateChanges' \in Seq(EventRec) /\ Len(stateChanges') <= Capacity
    <3>1. stateChanges \in Seq(EventRec) /\ [key |-> k, obj |-> Nil] \in EventRec
      BY <1>0, <1>c DEF RegisterOK, EventRec
    <3>2. Len(stateChanges) \in Nat /\ Len(stateChanges) < Capacity
      BY <1>5, <3>1, LenProperties DEF DeleteAnnounces
    <3> QED BY <1>5, <3>1, <3>2, AppendProperties, BoundsAssumption DEF DeleteAnnounces
  <2>5. WorkersOK'
    BY <1>0, <1>c, <1>d, <2>1, <2>2, <2>3 DEF Holding
  <2> QED BY <1>0, <2>1, <2>4, <2>5, SameParts DEF RegisterOK
<1>6. CASE OnRemove(k)
  <2>1. UNCHANGED <<status, live, drifts, faults, stateByKey, stateChanges, holder, call,
                    listed, store, setQueue, set, watching, gvkQueue, missed, heap>>
    BY <1>6 DEF OnRemove, informer, watcher
  <2>2. entries' \in [Resources -> Keys \cup {NoKey}]
    BY <1>0, <1>6 DEF OnRemove, Without, RegisterOK
  <2>3. cr' \in [Keys -> {"unclaimed", "managed", "deleting", "gone"}] /\ relQueue' \subseteq Keys
    BY <1>0, <1>6 DEF OnRemove, ClusterOK
  <2>4. CASE rel[k].purge
    <3>1. rel' = [rel EXCEPT ![k] = [rel[k] EXCEPT !.pc = "purge", !.old = rel[k].old]]
      BY <1>6, <1>b, <1>c, <2>4 DEF OnRemove
    <3> QED BY <1>0, <1>c, <1>d, <2>1, <2>2, <2>3, <3>1, SameParts DEF ClusterOK, RegisterOK, Holding
  <2>5. CASE ~rel[k].purge
    <3>1. rel' = [rel EXCEPT ![k] = IdleRel]
      BY <1>6, <2>5 DEF OnRemove
    <3>2. WorkersOK'
      BY <1>0, <1>e, <2>1, <3>1
    <3> QED BY <1>0, <2>1, <2>2, <2>3, <3>2, SameParts DEF ClusterOK, RegisterOK
  <2> QED BY <2>4, <2>5
<1>7. CASE Purge(k)
  <2>1. UNCHANGED <<cr, drifts, stateByKey, stateChanges, holder, entries, call,
                    listed, store, setQueue, set, watching, missed, heap>>
    BY <1>7 DEF Purge, register, informer
  <2>2. /\ status' \in [Keys -> {"none", "Transitioning", "deployed", "failed", "uninstalled", "removed"}]
        /\ relQueue' \subseteq Keys
    <3>1. relQueue \in SUBSET Keys
      BY <1>0 DEF ClusterOK
    <3> QED BY <1>0, <1>7, <3>1, SetStatusType DEF Purge
  <2>3. faults' \in 0..MaxFaults
    BY <1>0, <1>7, BoundsAssumption DEF Purge, Fails, ClusterOK
  <2>4. live' \in [Resources -> LiveRec]
    <3>1. live \in [Resources -> LiveRec]
      BY <1>0 DEF ClusterOK
    <3>2. Applied(k, Nil) \in [Resources -> LiveRec]
      BY <3>1, AppliedType, BoundsAssumption DEF Nil
    <3> QED BY <1>7, <3>1, <3>2 DEF Purge
  <2>5. WorkersOK'
    BY <1>0, <1>7, <1>e, <2>1 DEF Purge
  <2>6. InformerOK'
    BY <1>0, <1>7, <2>1, NotifyType DEF Purge
  <2> QED BY <1>0, <2>1, <2>2, <2>3, <2>4, <2>5, <2>6, SameParts DEF ClusterOK
<1> QED BY <1>1, <1>2, <1>3, <1>4, <1>5, <1>6, <1>7 DEF Delete

\* setState.
LEMMA SetStateType ==
    ASSUME TypeInv, NEW c \in Callers, SetState(c)
    PROVE  ClusterOK' /\ RegisterOK' /\ InformerOK' /\ WorkersOK'
<1>0. /\ ClusterOK /\ RegisterOK /\ InformerOK /\ WorkersOK
      /\ call[c] \in CallRec /\ heap \in [Objects -> StateRec]
  BY TypeParts DEF WorkersOK
<1>a. call[c].pc # "idle" /\ call[c].key \in Keys
  <2>1. call[c].pc # "idle"
    BY DEF SetState, SetStateGets, SetStateCopies, SetStateBlocks, SetStateSends
  <2> QED BY <1>0, <2>1 DEF WorkersOK, WellFormed
<1>b. ClusterOK' /\ InformerOK'
  <2>1. UNCHANGED <<cr, status, live, drifts, faults, relQueue, listed, store, setQueue, watching, gvkQueue, missed>>
    BY DEF SetState, SetStateGets, SetStateCopies, SetStateBlocks, SetStateSends, cluster, release,
           informer, watcher
  <2> QED BY <1>0, <2>1, SameParts
<1>c. ASSUME NEW x \in CallRec, x.pc # "idle", x.key = call[c].key, call' = [call EXCEPT ![c] = x],
             UNCHANGED <<rel, set>>, heap' \in [Objects -> StateRec]
      PROVE  WorkersOK'
  <2>1. c \in Keys => \E y \in RelRec : /\ rel' = [rel EXCEPT ![c] = y]
                                        /\ x.pc # "idle" => x.key = c /\ y.pc = "setting"
                                        /\ y.pc \notin Holding
    <3> SUFFICES ASSUME c \in Keys
                 PROVE  /\ rel[c] \in RelRec /\ rel' = [rel EXCEPT ![c] = rel[c]]
                        /\ x.key = c /\ rel[c].pc = "setting" /\ rel[c].pc \notin Holding
      BY <1>c
    <3>1. rel[c] \in RelRec /\ rel' = [rel EXCEPT ![c] = rel[c]]
      BY <1>0, <1>c DEF WorkersOK
    <3>2. call[c].key = c /\ rel[c].pc = "setting"
      BY <1>0, <1>a DEF WorkersOK, WellFormed
    <3> QED BY <1>c, <3>1, <3>2 DEF Holding
  <2> QED BY <1>0, <1>a, <1>c, <2>1, CallType
<1>1. CASE SetStateGets(c)
  <2> DEFINE x == [call[c] EXCEPT !.pc = "copy", !.old = stateByKey[call[c].key]]
  <2>1. stateByKey[call[c].key] \in 0..MaxObjects
    BY <1>0, <1>a DEF RegisterOK
  <2>2. x \in CallRec /\ x.pc = "copy" /\ x.key = call[c].key
    BY <1>0, <2>1 DEF CallRec, CallSteps
  <2>3. call' = [call EXCEPT ![c] = x] /\ UNCHANGED <<rel, set, heap>>
    BY <1>1 DEF SetStateGets, release, informer
  <2>4. UNCHANGED <<stateByKey, stateChanges, holder, entries>>
    BY <1>1 DEF SetStateGets
  <2> HIDE DEF x
  <2>5. WorkersOK'
    BY <1>0, <1>c, <2>2, <2>3
  <2> QED BY <1>0, <1>b, <2>4, <2>5, SameParts
<1>2. CASE SetStateCopies(c)
  <2> DEFINE base == IF call[c].old = Nil THEN Unused ELSE heap[call[c].old]
             x == [call[c] EXCEPT !.pc = "publish", !.old = Nil,
                                  !.os = IF call[c].os = Nil THEN base.os ELSE call[c].os,
                                  !.locked = base.locked \/ call[c].os # Nil]
  <2>1. base \in StateRec
    <3>1. call[c].old = Nil \/ call[c].old \in Objects
      BY <1>0, BoundsAssumption DEF CallRec, Objects, Nil
    <3> QED BY <1>0, <3>1, IdleTypes
  <2>2. call' = [call EXCEPT ![c] = x] /\ UNCHANGED <<rel, set>>
    BY <1>2 DEF SetStateCopies, release, informer
  <2>3. UNCHANGED <<stateByKey, stateChanges, holder, entries>>
    BY <1>2 DEF SetStateCopies
  <2>4. heap' \in [Objects -> StateRec]
    BY <1>0, <1>2, CollectType DEF SetStateCopies
  <2>5. base.os \in 0..MaxRevision /\ base.locked \in BOOLEAN
    BY <2>1 DEF StateRec
  <2> HIDE DEF base
  <2>6. x \in CallRec /\ x.pc = "publish" /\ x.key = call[c].key
    <3>1. (IF call[c].os = Nil THEN base.os ELSE call[c].os) \in 0..MaxRevision
      BY <1>0, <2>5 DEF CallRec
    <3>2. (base.locked \/ call[c].os # Nil) \in BOOLEAN
      OBVIOUS
    <3>3. Nil \in 0..MaxObjects
      BY BoundsAssumption DEF Nil
    <3> QED BY <1>0, <3>1, <3>2, <3>3 DEF CallRec, CallSteps
  <2> HIDE DEF x
  <2>7. WorkersOK'
    BY <1>0, <1>c, <2>2, <2>4, <2>6
  <2> QED BY <1>0, <1>b, <2>3, <2>7, SameParts
<1>3. CASE SetStateBlocks(c)
  <2>1. UNCHANGED <<rel, call, set, heap, stateByKey, stateChanges, entries>> /\ holder' = c
    BY <1>3 DEF SetStateBlocks, release, informer
  <2> QED BY <1>0, <1>b, <2>1, SameParts DEF RegisterOK
<1>4. CASE SetStateSends(c)
  <2>1. Fresh \in Objects
    BY <1>4, FreshIsFree DEF SetStateSends
  <2>2. heap' \in [Objects -> StateRec]
    <3>1. [os |-> call[c].os, locked |-> call[c].locked] \in StateRec
      BY <1>0 DEF CallRec, StateRec
    <3>2. [heap EXCEPT ![Fresh] = [os |-> call[c].os, locked |-> call[c].locked]] \in [Objects -> StateRec]
      BY <1>0, <3>1
    <3> QED BY <1>4, <3>2, CollectType DEF SetStateSends
  <2>3. UNCHANGED <<entries, set>> /\ holder' = NoKey
        /\ call' = [call EXCEPT ![c] = IdleCall]
        /\ rel' = IF c \in Keys THEN [rel EXCEPT ![c] = IdleRel] ELSE rel
    BY <1>4 DEF SetStateSends, informer
  <2>4. stateByKey' \in [Keys -> 0..MaxObjects] /\ stateChanges' \in Seq(EventRec)
        /\ Len(stateChanges') <= Capacity
    <3>1. Fresh \in 0..MaxObjects
      BY <2>1, BoundsAssumption DEF Objects
    <3>2. stateChanges \in Seq(EventRec) /\ [key |-> call[c].key, obj |-> Fresh] \in EventRec
      BY <1>0, <1>a, <3>1 DEF RegisterOK, EventRec
    <3>3. Len(stateChanges) \in Nat /\ Len(stateChanges) < Capacity
      BY <1>4, <3>2, LenProperties DEF SetStateSends
    <3>4. stateChanges' \in Seq(EventRec) /\ Len(stateChanges') <= Capacity
      BY <1>4, <3>2, <3>3, AppendProperties, BoundsAssumption DEF SetStateSends
    <3> QED BY <1>0, <1>4, <3>1, <3>4 DEF SetStateSends, RegisterOK
  <2>5. WorkersOK'
    <3>1. IdleCall \in CallRec /\ IdleCall.pc = "idle" /\ IdleRel \in RelRec /\ IdleRel.pc \notin Holding
      BY IdleTypes DEF IdleCall, IdleRel, Holding
    <3> QED BY <1>0, <2>2, <2>3, <3>1, CallType
  <2> QED BY <1>0, <1>b, <2>3, <2>4, <2>5 DEF RegisterOK
<1> QED BY <1>1, <1>2, <1>3, <1>4 DEF SetState

\* The kinds of an object set are kinds, and its objects are resources.
LEMMA KindsAreKinds ==
    ASSUME NEW k \in Keys, NEW os \in 0..MaxRevision
    PROVE  ObjectsOf(k, os) \subseteq Resources /\ KindsOf(k, os) \subseteq Kinds
<1>1. ObjectsOf(k, os) \subseteq Resources
  BY ManifestAssumption, BoundsAssumption DEF ObjectsOf, Revisions, Nil
<1> QED BY <1>1, KindAssumption DEF KindsOf

\* The workers of the object set controller.
LEMMA SetWorkerType ==
    ASSUME TypeInv, NEW k \in Keys, SetWorker(k) \/ ReconcileFails(k) \/ LockFails(k)
    PROVE  ClusterOK' /\ RegisterOK' /\ InformerOK' /\ WorkersOK'
<1>0. /\ ClusterOK /\ RegisterOK /\ InformerOK /\ WorkersOK
      /\ set[k] \in SetRec /\ heap \in [Objects -> StateRec] /\ set[k].os \in 0..MaxRevision
      /\ store[k] \in 0..MaxObjects /\ stateByKey[k] \in 0..MaxObjects
  BY TypeParts DEF WorkersOK, RegisterOK, InformerOK, SetRec
<1>a. ASSUME NEW s \in SetSteps, NEW o \in 0..MaxObjects, NEW os \in 0..MaxRevision,
             set' = [set EXCEPT ![k] = [pc |-> s, obj |-> o, os |-> os]],
             UNCHANGED <<rel, call>>, heap' \in [Objects -> StateRec], s = "read" => o # Nil
      PROVE  WorkersOK'
  <2> DEFINE x == [pc |-> s, obj |-> o, os |-> os]
  <2>1. x \in SetRec /\ x.pc = s /\ x.obj = o /\ set' = [set EXCEPT ![k] = x]
    BY <1>a DEF SetRec
  <2> HIDE DEF x
  <2> QED BY <1>0, <1>a, <2>1, SetType
<1>b. {"idle", "read", "write", "getLock", "lock"} \subseteq SetSteps
      /\ Nil \in 0..MaxObjects /\ Nil \in 0..MaxRevision
  BY BoundsAssumption DEF SetSteps, Nil
<1>c. ASSUME NEW p, p \in 0..MaxObjects, p # Nil PROVE p \in Objects /\ heap[p].os \in 0..MaxRevision
  <2>1. p \in Objects
    BY <1>c, BoundsAssumption DEF Objects, Nil
  <2> QED BY <1>0, <2>1 DEF StateRec
<1>1. CASE NothingToReconcile(k)
  BY <1>0, <1>1, SameParts DEF NothingToReconcile, cluster, release, register, watcher, InformerOK
<1>2. CASE StartReconcile(k)
  <2>1. UNCHANGED <<cr, status, live, drifts, faults, relQueue, rel, stateByKey, stateChanges, holder,
                    call, listed, store, watching, gvkQueue, missed, heap>>
    BY <1>2 DEF StartReconcile, cluster, release, watcher
  <2>2. entries' \in [Resources -> Keys \cup {NoKey}] /\ setQueue' \subseteq Keys
    BY <1>0, <1>2 DEF StartReconcile, Without, RegisterOK, InformerOK
  <2>3. CASE heap[store[k]].locked
    <3>1. set' = [set EXCEPT ![k] = [pc |-> "read", obj |-> store[k], os |-> Nil]] /\ store[k] # Nil
      BY <1>2, <2>3 DEF StartReconcile
    <3>2. WorkersOK'
      BY <1>0, <1>a, <1>b, <2>1, <3>1
    <3> QED BY <1>0, <2>1, <2>2, <3>2, SameParts DEF RegisterOK, InformerOK
  <2>4. CASE ~heap[store[k]].locked
    <3>1. UNCHANGED set
      BY <1>2, <2>4 DEF StartReconcile
    <3> QED BY <1>0, <2>1, <2>2, <3>1, SameParts DEF RegisterOK, InformerOK
  <2> QED BY <2>3, <2>4
<1>3. CASE ReconcileReads(k)
  <2>1. UNCHANGED <<cr, status, live, drifts, faults, relQueue, rel, stateByKey, stateChanges, holder, entries,
                    call, listed, store, setQueue, watching, gvkQueue, missed>>
    BY <1>3 DEF ReconcileReads, cluster, release, register, watcher
  <2>2. heap' \in [Objects -> StateRec]
    BY <1>0, <1>3, CollectType DEF ReconcileReads
  <2>3. set[k].obj \in 0..MaxObjects /\ set[k].obj # Nil
    BY <1>0, <1>3 DEF ReconcileReads, SetRec, WorkersOK, WellFormed
  <2>4. set' = [set EXCEPT ![k] = [pc |-> "write", obj |-> Nil, os |-> heap[set[k].obj].os]]
    BY <1>3 DEF ReconcileReads
  <2>5. WorkersOK'
    BY <1>a, <1>b, <1>c, <2>1, <2>2, <2>3, <2>4
  <2> QED BY <1>0, <2>1, <2>5, SameParts
<1>4. CASE ReconcileApplies(k) \/ ReconcileFails(k)
  <2>1. UNCHANGED <<cr, status, drifts, relQueue, rel, stateByKey, stateChanges, holder, entries,
                    call, listed, store, watching, missed, heap>> /\ Notify
    BY <1>4 DEF ReconcileApplies, ReconcileFails, release, register
  <2>2. Applied(k, set[k].os) \in [Resources -> LiveRec]
        /\ live \in [Resources -> LiveRec]
    BY <1>0, AppliedType DEF ClusterOK
  <2>3. live' \in [Resources -> LiveRec]
    BY <1>4, <2>2 DEF ReconcileApplies, ReconcileFails
  <2>4. faults' \in 0..MaxFaults /\ setQueue' \subseteq Keys
    BY <1>0, <1>4, BoundsAssumption DEF ReconcileApplies, ReconcileFails, Fails, ClusterOK, InformerOK
  <2>5. set' = [set EXCEPT ![k] = [pc |-> "getLock", obj |-> Nil, os |-> Nil]]
    BY <1>4 DEF ReconcileApplies, ReconcileFails, IdleSet
  <2>6. WorkersOK'
    BY <1>0, <1>a, <1>b, <2>1, <2>5
  <2>7. gvkQueue' \subseteq Resources
    BY <1>0, <2>1 DEF Notify, InformerOK
  <2> QED BY <1>0, <2>1, <2>3, <2>4, <2>6, <2>7, SameParts DEF ClusterOK, InformerOK
<1>5. CASE LockGets(k)
  <2>1. UNCHANGED <<cr, status, live, drifts, faults, relQueue, rel, stateByKey, stateChanges, holder, entries,
                    call, listed, store, setQueue, watching, gvkQueue, missed, heap>>
    BY <1>5 DEF LockGets, cluster, release, register, watcher
  <2> DEFINE os == IF stateByKey[k] = Nil THEN Nil ELSE heap[stateByKey[k]].os
  <2>2. os \in 0..MaxRevision
    BY <1>0, <1>b, <1>c
  <2>3. \/ set' = [set EXCEPT ![k] = [pc |-> "idle", obj |-> Nil, os |-> Nil]]
        \/ set' = [set EXCEPT ![k] = [pc |-> "lock", obj |-> Nil, os |-> os]]
    BY <1>5 DEF LockGets, IdleSet
  <2> HIDE DEF os
  <2>4. WorkersOK'
    BY <1>0, <1>a, <1>b, <2>1, <2>2, <2>3
  <2> QED BY <1>0, <2>1, <2>4, SameParts
<1>6. CASE Locking(k)
  <2>1. UNCHANGED <<cr, status, live, drifts, relQueue, rel, stateByKey, stateChanges, holder,
                    call, listed, store, setQueue, heap>>
        /\ set' = [set EXCEPT ![k] = [pc |-> "idle", obj |-> Nil, os |-> Nil]]
    BY <1>6 DEF Locking, LockEntries, LockFails, cluster, release, IdleSet
  <2>2. PICK kinds, watched \in SUBSET KindsOf(k, set[k].os) :
          UNCHANGED <<entries, watcher>> \/ TakeEntries(k, kinds, watched)
    <3>1. CASE LockEntries(k)
      BY <3>1 DEF LockEntries
    <3>2. CASE LockFails(k)
      BY <3>2 DEF LockFails
    <3> QED BY <1>6, <3>1, <3>2 DEF Locking
  <2>3. KindsOf(k, set[k].os) \subseteq Kinds
    BY <1>0, KindsAreKinds
  <2>4. entries' \in [Resources -> Keys \cup {NoKey}]
    BY <1>0, <2>2 DEF TakeEntries, Without, RegisterOK, watcher
  <2>5. watching' \subseteq Kinds /\ gvkQueue' \subseteq Resources
    BY <1>0, <2>2, <2>3 DEF TakeEntries, InformerOK, watcher
  <2>6. missed' \subseteq Keys /\ faults' \in 0..MaxFaults
    BY <1>0, <1>6, BoundsAssumption
       DEF Locking, LockEntries, LockFails, Fails, InformerOK, ClusterOK, cluster, watcher
  <2>7. WorkersOK'
    BY <1>0, <1>a, <1>b, <2>1
  <2> QED BY <1>0, <2>1, <2>4, <2>5, <2>6, <2>7, SameParts DEF ClusterOK, RegisterOK, InformerOK
<1> QED BY <1>1, <1>2, <1>3, <1>4, <1>5, <1>6 DEF SetWorker, Locking

\* A worker of the GVK watcher.
LEMMA ResolveType ==
    ASSUME TypeInv, NEW w \in Watchers, Resolve(w)
    PROVE  ClusterOK' /\ RegisterOK' /\ InformerOK' /\ WorkersOK'
<1>0. ClusterOK /\ RegisterOK /\ InformerOK /\ WorkersOK /\ w \in Callers /\ w \notin Keys
  BY TypeParts, NamesAssumption DEF Callers
<1>1. UNCHANGED <<cr, status, live, drifts, faults, relQueue, rel, stateByKey, stateChanges, holder, entries,
                  listed, store, setQueue, set, watching, missed, heap>>
  BY DEF Resolve, cluster, release, informer
<1>2. gvkQueue' \subseteq Resources
  BY <1>0 DEF Resolve, InformerOK
<1>3. PICK r \in Resources :
         call' = IF entries[r] = NoKey THEN call
                 ELSE [call EXCEPT ![w] = [IdleCall EXCEPT !.pc = "get", !.key = entries[r]]]
  BY <1>0 DEF Resolve, InformerOK
<1>4. CASE entries[r] = NoKey
  BY <1>0, <1>1, <1>2, <1>3, <1>4, SameParts DEF InformerOK
<1>5. CASE entries[r] # NoKey
  <2> DEFINE x == [IdleCall EXCEPT !.pc = "get", !.key = entries[r]]
  <2>1. entries[r] \in Keys
    BY <1>0, <1>5 DEF RegisterOK
  <2>2. x \in CallRec /\ x.key \in Keys
    BY <2>1, IdleTypes DEF CallRec, CallSteps, IdleCall
  <2>3. call' = [call EXCEPT ![w] = x]
    BY <1>3, <1>5
  <2> HIDE DEF x
  <2>4. heap' \in [Objects -> StateRec]
    BY <1>0, <1>1 DEF WorkersOK
  <2>5. WorkersOK'
    BY <1>0, <1>1, <2>2, <2>3, <2>4, CallType
  <2> QED BY <1>0, <1>1, <1>2, <2>5, SameParts DEF InformerOK
<1> QED BY <1>4, <1>5

\* The informer.
LEMMA InformerType ==
    ASSUME TypeInv, Informer
    PROVE  ClusterOK' /\ RegisterOK' /\ InformerOK' /\ WorkersOK'
<1>0. ClusterOK /\ RegisterOK /\ InformerOK /\ WorkersOK /\ heap \in [Objects -> StateRec]
  BY TypeParts DEF WorkersOK
<1>a. UNCHANGED <<cr, status, live, drifts, faults, relQueue, rel, stateByKey, holder, entries, call,
                  set, watching, gvkQueue, missed>>
  BY DEF Informer, ListStates, Deliver, cluster, release, register, watcher
<1>b. ASSUME heap' \in [Objects -> StateRec] PROVE WorkersOK'
  BY <1>0, <1>a, <1>b DEF WorkersOK, WellFormed
<1>1. CASE ListStates
  <2> DEFINE copies == {f \in [Keys -> Free] : \A j, k \in Keys : f[j] = f[k] => j = k}
             copy == CHOOSE f \in copies : TRUE
             h == [p \in Objects |->
                     IF \E k \in Keys : store'[k] = p
                     THEN heap[stateByKey[CHOOSE k \in Keys : store'[k] = p]] ELSE heap[p]]
  <2>1. copies # {} /\ listed' = TRUE /\ setQueue' = {k \in Keys : stateByKey[k] # Nil}
        /\ store' = [k \in Keys |-> IF stateByKey[k] = Nil THEN Nil ELSE copy[k]]
        /\ Collect(h) /\ UNCHANGED stateChanges
    BY <1>1, Zenon DEF ListStates, register
  <2>2. copy \in [Keys -> Objects]
    BY <2>1 DEF Free
  <2> HIDE DEF copies, copy
  <2>3. store' \in [Keys -> 0..MaxObjects]
    BY <2>1, <2>2, BoundsAssumption DEF Nil, Objects
  <2>4. h \in [Objects -> StateRec]
    <3>1. ASSUME NEW p \in Objects, NEW k \in Keys, store'[k] = p PROVE heap[stateByKey[k]] \in StateRec
      <4>1. stateByKey[k] \in Objects
        BY <1>0, <2>1, <3>1, BoundsAssumption DEF RegisterOK, Objects, Nil
      <4> QED BY <1>0, <4>1
    <3>2. ASSUME NEW p \in Objects PROVE h[p] \in StateRec
      BY <1>0, <3>1
    <3> QED BY <3>2
  <2> HIDE DEF h
  <2>5. heap' \in [Objects -> StateRec]
    BY <2>1, <2>4, CollectType
  <2> QED BY <1>0, <1>a, <1>b, <2>1, <2>3, <2>5, SameParts DEF InformerOK
<1>2. CASE Deliver
  <2>1. heap' \in [Objects -> StateRec]
    BY <1>0, <1>2, CollectType DEF Deliver
  <2>2. stateChanges \in Seq(EventRec) /\ stateChanges # <<>> /\ stateChanges' = Tail(stateChanges)
    BY <1>0, <1>2 DEF Deliver, RegisterOK
  <2>3. Head(stateChanges) \in EventRec /\ stateChanges' \in Seq(EventRec)
        /\ Len(stateChanges') <= Len(stateChanges) /\ Len(stateChanges) \in Nat /\ Len(stateChanges') \in Nat
    BY <2>2, HeadTailProperties, LenProperties
  <2>4. RegisterOK'
    BY <1>0, <1>a, <2>3, BoundsAssumption DEF RegisterOK
  <2>5. InformerOK'
    BY <1>0, <1>2, <1>a, <2>3 DEF Deliver, InformerOK, EventRec
  <2> QED BY <1>0, <1>a, <1>b, <2>1, <2>4, <2>5, SameParts
<1> QED BY <1>1, <1>2 DEF Informer

\* The start, and a restart.
LEMMA EmptyType ==
    /\ [k \in Keys |-> IdleRel] \in [Keys -> RelRec]
    /\ [c \in Callers |-> IdleCall] \in [Callers -> CallRec]
    /\ [k \in Keys |-> IdleSet] \in [Keys -> SetRec]
    /\ [p \in Objects |-> Unused] \in [Objects -> StateRec]
    /\ [k \in Keys |-> Nil] \in [Keys -> 0..MaxObjects]
    /\ [r \in Resources |-> NoKey] \in [Resources -> Keys \cup {NoKey}]
    /\ <<>> \in Seq(EventRec) /\ Len(<<>>) = 0
<1>1. Nil \in 0..MaxObjects
  BY BoundsAssumption DEF Nil
<1> QED BY <1>1, IdleTypes

\* Nothing that is idle breaks WellFormed.
LEMMA EmptyWellFormed ==
    /\ rel = [k \in Keys |-> IdleRel] /\ call = [c \in Callers |-> IdleCall]
       /\ set = [k \in Keys |-> IdleSet]
       => WellFormed
    /\ rel' = [k \in Keys |-> IdleRel] /\ call' = [c \in Callers |-> IdleCall]
       /\ set' = [k \in Keys |-> IdleSet]
       => WellFormed'
<1>1. \A k \in Keys : k \in Callers
  BY DEF Callers
<1> QED BY <1>1 DEF WellFormed, IdleRel, IdleCall, IdleSet, Holding

\* Where the operator starts.
LEMMA StartType == ASSUME NEW l \in BOOLEAN, Start(l) PROVE TypeInv
<1>1. history \in [Keys -> Seq(Statuses)] /\ (\A k \in Keys : Len(history[k]) \in Revisions) /\ Latest
  <2>1. <<"deployed">> \in Seq(Statuses) /\ Len(<<"deployed">>) = 1 /\ <<"deployed">>[1] = "deployed"
    BY DEF Statuses
  <2>2. 1 \in Revisions
    BY BoundsAssumption DEF Revisions
  <2>3. history = [k \in Keys |-> <<"deployed">>]
    BY DEF Start
  <2> QED BY <2>1, <2>2, <2>3 DEF Latest, Last
<1>2. ClusterOK
  <2>1. [val |-> 1, set |-> NoKey] \in LiveRec /\ Missing \in LiveRec /\ {0} \subseteq 0..MaxDrift
        /\ {0} \subseteq 0..MaxFaults
    BY IdleTypes, BoundsAssumption DEF LiveRec
  <2>2. live \in [Resources -> LiveRec]
    BY <2>1 DEF Start
  <2> QED BY <2>1, <2>2 DEF Start, ClusterOK
<1>3. RegisterOK
  BY EmptyType, BoundsAssumption DEF Start, RegisterOK
<1>4. InformerOK
  BY EmptyType DEF Start, InformerOK
<1>5. WorkersOK
  BY EmptyType, EmptyWellFormed DEF Start, WorkersOK
<1> QED BY <1>1, <1>2, <1>3, <1>4, <1>5, TypeParts

\* A restart of the operator.
LEMMA RestartType == ASSUME TypeInv, Restart PROVE ClusterOK' /\ RegisterOK' /\ InformerOK' /\ WorkersOK'
<1>1. ClusterOK'
  BY TypeParts, BoundsAssumption DEF Restart, Fails, ClusterOK
<1>2. RegisterOK'
  <2>1. 0 <= Capacity
    BY BoundsAssumption
  <2>2. stateByKey' = [k \in Keys |-> Nil] /\ stateChanges' = <<>> /\ holder' = NoKey
        /\ entries' = [r \in Resources |-> NoKey]
    BY DEF Restart
  <2> QED BY <2>1, <2>2, EmptyType DEF RegisterOK
<1>3. InformerOK'
  BY EmptyType DEF Restart, InformerOK
<1>4. WorkersOK'
  BY EmptyType, EmptyWellFormed DEF Restart, WorkersOK
<1> QED BY <1>1, <1>2, <1>3, <1>4

\* Every step.
LEMMA NextType == TypeInv /\ [Next]_vars => TypeInv'
<1> SUFFICES ASSUME TypeInv, [Next]_vars PROVE TypeInv'
  OBVIOUS
<1>0. ClusterOK /\ RegisterOK /\ InformerOK /\ WorkersOK
  BY TypeParts
<1>1. history' \in [Keys -> Seq(Statuses)] /\ (\A k \in Keys : Len(history'[k]) \in Revisions) /\ Latest'
  BY ParsedStep DEF TypeInv
<1>2. ClusterOK' /\ RegisterOK' /\ InformerOK' /\ WorkersOK'
  <2>1. CASE Environment
    BY <2>1, EnvironmentType
  <2>2. ASSUME NEW k \in Keys, ReleaseWorker(k) PROVE ClusterOK' /\ RegisterOK' /\ InformerOK' /\ WorkersOK'
    <3>1. k \in Callers
      BY DEF Callers
    <3> QED BY <2>2, <3>1, ReleaseBeginsType, ReleaseGoesOnType, SetStateType DEF ReleaseWorker
  <2>3. ASSUME NEW k \in Keys, SetWorker(k) \/ ReconcileFails(k) \/ LockFails(k)
        PROVE  ClusterOK' /\ RegisterOK' /\ InformerOK' /\ WorkersOK'
    BY <2>3, SetWorkerType
  <2>4. ASSUME NEW w \in Watchers, WatchWorker(w)
        PROVE  ClusterOK' /\ RegisterOK' /\ InformerOK' /\ WorkersOK'
    <3>1. w \in Callers
      BY DEF Callers
    <3> QED BY <2>4, <3>1, ResolveType, SetStateType DEF WatchWorker
  <2>5. CASE Informer
    BY <2>5, InformerType
  <2>6. CASE ResyncReleases
    <3>1. relQueue' \subseteq Keys /\ UNCHANGED <<cr, status, live, drifts, faults, rel, stateByKey, stateChanges,
             holder, entries, call, listed, store, setQueue, set, watching, gvkQueue, missed, heap>>
      BY <2>6 DEF ResyncReleases, cluster, register, informer, watcher
    <3> QED BY <1>0, <3>1, SameParts DEF ClusterOK
  <2>7. CASE ResyncStates
    <3>1. setQueue' \subseteq Keys /\ UNCHANGED <<cr, status, live, drifts, faults, relQueue, rel, stateByKey,
             stateChanges, holder, entries, call, listed, store, set, watching, gvkQueue, missed, heap>>
      BY <2>7 DEF ResyncStates, cluster, release, register, watcher
    <3> QED BY <1>0, <3>1, SameParts DEF InformerOK
  <2>8. CASE Restart
    BY <2>8, RestartType
  <2>9. CASE UNCHANGED vars
    <3>1. UNCHANGED <<cr, status, live, drifts, faults, relQueue, rel, stateByKey, stateChanges,
             holder, entries, call, listed, store, setQueue, set, watching, gvkQueue, missed, heap>>
      BY <2>9 DEF vars, cluster, release, register, informer, watcher
    <3> QED BY <1>0, <3>1, SameParts
  <2> QED BY <2>1, <2>2, <2>3, <2>4, <2>5, <2>6, <2>7, <2>8, <2>9 DEF Next, Operator
<1> QED BY <1>1, <1>2 DEF TypeInv, TypeOK, ClusterOK, RegisterOK, InformerOK, WorkersOK,
        RelRec, CallRec, SetRec, StateRec, EventRec, LiveRec

\* The behaviours of both specifications start somewhere and go on by Next.
LEMMA TypeAlways == Spec \/ SafeListed => []TypeInv
<1>1. Start(FALSE) \/ Start(TRUE) => TypeInv
  BY StartType
<1>2. TypeInv /\ [Next]_vars => TypeInv'
  BY NextType
<1> QED BY <1>1, <1>2, PTL DEF Spec, SafeListed

\* The locker's variables keep their types, and no goroutine dereferences a nil state:
\* what deleteState has looked up before it clears it (cache.go:277-290), and what
\* OnChange has got from the informer before it reads it (handler.go:45-66), is there.
THEOREM TypeCorrect == Spec \/ SafeListed => [](TypeOK /\ WellFormed)
<1>1. TypeInv => TypeOK /\ WellFormed
  BY DEF TypeInv
<1> QED BY <1>1, TypeAlways, PTL

-----------------------------------------------------------------------------
(* Who points to which object, and who knows which object set *)

\* The register, the informer, a worker or an event of a key points to an object.
Points(k, p) ==
    \/ stateByKey[k] = p \/ store[k] = p \/ set[k].obj = p \/ rel[k].old = p
    \/ \E c \in Callers : call[c].key = k /\ call[c].old = p
    \/ \E i \in 1..Len(stateChanges) : stateChanges[i].key = k /\ stateChanges[i].obj = p

\* An object set that is on its way for a key, or in an object that is pointed to.
Known(k, os) ==
    \/ set[k].os = os
    \/ \E c \in Callers : call[c].key = k /\ call[c].os = os
    \/ \E p \in Objects : Points(k, p) /\ heap[p].os = os

\* The objects of two keys are different ones.
Separate == \A j, k \in Keys, p \in Objects : Points(j, p) /\ Points(k, p) => j = k

\* Only what was parsed from a deployed revision is known.
OnlyParsed == \A k \in Keys, os \in Revisions : Known(k, os) => Parsed(k, os)

RegisterInv == Separate /\ OnlyParsed

\* An object that is pointed to is not garbage.
LEMMA PointsReachable ==
    ASSUME NEW k \in Keys, NEW p
    PROVE  Points(k, p) => p \in Reachable
  BY DEF Points, Reachable

\* Nor is one that will be pointed to.
LEMMA PointsReachableNext ==
    ASSUME NEW k \in Keys, NEW p
    PROVE  Points(k, p)' => p \in Reachable'
  BY DEF Points, Reachable

\* A step after which a pointer of a key is nil, or one that the key had before.
PointersMove ==
    /\ \A j \in Keys :
          /\ stateByKey'[j] \in {stateByKey[j], Nil}
          /\ \/ store'[j] \in {store[j], Nil}
             \/ \E i \in 1..Len(stateChanges) : stateChanges[i] = [key |-> j, obj |-> store'[j]]
          /\ set'[j].obj \in {set[j].obj, store[j], Nil}
          /\ rel'[j].old \in {rel[j].old, stateByKey[j], Nil}
    /\ \A c \in Callers :
          \/ call'[c].old = Nil
          \/ /\ call'[c].key = call[c].key
             /\ call'[c].old \in {call[c].old, stateByKey[call[c].key]}
    /\ \A i \in 1..Len(stateChanges') :
          \/ stateChanges'[i].obj = Nil
          \/ \E l \in 1..Len(stateChanges) : stateChanges'[i] = stateChanges[l]

\* After such a step a key points to no other objects.
LEMMA PointersMoved ==
    ASSUME PointersMove, NEW k \in Keys, NEW p \in Objects, Points(k, p)'
    PROVE  Points(k, p)
<1>1. p # Nil
  BY BoundsAssumption DEF Objects, Nil
<1>2. CASE stateByKey'[k] = p \/ store'[k] = p \/ set'[k].obj = p \/ rel'[k].old = p
  <2>1. /\ stateByKey'[k] \in {stateByKey[k], Nil} /\ set'[k].obj \in {set[k].obj, store[k], Nil}
        /\ rel'[k].old \in {rel[k].old, stateByKey[k], Nil}
    BY DEF PointersMove
  <2>2. CASE store'[k] = p
    <3>1. CASE store'[k] \in {store[k], Nil}
      BY <1>1, <2>2, <3>1 DEF Points
    <3>2. CASE \E i \in 1..Len(stateChanges) : stateChanges[i] = [key |-> k, obj |-> store'[k]]
      BY <2>2, <3>2 DEF Points
    <3> QED BY <3>1, <3>2 DEF PointersMove
  <2> QED BY <1>1, <1>2, <2>1, <2>2 DEF Points
<1>3. CASE \E c \in Callers : call'[c].key = k /\ call'[c].old = p
  BY <1>1, <1>3 DEF PointersMove, Points
<1>4. CASE \E i \in 1..Len(stateChanges') : stateChanges'[i].key = k /\ stateChanges'[i].obj = p
  BY <1>1, <1>4 DEF PointersMove, Points
<1>5. Points(k, p)' => \/ stateByKey'[k] = p \/ store'[k] = p \/ set'[k].obj = p \/ rel'[k].old = p
                       \/ \E c \in Callers : call'[c].key = k /\ call'[c].old = p
                       \/ \E i \in 1..Len(stateChanges') :
                             stateChanges'[i].key = k /\ stateChanges'[i].obj = p
  BY DEF Points
<1> QED BY <1>2, <1>3, <1>4, <1>5

\* A step after which an object set on its way is one that the key knew before, or the
\* one of the revision that is deployed.
KnowledgeMoves ==
    /\ \A j \in Keys : set'[j].os \in {set[j].os, Nil} \/ \E p \in Objects : Points(j, p) /\ set'[j].os = heap[p].os
    /\ \A c \in Callers :
          \/ call'[c].os = Nil
          \/ /\ call'[c].key = call[c].key
             /\ \/ call'[c].os = call[c].os
                \/ \E p \in Objects : Points(call[c].key, p) /\ call'[c].os = heap[p].os
          \/ call'[c].os = Len(history[call'[c].key]) /\ Last(call'[c].key) = "deployed"

\* Workers of the release controller, when they change nothing that others point with.
LEMMA ReleaseMoves ==
    ASSUME UNCHANGED <<stateByKey, store, set, stateChanges>>,
           \A j \in Keys : rel'[j].old \in {rel[j].old, stateByKey[j], Nil},
           \A c \in Callers : \/ call'[c] = call[c]
                              \/ /\ call'[c].old = Nil
                                 /\ \/ call'[c].os = Nil
                                    \/ call'[c].os = Len(history[call'[c].key]) /\ Last(call'[c].key) = "deployed"
    PROVE  PointersMove /\ KnowledgeMoves
  BY DEF PointersMove, KnowledgeMoves

\* The steps of the release controller.
LEMMA ReleaseWorkerMoves ==
    ASSUME TypeInv, NEW k \in Keys,
           \/ ClaimRelease(k) \/ ReconcileRelease(k) \/ ReleaseNotFound(k) \/ RemoveRelease(k)
           \/ IgnoreRelease(k) \/ UnlockRelease(k) \/ Delete(k)
    PROVE  /\ PointersMove /\ KnowledgeMoves
           /\ UNCHANGED heap \/ Collect(heap) \/ DeleteClears(k)
<1>0. rel \in [Keys -> RelRec] /\ rel[k] \in RelRec /\ call \in [Callers -> CallRec]
      /\ k \in Callers
  BY TypeParts DEF WorkersOK, Callers
<1>a. ASSUME NEW x, rel' = [rel EXCEPT ![k] = x], x.old \in {rel[k].old, stateByKey[k], Nil}
      PROVE  \A j \in Keys : rel'[j].old \in {rel[j].old, stateByKey[j], Nil}
  BY <1>0, <1>a
<1>b. IdleRel.old = Nil /\ [IdleRel EXCEPT !.pc = "get"].old = Nil
      /\ [IdleRel EXCEPT !.pc = "get", !.purge = TRUE].old = Nil
  BY DEF IdleRel
<1>c. ASSUME NEW s PROVE [rel[k] EXCEPT !.pc = s].old = rel[k].old
  BY <1>0 DEF RelRec
<1>d. ASSUME NEW s, NEW o PROVE [rel[k] EXCEPT !.pc = s, !.old = o].old = o
                                /\ [rel[k] EXCEPT !.old = o, !.pc = s].old = o
  BY <1>0 DEF RelRec
<1>1. CASE ClaimRelease(k) \/ IgnoreRelease(k)
  BY <1>1, ReleaseMoves DEF ClaimRelease, IgnoreRelease, release, register, informer
<1>2. CASE ReconcileRelease(k)
  <2>1. UNCHANGED <<stateByKey, store, set, stateChanges, heap>>
    BY <1>2 DEF ReconcileRelease, informer
  <2>2. \A j \in Keys : rel'[j].old \in {rel[j].old, stateByKey[j], Nil}
    <3>1. rel' = [rel EXCEPT ![k] = [rel[k] EXCEPT !.pc = "setting"]]
          \/ rel' = [rel EXCEPT ![k] = [rel[k] EXCEPT !.pc = "unlock"]]
      BY <1>2 DEF ReconcileRelease
    <3> QED BY <1>a, <1>c, <3>1
  <2>3. \A c \in Callers : \/ call'[c] = call[c]
                           \/ /\ call'[c].old = Nil
                              /\ call'[c].os = Len(history[call'[c].key]) /\ Last(call'[c].key) = "deployed"
    <3>1. CASE Last(k) = "deployed"
      <4> DEFINE x == [IdleCall EXCEPT !.pc = "get", !.key = k, !.os = Len(history[k])]
      <4>1. x.old = Nil /\ x.key = k /\ x.os = Len(history[k])
        BY DEF IdleCall
      <4>2. call' = [call EXCEPT ![k] = x]
        BY <1>2, <3>1 DEF ReconcileRelease
      <4> HIDE DEF x
      <4>3. \A c \in Callers : call'[c] = IF c = k THEN x ELSE call[c]
        BY <1>0, <4>2
      <4> QED BY <3>1, <4>1, <4>3
    <3>2. CASE Last(k) # "deployed"
      BY <1>2, <3>2 DEF ReconcileRelease
    <3> QED BY <3>1, <3>2
  <2> QED BY <2>1, <2>2, <2>3, ReleaseMoves
<1>3. CASE ReleaseNotFound(k) \/ RemoveRelease(k) \/ UnlockRelease(k)
  <2>1. UNCHANGED <<stateByKey, store, set, stateChanges, heap, call>>
    BY <1>3 DEF ReleaseNotFound, RemoveRelease, UnlockRelease, register, informer
  <2>2. \A j \in Keys : rel'[j].old \in {rel[j].old, stateByKey[j], Nil}
    <3>1. \/ UNCHANGED rel
          \/ rel' = [rel EXCEPT ![k] = [IdleRel EXCEPT !.pc = "get", !.purge = TRUE]]
          \/ rel' = [rel EXCEPT ![k] = [IdleRel EXCEPT !.pc = "get"]]
          \/ rel' = [rel EXCEPT ![k] = IdleRel]
      BY <1>3 DEF ReleaseNotFound, RemoveRelease, UnlockRelease
    <3> QED BY <1>a, <1>b, <3>1
  <2> QED BY <2>1, <2>2, ReleaseMoves
<1>4. CASE DeleteGets(k) \/ DeleteClears(k) \/ OnRemove(k) \/ Purge(k)
  <2>1. UNCHANGED <<stateByKey, store, set, stateChanges, call>> /\ (UNCHANGED heap \/ DeleteClears(k))
    BY <1>4 DEF DeleteGets, DeleteClears, OnRemove, Purge, register, informer
  <2>2. \A j \in Keys : rel'[j].old \in {rel[j].old, stateByKey[j], Nil}
    <3>1. \/ \E s \in RelSteps : rel' = [rel EXCEPT ![k] = [rel[k] EXCEPT !.pc = s]]
          \/ \E s \in RelSteps : rel' = [rel EXCEPT ![k] = [rel[k] EXCEPT !.pc = s, !.old = stateByKey[k]]]
          \/ rel' = [rel EXCEPT ![k] = IdleRel]
      <4>1. CASE DeleteGets(k)
        <5> DEFINE s == IF stateByKey[k] = Nil THEN "onRemove" ELSE "remove"
        <5>1. s \in RelSteps /\ rel' = [rel EXCEPT ![k] = [rel[k] EXCEPT !.pc = s, !.old = stateByKey[k]]]
          BY <1>0, <4>1 DEF DeleteGets, RelRec, RelSteps
        <5> QED BY <5>1
      <4>2. CASE DeleteClears(k) \/ OnRemove(k) \/ Purge(k)
        <5>1. \/ rel' = [rel EXCEPT ![k] = [rel[k] EXCEPT !.pc = "clearLocked"]]
              \/ rel' = [rel EXCEPT ![k] = [rel[k] EXCEPT !.pc = "announce"]]
              \/ rel' = [rel EXCEPT ![k] = [rel[k] EXCEPT !.pc = "purge"]]
              \/ rel' = [rel EXCEPT ![k] = IdleRel]
          BY <4>2 DEF DeleteClears, OnRemove, Purge
        <5>2. {"clearLocked", "announce", "purge"} \subseteq RelSteps
          BY DEF RelSteps
        <5> QED BY <5>1, <5>2
      <4> QED BY <1>4, <4>1, <4>2
    <3>2. CASE \E s \in RelSteps : rel' = [rel EXCEPT ![k] = [rel[k] EXCEPT !.pc = s]]
      BY <1>a, <1>c, <3>2
    <3>3. CASE \E s \in RelSteps : rel' = [rel EXCEPT ![k] = [rel[k] EXCEPT !.pc = s, !.old = stateByKey[k]]]
      BY <1>a, <1>d, <3>3
    <3>4. CASE rel' = [rel EXCEPT ![k] = IdleRel]
      BY <1>a, <1>b, <3>4
    <3> QED BY <3>1, <3>2, <3>3, <3>4
  <2> QED BY <2>1, <2>2, ReleaseMoves
<1>5. CASE DeleteRemoves(k)
  <2>1. UNCHANGED <<store, set, stateChanges, call>> /\ Collect(heap)
        /\ stateByKey' = [stateByKey EXCEPT ![k] = Nil]
    BY <1>5 DEF DeleteRemoves, informer
  <2>2. \A j \in Keys : stateByKey'[j] \in {stateByKey[j], Nil}
    BY <2>1, TypeParts DEF RegisterOK
  <2>3. \A j \in Keys : rel'[j].old \in {rel[j].old, stateByKey[j], Nil}
    BY <1>5, <1>a, <1>c DEF DeleteRemoves
  <2> QED BY <2>1, <2>2, <2>3 DEF PointersMove, KnowledgeMoves
<1>6. CASE DeleteAnnounces(k)
  <2>1. UNCHANGED <<stateByKey, store, set, call>> /\ Collect(heap)
        /\ stateChanges' = Append(stateChanges, [key |-> k, obj |-> Nil])
        /\ rel' = [rel EXCEPT ![k] = [rel[k] EXCEPT !.pc = "onRemove", !.old = Nil]]
    BY <1>6 DEF DeleteAnnounces, informer
  <2>2. \A i \in 1..Len(stateChanges') : stateChanges'[i].obj = Nil
                                         \/ \E l \in 1..Len(stateChanges) : stateChanges'[i] = stateChanges[l]
    <3> DEFINE e == [key |-> k, obj |-> Nil]
    <3>1. stateChanges \in Seq(EventRec) /\ e \in EventRec /\ e.obj = Nil
      BY TypeParts, BoundsAssumption DEF RegisterOK, EventRec, Nil
    <3>2. stateChanges' = Append(stateChanges, e)
      BY <2>1
    <3> HIDE DEF e
    <3> QED BY <3>1, <3>2, AppendProperties
  <2>3. \A j \in Keys : rel'[j].old \in {rel[j].old, stateByKey[j], Nil}
    BY <1>a, <1>d, <2>1
  <2> QED BY <2>1, <2>2, <2>3 DEF PointersMove, KnowledgeMoves
<1> QED BY <1>1, <1>2, <1>3, <1>4, <1>5, <1>6 DEF Delete

\* The steps of setState that make no object, and of the GVK watcher.
LEMMA CallerMoves ==
    ASSUME TypeInv, NEW c \in Callers,
           \/ SetStateGets(c) \/ SetStateCopies(c) \/ SetStateBlocks(c)
           \/ c \in Watchers /\ Resolve(c)
    PROVE  /\ PointersMove /\ KnowledgeMoves
           /\ UNCHANGED heap \/ Collect(heap)
<1>0. call \in [Callers -> CallRec] /\ call[c] \in CallRec
  BY TypeParts DEF WorkersOK
<1>1. UNCHANGED <<stateByKey, store, set, rel, stateChanges>> /\ (UNCHANGED heap \/ Collect(heap))
  BY DEF SetStateGets, SetStateCopies, SetStateBlocks, Resolve, release, informer
<1>2. ASSUME NEW x, call' = [call EXCEPT ![c] = x],
             \/ x.old = Nil
             \/ x.key = call[c].key /\ x.old \in {call[c].old, stateByKey[call[c].key]},
             \/ x.os = Nil
             \/ /\ x.key = call[c].key
                /\ x.os = call[c].os \/ \E p \in Objects : Points(call[c].key, p) /\ x.os = heap[p].os
      PROVE  PointersMove /\ KnowledgeMoves
  <2>1. \A d \in Callers : call'[d] = IF d = c THEN x ELSE call[d]
    BY <1>0, <1>2
  <2>2. PointersMove
    BY <1>1, <1>2, <2>1 DEF PointersMove
  <2>3. KnowledgeMoves
    BY <1>1, <1>2, <2>1 DEF KnowledgeMoves
  <2> QED BY <2>2, <2>3
<1>3. CASE SetStateGets(c)
  <2> DEFINE x == [call[c] EXCEPT !.pc = "copy", !.old = stateByKey[call[c].key]]
  <2>1. x.key = call[c].key /\ x.old = stateByKey[call[c].key] /\ x.os = call[c].os
    BY <1>0 DEF CallRec
  <2>2. call' = [call EXCEPT ![c] = x]
    BY <1>3 DEF SetStateGets
  <2> HIDE DEF x
  <2> QED BY <1>1, <1>2, <2>1, <2>2
<1>4. CASE SetStateCopies(c)
  <2> DEFINE base == IF call[c].old = Nil THEN Unused ELSE heap[call[c].old]
             x == [call[c] EXCEPT !.pc = "publish", !.old = Nil,
                                  !.os = IF call[c].os = Nil THEN base.os ELSE call[c].os,
                                  !.locked = base.locked \/ call[c].os # Nil]
  <2>1. x.key = call[c].key /\ x.old = Nil /\ x.os \in {call[c].os, base.os}
    BY <1>0 DEF CallRec
  <2>2. call' = [call EXCEPT ![c] = x]
    BY <1>4 DEF SetStateCopies
  <2>3. base.os = Nil \/ \E p \in Objects : Points(call[c].key, p) /\ base.os = heap[p].os
    <3>1. CASE call[c].old = Nil
      BY <3>1 DEF Unused
    <3>2. CASE call[c].old # Nil
      <4>1. call[c].old \in Objects
        BY <1>0, <3>2, BoundsAssumption DEF CallRec, Objects, Nil
      <4>2. Points(call[c].key, call[c].old)
        BY DEF Points
      <4> QED BY <3>2, <4>1, <4>2
    <3> QED BY <3>1, <3>2
  <2> HIDE DEF base, x
  <2>4. x.os = Nil \/ x.os = call[c].os \/ \E p \in Objects : Points(call[c].key, p) /\ x.os = heap[p].os
    BY <2>1, <2>3
  <2> QED BY <1>1, <1>2, <2>1, <2>2, <2>4
<1>5. CASE SetStateBlocks(c)
  BY <1>1, <1>5 DEF SetStateBlocks, PointersMove, KnowledgeMoves
<1>6. CASE Resolve(c)
  <2>1. PICK r : call' = IF entries[r] = NoKey THEN call
                         ELSE [call EXCEPT ![c] = [IdleCall EXCEPT !.pc = "get", !.key = entries[r]]]
    BY <1>6 DEF Resolve
  <2>2. CASE entries[r] = NoKey
    BY <1>1, <2>1, <2>2 DEF PointersMove, KnowledgeMoves
  <2>3. CASE entries[r] # NoKey
    <3> DEFINE x == [IdleCall EXCEPT !.pc = "get", !.key = entries[r]]
    <3>1. x.old = Nil /\ x.os = Nil /\ call' = [call EXCEPT ![c] = x]
      BY <2>1, <2>3 DEF IdleCall
    <3> HIDE DEF x
    <3> QED BY <1>1, <1>2, <3>1
  <2> QED BY <2>2, <2>3
<1> QED BY <1>3, <1>4, <1>5, <1>6

\* The workers of the object set controller.
LEMMA SetWorkerMoves ==
    ASSUME TypeInv, NEW k \in Keys, SetWorker(k) \/ ReconcileFails(k) \/ LockFails(k)
    PROVE  /\ PointersMove /\ KnowledgeMoves
           /\ UNCHANGED heap \/ Collect(heap)
<1>0. set \in [Keys -> SetRec] /\ set[k] \in SetRec
      /\ stateByKey[k] \in 0..MaxObjects
  BY TypeParts DEF WorkersOK, RegisterOK
<1>1. UNCHANGED <<stateByKey, store, call, rel, stateChanges>> /\ (UNCHANGED heap \/ Collect(heap))
  BY DEF SetWorker, NothingToReconcile, StartReconcile, ReconcileReads, ReconcileApplies, LockGets,
         LockEntries, LockFails, ReconcileFails, release, register
<1>2. ASSUME NEW x, set' = [set EXCEPT ![k] = x],
             x.obj \in {set[k].obj, store[k], Nil},
             x.os = Nil \/ \E p \in Objects : Points(k, p) /\ x.os = heap[p].os
      PROVE  PointersMove /\ KnowledgeMoves
  <2>1. \A j \in Keys : set'[j] = IF j = k THEN x ELSE set[j]
    BY <1>0, <1>2
  <2>2. PointersMove
    BY <1>1, <1>2, <2>1 DEF PointersMove
  <2>3. KnowledgeMoves
    BY <1>1, <1>2, <2>1 DEF KnowledgeMoves
  <2> QED BY <2>2, <2>3
<1>3. CASE UNCHANGED set
  BY <1>1, <1>3 DEF PointersMove, KnowledgeMoves
<1>4. CASE StartReconcile(k) /\ ~UNCHANGED set
  <2>1. set' = [set EXCEPT ![k] = [pc |-> "read", obj |-> store[k], os |-> Nil]]
    BY <1>4 DEF StartReconcile
  <2> QED BY <1>1, <1>2, <2>1
<1>5. CASE ReconcileReads(k)
  <2>1. set' = [set EXCEPT ![k] = [pc |-> "write", obj |-> Nil, os |-> heap[set[k].obj].os]]
    BY <1>5 DEF ReconcileReads
  <2>2. set[k].obj \in Objects
    <3>1. set[k].pc = "read" /\ set[k].obj \in 0..MaxObjects
      BY <1>0, <1>5 DEF ReconcileReads, SetRec
    <3>2. set[k].obj # Nil
      BY <3>1 DEF TypeInv, WellFormed
    <3> QED BY <3>1, <3>2, BoundsAssumption DEF Objects, Nil
  <2>3. Points(k, set[k].obj)
    BY DEF Points
  <2> QED BY <1>1, <1>2, <2>1, <2>2, <2>3
<1>6. CASE ReconcileApplies(k) \/ ReconcileFails(k) \/ LockEntries(k) \/ LockFails(k)
  <2>1. set' = [set EXCEPT ![k] = [IdleSet EXCEPT !.pc = "getLock"]] \/ set' = [set EXCEPT ![k] = IdleSet]
    BY <1>6 DEF ReconcileApplies, ReconcileFails, LockEntries, LockFails
  <2>2. [IdleSet EXCEPT !.pc = "getLock"].obj = Nil /\ [IdleSet EXCEPT !.pc = "getLock"].os = Nil
        /\ IdleSet.obj = Nil /\ IdleSet.os = Nil
    BY DEF IdleSet
  <2> QED BY <1>1, <1>2, <2>1, <2>2
<1>7. CASE LockGets(k)
  <2> DEFINE os == IF stateByKey[k] = Nil THEN Nil ELSE heap[stateByKey[k]].os
  <2>1. set' = [set EXCEPT ![k] = IdleSet] \/ set' = [set EXCEPT ![k] = [pc |-> "lock", obj |-> Nil, os |-> os]]
    BY <1>7 DEF LockGets
  <2>2. os = Nil \/ \E p \in Objects : Points(k, p) /\ os = heap[p].os
    <3>1. CASE stateByKey[k] = Nil
      BY <3>1
    <3>2. CASE stateByKey[k] # Nil
      <4>1. stateByKey[k] \in Objects
        BY <1>0, <3>2, BoundsAssumption DEF Objects, Nil
      <4>2. Points(k, stateByKey[k])
        BY DEF Points
      <4> QED BY <3>2, <4>1, <4>2
    <3> QED BY <3>1, <3>2
  <2>3. IdleSet.obj = Nil /\ IdleSet.os = Nil
    BY DEF IdleSet
  <2> HIDE DEF os
  <2> QED BY <1>1, <1>2, <2>1, <2>2, <2>3
<1>8. UNCHANGED set \/ StartReconcile(k) \/ ReconcileReads(k) \/ ReconcileApplies(k) \/ ReconcileFails(k)
      \/ LockEntries(k) \/ LockFails(k) \/ LockGets(k)
  BY DEF SetWorker, NothingToReconcile
<1> QED BY <1>1, <1>3, <1>4, <1>5, <1>6, <1>7, <1>8

\* The reflector hands an event to the store of the informer.
LEMMA DeliverMoves == ASSUME TypeInv, Deliver PROVE PointersMove /\ KnowledgeMoves /\ Collect(heap)
<1>0. stateChanges \in Seq(EventRec) /\ stateChanges # <<>> /\ store \in [Keys -> 0..MaxObjects]
      /\ stateChanges' = Tail(stateChanges)
  BY TypeParts DEF RegisterOK, InformerOK, Deliver
<1> DEFINE e == stateChanges[1]
<1>1. e \in EventRec /\ e = Head(stateChanges) /\ 1 \in 1..Len(stateChanges) /\ e = [key |-> e.key, obj |-> e.obj]
  <2>1. Head(stateChanges) = stateChanges[1] /\ Len(stateChanges) \in Nat /\ Len(stateChanges) # 0
    BY <1>0, EmptySeq, LenProperties
  <2>2. stateChanges[1] \in EventRec
    BY <1>0, <2>1, ElementOfSeq
  <2> QED BY <2>1, <2>2 DEF EventRec
<1>2. UNCHANGED <<stateByKey, set, rel, call>> /\ Collect(heap) /\ store' = [store EXCEPT ![e.key] = e.obj]
  BY <1>1 DEF Deliver, release
<1>3. \A j \in Keys : \/ store'[j] = store[j]
                      \/ \E i \in 1..Len(stateChanges) : stateChanges[i] = [key |-> j, obj |-> store'[j]]
  BY <1>0, <1>1, <1>2
<1>4. \A i \in 1..Len(stateChanges') : \E l \in 1..Len(stateChanges) : stateChanges'[i] = stateChanges[l]
  <2>1. /\ Len(stateChanges') = Len(stateChanges) - 1 /\ Len(stateChanges) \in Nat
        /\ \A i \in 1..Len(stateChanges') : stateChanges'[i] = stateChanges[i + 1]
    BY <1>0, HeadTailProperties, LenProperties
  <2> QED BY <2>1
<1> QED BY <1>2, <1>3, <1>4 DEF PointersMove, KnowledgeMoves

\* Every step but the two that make objects moves pointers only; an object that is still
\* pointed to changes only where deleteState clears it.
LEMMA AllMove ==
    ASSUME TypeInv, [Next]_vars
    PROVE  /\ KnowledgeMoves
           /\ \/ /\ PointersMove
                 /\ UNCHANGED heap \/ Collect(heap) \/ \E j \in Keys : DeleteClears(j)
              \/ \E c \in Callers : SetStateSends(c)
              \/ ListStates
<1> DEFINE Moves == /\ PointersMove /\ KnowledgeMoves
                    /\ UNCHANGED heap \/ Collect(heap) \/ \E j \in Keys : DeleteClears(j)
<1>0. \A k \in Keys : k \in Callers
  BY DEF Callers
<1>1. CASE UNCHANGED <<stateByKey, store, set, rel, call, stateChanges, heap>>
  BY <1>1 DEF PointersMove, KnowledgeMoves
<1>2. ASSUME NEW k \in Keys,
             \/ ClaimRelease(k) \/ ReconcileRelease(k) \/ ReleaseNotFound(k) \/ RemoveRelease(k)
             \/ IgnoreRelease(k) \/ UnlockRelease(k) \/ Delete(k)
      PROVE  Moves
  BY <1>2, ReleaseWorkerMoves
<1>3. ASSUME NEW c \in Callers,
             \/ SetStateGets(c) \/ SetStateCopies(c) \/ SetStateBlocks(c)
             \/ c \in Watchers /\ Resolve(c)
      PROVE  Moves
  BY <1>3, CallerMoves
<1>4. ASSUME NEW k \in Keys, SetWorker(k) \/ ReconcileFails(k) \/ LockFails(k) PROVE Moves
  BY <1>4, SetWorkerMoves
<1>5. CASE Deliver
  BY <1>5, DeliverMoves
<1>6. ASSUME NEW c \in Callers, SetStateSends(c) PROVE KnowledgeMoves
  <2>1. UNCHANGED set /\ call' = [call EXCEPT ![c] = IdleCall]
    BY <1>6 DEF SetStateSends, informer
  <2>2. \A d \in Callers : call'[d] = call[d] \/ call'[d] = IdleCall
    BY <2>1, TypeParts DEF WorkersOK
  <2>3. IdleCall.os = Nil
    BY DEF IdleCall
  <2> QED BY <2>1, <2>2, <2>3 DEF KnowledgeMoves
<1>7. CASE ListStates
  BY <1>7 DEF ListStates, KnowledgeMoves, register
<1>8. CASE Restart
  <2>1. PointersMove
    <3>1. /\ stateByKey' = [k \in Keys |-> Nil] /\ store' = [k \in Keys |-> Nil]
          /\ set' = [k \in Keys |-> IdleSet] /\ rel' = [k \in Keys |-> IdleRel]
          /\ call' = [c \in Callers |-> IdleCall] /\ stateChanges' = <<>>
      BY <1>8 DEF Restart
    <3>2. IdleSet.obj = Nil /\ IdleRel.old = Nil /\ IdleCall.old = Nil /\ Len(<<>>) = 0
      BY EmptyType DEF IdleSet, IdleRel, IdleCall
    <3>3. 1..Len(stateChanges') = {}
      BY <3>1, <3>2
    <3> QED BY <3>1, <3>2, <3>3 DEF PointersMove
  <2>2. KnowledgeMoves
    <3>1. set' = [k \in Keys |-> IdleSet] /\ call' = [c \in Callers |-> IdleCall]
      BY <1>8 DEF Restart
    <3>2. IdleSet.os = Nil /\ IdleCall.os = Nil
      BY DEF IdleSet, IdleCall
    <3> QED BY <3>1, <3>2 DEF KnowledgeMoves
  <2>3. Collect(heap)
    <3>1. /\ stateByKey' = [k \in Keys |-> Nil] /\ store' = [k \in Keys |-> Nil]
          /\ set' = [k \in Keys |-> IdleSet] /\ rel' = [k \in Keys |-> IdleRel]
          /\ call' = [c \in Callers |-> IdleCall] /\ stateChanges' = <<>>
          /\ heap' = [p \in Objects |-> Unused]
      BY <1>8 DEF Restart
    <3>2. IdleSet.obj = Nil /\ IdleRel.old = Nil /\ IdleCall.old = Nil /\ 1..Len(<<>>) = {}
      BY EmptyType DEF IdleSet, IdleRel, IdleCall
    <3>3. \A p \in Reachable' : p = Nil
      BY <3>1, <3>2 DEF Reachable
    <3>4. \A p \in Objects : p # Nil
      BY BoundsAssumption DEF Objects, Nil
    <3> QED BY <3>1, <3>3, <3>4 DEF Collect
  <2> QED BY <2>1, <2>2, <2>3
<1>9. \/ UNCHANGED <<stateByKey, store, set, rel, call, stateChanges, heap>>
      \/ \E k \in Keys : \/ ClaimRelease(k) \/ ReconcileRelease(k) \/ ReleaseNotFound(k) \/ RemoveRelease(k)
                         \/ IgnoreRelease(k) \/ UnlockRelease(k) \/ Delete(k)
                         \/ SetWorker(k) \/ ReconcileFails(k) \/ LockFails(k)
      \/ \E c \in Callers : SetState(c) \/ (c \in Watchers /\ Resolve(c))
      \/ ListStates \/ Deliver \/ Restart
  <2>1. CASE Environment \/ ResyncReleases \/ ResyncStates \/ UNCHANGED vars
    BY <2>1 DEF Environment, Helm, HelmBegins, HelmWrites, HelmEnds, HelmUninstalls, HelmReleaseDeleted,
                UserDrifts, ResyncReleases, ResyncStates, vars, cluster, release, register, informer
  <2>2. ASSUME NEW k \in Keys, ReleaseWorker(k)
        PROVE  \/ ClaimRelease(k) \/ ReconcileRelease(k) \/ ReleaseNotFound(k) \/ RemoveRelease(k)
               \/ IgnoreRelease(k) \/ UnlockRelease(k) \/ Delete(k)
               \/ SetState(k) /\ k \in Callers
    BY <1>0, <2>2 DEF ReleaseWorker
  <2>3. ASSUME NEW w \in Watchers, WatchWorker(w) PROVE w \in Callers /\ (Resolve(w) \/ SetState(w))
    BY <2>3 DEF WatchWorker, Callers
  <2> QED BY <2>1, <2>2, <2>3 DEF Next, Operator, Informer
<1> QED BY <1>1, <1>2, <1>3, <1>4, <1>5, <1>6, <1>7, <1>8, <1>9 DEF SetState

\* A new object: nobody pointed to it, one key does, and its object set was known.
Made(k, p) == /\ p \notin Reachable
              /\ \A j \in Keys : Points(j, p)' => j = k
              /\ Known(k, heap'[p].os)

\* An object that deleteState is clearing.
Cleared(p) == \E j \in Keys : DeleteClears(j) /\ rel[j].old = p

\* The object that setState sends is new.
LEMMA SendMakes ==
    ASSUME TypeInv, NEW c \in Callers, SetStateSends(c), NEW k \in Keys, NEW p \in Objects, Points(k, p)'
    PROVE  (Points(k, p) /\ heap'[p] = heap[p]) \/ Made(k, p)
<1> DEFINE kc == call[c].key
           x == [os |-> call[c].os, locked |-> call[c].locked]
           e == [key |-> kc, obj |-> Fresh]
<1>0. /\ heap \in [Objects -> StateRec] /\ call \in [Callers -> CallRec] /\ rel \in [Keys -> RelRec]
      /\ stateChanges \in Seq(EventRec) /\ stateByKey \in [Keys -> 0..MaxObjects] /\ kc \in Keys
      /\ x \in StateRec
  <2>1. /\ heap \in [Objects -> StateRec] /\ call \in [Callers -> CallRec] /\ rel \in [Keys -> RelRec]
        /\ stateChanges \in Seq(EventRec) /\ stateByKey \in [Keys -> 0..MaxObjects]
    BY TypeParts DEF WorkersOK, RegisterOK
  <2>2. kc \in Keys
    BY DEF TypeInv, WellFormed, SetStateSends
  <2>3. x \in StateRec
    BY <2>1 DEF CallRec, StateRec
  <2> QED BY <2>1, <2>2, <2>3
<1>1. Fresh \in Objects /\ Fresh \notin Reachable
  BY FreshIsFree DEF SetStateSends
<1>2. /\ stateChanges' = Append(stateChanges, e) /\ stateByKey' = [stateByKey EXCEPT ![kc] = Fresh]
      /\ call' = [call EXCEPT ![c] = IdleCall] /\ UNCHANGED <<store, set>>
      /\ rel' = IF c \in Keys THEN [rel EXCEPT ![c] = IdleRel] ELSE rel
      /\ Collect([heap EXCEPT ![Fresh] = x])
  BY DEF SetStateSends, informer
<1>3. \A j \in Keys, q \in Objects : Points(j, q)' => Points(j, q) \/ (q = Fresh /\ j = kc)
  <2> SUFFICES ASSUME NEW j \in Keys, NEW q \in Objects, Points(j, q)', ~(q = Fresh /\ j = kc)
               PROVE  Points(j, q)
    OBVIOUS
  <2>0. q # Nil /\ IdleCall.old = Nil /\ IdleRel.old = Nil
    BY BoundsAssumption DEF Objects, Nil, IdleCall, IdleRel
  <2>1. stateByKey'[j] = q => stateByKey[j] = q
    BY <1>0, <1>2
  <2>2. rel'[j].old = q => rel[j].old = q
    BY <1>0, <1>2, <2>0
  <2>3. ASSUME NEW d \in Callers, call'[d].key = j, call'[d].old = q
        PROVE  call[d].key = j /\ call[d].old = q
    BY <1>0, <1>2, <2>0, <2>3
  <2>4. ASSUME NEW i \in 1..Len(stateChanges'), stateChanges'[i].key = j, stateChanges'[i].obj = q
        PROVE  \E l \in 1..Len(stateChanges) : stateChanges[l].key = j /\ stateChanges[l].obj = q
    <3>1. e \in EventRec /\ e.key = kc /\ e.obj = Fresh
      BY <1>0, <1>1, BoundsAssumption DEF EventRec, Objects
    <3> HIDE DEF e
    <3>2. stateChanges' = Append(stateChanges, e)
      BY <1>2 DEF e
    <3>3. Len(stateChanges') = Len(stateChanges) + 1 /\ Len(stateChanges) \in Nat
          /\ stateChanges'[Len(stateChanges) + 1] = e
          /\ \A l \in 1..Len(stateChanges) : stateChanges'[l] = stateChanges[l]
      BY <1>0, <3>1, <3>2, AppendProperties, LenProperties
    <3>4. i # Len(stateChanges) + 1
      BY <2>4, <3>1, <3>3
    <3> QED BY <2>4, <3>3, <3>4
  <2>5. UNCHANGED <<store, set>>
    BY <1>2
  <2> QED BY <2>1, <2>2, <2>3, <2>4, <2>5 DEF Points
<1>4. \A q \in Objects : q \in Reachable' => heap'[q] = IF q = Fresh THEN x ELSE heap[q]
  <2>1. [heap EXCEPT ![Fresh] = x] \in [Objects -> StateRec]
    BY <1>0
  <2>2. \A q \in Objects : q \in Reachable' => heap'[q] = [heap EXCEPT ![Fresh] = x][q]
    BY <1>2, <2>1, CollectType
  <2> QED BY <1>0, <2>2
<1>5. p \in Reachable'
  BY PointsReachableNext
<1>6. CASE p # Fresh
  BY <1>3, <1>4, <1>5, <1>6
<1>7. CASE p = Fresh
  <2>1. \A j \in Keys : Points(j, p)' => j = kc
    BY <1>1, <1>3, <1>7, PointsReachable
  <2>2. heap'[p] = x /\ x.os = call[c].os
    BY <1>4, <1>5, <1>7
  <2>3. Known(kc, heap'[p].os)
    BY <2>2 DEF Known
  <2> QED BY <1>1, <1>7, <2>1, <2>3 DEF Made
<1> QED BY <1>6, <1>7

\* The reflector lists copies of the objects that the register has.
LEMMA ListMakes ==
    ASSUME TypeInv, ListStates, NEW k \in Keys, NEW p \in Objects, Points(k, p)'
    PROVE  (Points(k, p) /\ heap'[p] = heap[p]) \/ Made(k, p)
<1> DEFINE copies == {f \in [Keys -> Free] : \A i, j \in Keys : f[i] = f[j] => i = j}
           copy == CHOOSE f \in copies : TRUE
           h == [q \in Objects |->
                     IF \E j \in Keys : store'[j] = q
                     THEN heap[stateByKey[CHOOSE j \in Keys : store'[j] = q]] ELSE heap[q]]
<1>0. /\ heap \in [Objects -> StateRec] /\ stateByKey \in [Keys -> 0..MaxObjects]
      /\ \A q \in Objects : q # Nil
  BY TypeParts, BoundsAssumption DEF WorkersOK, RegisterOK, Objects, Nil
<1>1. /\ copies # {} /\ store' = [j \in Keys |-> IF stateByKey[j] = Nil THEN Nil ELSE copy[j]]
      /\ Collect(h) /\ UNCHANGED <<stateByKey, set, rel, call, stateChanges>>
  BY Zenon DEF ListStates, register, release
<1>2. copy \in [Keys -> Free] /\ \A i, j \in Keys : copy[i] = copy[j] => i = j
  BY <1>1
<1> HIDE DEF copies, copy, h
<1>3. \A j \in Keys : copy[j] \in Objects /\ copy[j] \notin Reachable
  BY <1>2 DEF Free
<1>4. \A j \in Keys, q \in Objects :
         Points(j, q)' => Points(j, q) \/ (stateByKey[j] # Nil /\ q = copy[j] /\ store'[j] = q)
  <2>1. \A j \in Keys, q \in Objects : store'[j] = q => stateByKey[j] # Nil /\ q = copy[j]
    BY <1>0, <1>1
  <2> QED BY <1>1, <2>1 DEF Points
<1>5. \A j \in Keys, q \in Objects : store'[j] = q => h[q] = heap[stateByKey[j]]
  <2> SUFFICES ASSUME NEW j \in Keys, NEW q \in Objects, store'[j] = q PROVE h[q] = heap[stateByKey[j]]
    OBVIOUS
  <2>1. \A i \in Keys : store'[i] = q => i = j
    BY <1>0, <1>1, <1>2
  <2>2. (CHOOSE i \in Keys : store'[i] = q) = j
    BY <2>1
  <2> QED BY <2>2 DEF h
<1>6. \A q \in Objects : (\A j \in Keys : store'[j] # q) => h[q] = heap[q]
  BY DEF h
<1>7. p \in Reachable'
  BY PointsReachableNext
<1>8. heap'[p] = h[p]
  BY <1>1, <1>7 DEF Collect
<1>9. CASE Points(k, p)
  <2>1. p \in Reachable
    BY <1>9, PointsReachable
  <2>2. \A j \in Keys : store'[j] # p
    BY <1>0, <1>1, <1>3, <2>1
  <2> QED BY <1>6, <1>8, <1>9, <2>2
<1>10. CASE ~Points(k, p)
  <2>1. stateByKey[k] # Nil /\ p = copy[k] /\ store'[k] = p
    BY <1>4, <1>10
  <2>2. p \notin Reachable
    BY <1>3, <2>1
  <2>3. \A j \in Keys : Points(j, p)' => j = k
    BY <1>2, <1>4, <2>1, <2>2, PointsReachable
  <2>4. heap'[p] = heap[stateByKey[k]]
    BY <1>5, <1>8, <2>1
  <2>5. stateByKey[k] \in Objects /\ Points(k, stateByKey[k])
    BY <1>0, <2>1, BoundsAssumption DEF Objects, Nil, Points
  <2>6. Known(k, heap'[p].os)
    BY <2>4, <2>5 DEF Known
  <2> QED BY <2>2, <2>3, <2>6 DEF Made
<1> QED BY <1>9, <1>10

\* What happens to the objects that a key points to after a step.
LEMMA ObjectStep ==
    ASSUME TypeInv, [Next]_vars, NEW k \in Keys, NEW p \in Objects, Points(k, p)'
    PROVE  \/ Points(k, p) /\ heap'[p] = heap[p]
           \/ Points(k, p) /\ Cleared(p) /\ heap'[p].os \in {heap[p].os, Nil}
           \/ Made(k, p)
<1>0. heap \in [Objects -> StateRec] /\ p \in Reachable'
  BY TypeParts, PointsReachableNext DEF WorkersOK
<1>1. CASE PointersMove /\ (UNCHANGED heap \/ Collect(heap))
  <2>1. Points(k, p)
    BY <1>1, PointersMoved
  <2>2. heap'[p] = heap[p]
    BY <1>0, <1>1, CollectType
  <2> QED BY <2>1, <2>2
<1>2. ASSUME PointersMove, NEW j \in Keys, DeleteClears(j)
      PROVE  Points(k, p) /\ (heap'[p] = heap[p] \/ (Cleared(p) /\ heap'[p].os \in {heap[p].os, Nil}))
  <2>1. Points(k, p)
    BY <1>2, PointersMoved
  <2>2. CASE p = rel[j].old
    <3>1. heap[p] \in StateRec
      BY <1>0
    <3>2. heap'[p] = [heap[p] EXCEPT !.os = Nil] \/ heap'[p] = [heap[p] EXCEPT !.locked = FALSE]
      BY <1>0, <1>2, <2>2 DEF DeleteClears
    <3>3. heap'[p].os \in {heap[p].os, Nil}
      BY <3>1, <3>2 DEF StateRec
    <3> QED BY <1>2, <2>1, <2>2, <3>3 DEF Cleared
  <2>3. CASE p # rel[j].old
    BY <1>0, <1>2, <2>1, <2>3 DEF DeleteClears
  <2> QED BY <2>2, <2>3
<1>3. ASSUME NEW c \in Callers, SetStateSends(c) PROVE (Points(k, p) /\ heap'[p] = heap[p]) \/ Made(k, p)
  BY <1>3, SendMakes
<1>4. ASSUME ListStates PROVE (Points(k, p) /\ heap'[p] = heap[p]) \/ Made(k, p)
  BY <1>4, ListMakes
<1> QED BY <1>1, <1>2, <1>3, <1>4, AllMove

\* An object set that is known after a step was known before, or is deployed.
LEMMA KnownStep ==
    ASSUME TypeInv, [Next]_vars, NEW k \in Keys, NEW os \in Revisions, Known(k, os)'
    PROVE  Known(k, os) \/ (os = Len(history[k]) /\ Last(k) = "deployed")
<1>0. os # Nil /\ KnowledgeMoves
  BY AllMove, BoundsAssumption DEF Revisions, Nil
<1>1. CASE set'[k].os = os
  BY <1>0, <1>1 DEF KnowledgeMoves, Known
<1>2. ASSUME NEW c \in Callers, call'[c].key = k, call'[c].os = os
      PROVE  Known(k, os) \/ (os = Len(history[k]) /\ Last(k) = "deployed")
  BY <1>0, <1>2 DEF KnowledgeMoves, Known
<1>3. ASSUME NEW p \in Objects, Points(k, p)', heap'[p].os = os PROVE Known(k, os)
  BY <1>0, <1>3, ObjectStep DEF Known, Made
<1> QED BY <1>1, <1>2, <1>3 DEF Known

\* At the start nobody points to anything.
LEMMA StartPoints ==
    ASSUME NEW l, Start(l), NEW k \in Keys, NEW p \in Objects
    PROVE  ~Points(k, p)
<1>1. /\ stateByKey[k] = Nil /\ store[k] = Nil /\ set[k] = IdleSet /\ rel[k] = IdleRel
      /\ \A c \in Callers : call[c] = IdleCall
      /\ 1..Len(stateChanges) = {}
  BY EmptyType DEF Start
<1>2. p # Nil /\ IdleSet.obj = Nil /\ IdleRel.old = Nil /\ IdleCall.old = Nil
  BY BoundsAssumption DEF Objects, Nil, IdleSet, IdleRel, IdleCall
<1> QED BY <1>1, <1>2 DEF Points

\* Nor knows anything.
LEMMA StartRegister == ASSUME NEW l \in BOOLEAN, Start(l) PROVE RegisterInv
<1>1. Separate
  BY StartPoints DEF Separate
<1>2. OnlyParsed
  <2>1. ASSUME NEW k \in Keys, NEW os \in Revisions PROVE ~Known(k, os)
    <3>1. set[k].os = Nil /\ (\A c \in Callers : call[c].os = Nil) /\ os # Nil
      BY BoundsAssumption DEF Start, IdleSet, IdleCall, Revisions, Nil
    <3> QED BY <3>1, StartPoints DEF Known
  <2> QED BY <2>1 DEF OnlyParsed
<1> QED BY <1>1, <1>2 DEF RegisterInv

\* Every step keeps the objects of the keys apart, and what they hold parsed.
LEMMA RegisterStep == TypeInv /\ RegisterInv /\ [Next]_vars => RegisterInv'
<1> SUFFICES ASSUME TypeInv, RegisterInv, [Next]_vars PROVE RegisterInv'
  OBVIOUS
<1>1. Separate'
  <2> SUFFICES ASSUME NEW j \in Keys, NEW k \in Keys, NEW p \in Objects, Points(j, p)', Points(k, p)'
               PROVE  j = k
    BY DEF Separate
  <2>1. (Points(j, p) \/ Made(j, p)) /\ (Points(k, p) \/ Made(k, p))
    BY ObjectStep
  <2>2. CASE Made(j, p) \/ Made(k, p)
    BY <2>2 DEF Made
  <2>3. CASE Points(j, p) /\ Points(k, p)
    BY <2>3 DEF RegisterInv, Separate
  <2> QED BY <2>1, <2>2, <2>3
<1>2. OnlyParsed'
  <2> SUFFICES ASSUME NEW k \in Keys, NEW os \in Revisions, Known(k, os)' PROVE Parsed(k, os)'
    BY DEF OnlyParsed
  <2>1. Known(k, os) \/ (os = Len(history[k]) /\ Last(k) = "deployed")
    BY KnownStep
  <2>2. Parsed(k, os)
    <3>1. CASE Known(k, os)
      BY <3>1 DEF RegisterInv, OnlyParsed
    <3>2. CASE os = Len(history[k]) /\ Last(k) = "deployed"
      BY <3>2 DEF Parsed, Last, Revisions
    <3> QED BY <2>1, <3>1, <3>2
  <2> QED BY <2>2, ParsedStep DEF TypeInv
<1> QED BY <1>1, <1>2 DEF RegisterInv

\* In both specifications.
LEMMA RegisterAlways == Spec \/ SafeListed => [](TypeInv /\ RegisterInv)
<1>1. Start(FALSE) \/ Start(TRUE) => TypeInv /\ RegisterInv
  BY StartType, StartRegister
<1>2. TypeInv /\ RegisterInv /\ [Next]_vars => TypeInv' /\ RegisterInv'
  BY NextType, RegisterStep
<1> QED BY <1>1, <1>2, PTL DEF Spec, SafeListed

\* A revision that Helm never finished deploying is neither registered nor applied, however
\* late the worker that read its secret runs (release/controller.go:222-236).
THEOREM OnlyDeployedCorrect == Spec \/ SafeListed => []LocksOnlyDeployed
<1>1. TypeInv /\ RegisterInv => LocksOnlyDeployed
  <2> SUFFICES ASSUME TypeInv, RegisterInv, NEW k \in Keys,
                      NEW os \in {set[k].os} \cup {heap[p].os : p \in {stateByKey[k], store[k]} \ {Nil}},
                      os # Nil
               PROVE  history[k][os] \notin {"pending", "written", "failed"}
    BY DEF LocksOnlyDeployed
  <2>0. /\ set[k].os \in 0..MaxRevision /\ heap \in [Objects -> StateRec]
        /\ stateByKey[k] \in 0..MaxObjects /\ store[k] \in 0..MaxObjects
    BY TypeParts DEF WorkersOK, RegisterOK, InformerOK, SetRec
  <2>1. \/ os = set[k].os
        \/ \E p \in Objects : p \in {stateByKey[k], store[k]} /\ os = heap[p].os
    BY <2>0, BoundsAssumption DEF Objects, Nil
  <2>2. Known(k, os) /\ os \in 0..MaxRevision
    <3>1. CASE os = set[k].os
      BY <2>0, <3>1 DEF Known
    <3>2. ASSUME NEW p \in Objects, p \in {stateByKey[k], store[k]}, os = heap[p].os
          PROVE  Known(k, os) /\ os \in 0..MaxRevision
      BY <2>0, <3>2 DEF Known, Points, StateRec
    <3> QED BY <2>1, <3>1, <3>2
  <2>3. os \in Revisions
    BY <2>2, BoundsAssumption DEF Revisions, Nil
  <2> QED BY <2>2, <2>3 DEF RegisterInv, OnlyParsed, Parsed
<1> QED BY <1>1, RegisterAlways, PTL

-----------------------------------------------------------------------------
(* What is announced, and what is due to be locked *)

\* The latest event of a key that the informer has not seen carries this object.
Current(k, p) ==
    \E i \in 1..Len(stateChanges) :
       /\ stateChanges[i].key = k /\ stateChanges[i].obj = p
       /\ \A l \in 1..Len(stateChanges) : stateChanges[l].key = k => l <= i

Announced(k) == \E i \in 1..Len(stateChanges) : stateChanges[i].key = k

\* The state is out of the map, and deleteState has not announced it yet.
Removing(k) == rel[k].pc \in {"clearSet", "clearLocked", "announce"}

\* The informer has what the register has, or none, or is about to be told so.
Served(k) ==
    /\ \/ Removing(k)
       \/ /\ \A p \in 0..MaxObjects : Current(k, p) => p \in {Nil, stateByKey[k]}
          /\ Announced(k) \/ store[k] \in {Nil, stateByKey[k]}
    /\ ~listed => /\ stateByKey[k] = Nil \/ Announced(k)
                  /\ set[k].pc = "idle" /\ k \notin setQueue

\* The status was reported before the release worker goes on.
Reported(k) ==
    /\ cr[k] = "unclaimed" => status[k] = "none" /\ rel[k].pc = "idle"
    /\ rel[k].pc = "unlock" => status[k] # "deployed"

\* No change of the key's state is on its way to the object set controller.
Heard(k) == ~Announced(k) /\ ~Removing(k) /\ k \notin setQueue

\* A worker that applies has removed the entries, and locks what the register
\* has unless it will hear of a change; nobody removes the entries of a deployed
\* release otherwise, and only a failing Watch keeps some of them from it.
LockDue(k) ==
    /\ set[k].pc # "idle" => EntriesOf(k) = {}
    /\ set[k].pc = "lock" /\ Heard(k) => stateByKey[k] # Nil /\ set[k].os = heap[stateByKey[k]].os
    /\ /\ Lockable(k) /\ k \notin missed
       /\ Heard(k) /\ rel[k].pc = "idle" /\ set[k].pc = "idle"
       => EntriesOf(k) = ObjectsOf(k, heap[store[k]].os)

LockInv == LockedWhole /\ \A k \in Keys : Served(k) /\ Reported(k) /\ LockDue(k)

\* A step that does not concern a key.
Same(k) ==
    /\ set'[k] = set[k] /\ rel'[k].pc = rel[k].pc
    /\ stateByKey'[k] = stateByKey[k] /\ store'[k] = store[k] /\ listed' = listed
    /\ cr'[k] = cr[k] /\ status'[k] = status[k]
    /\ EntriesOf(k)' = EntriesOf(k)
    /\ k \in missed' <=> k \in missed
    /\ k \in setQueue' <=> k \in setQueue
    /\ Announced(k)' <=> Announced(k)
    /\ \A p \in 0..MaxObjects : Current(k, p)' => Current(k, p)

\* Removing the entries of a key.
LEMMA WithoutEntries ==
    ASSUME entries \in [Resources -> Keys \cup {NoKey}], NEW j \in Keys, entries' = Without(j)
    PROVE  /\ EntriesOf(j)' = {}
           /\ \A k \in Keys \ {j} : EntriesOf(k)' = EntriesOf(k)
<1>1. \A k \in Keys : k # NoKey
  BY NamesAssumption DEF Callers
<1>2. \A r \in Resources : entries'[r] = IF entries[r] = j THEN NoKey ELSE entries[r]
  BY DEF Without
<1> QED BY <1>1, <1>2 DEF EntriesOf

\* What lock makes of the entries: nothing, those of the whole object set, or those of
\* some kinds.
OfKinds(j, kinds) == {r \in ObjectsOf(j, set[j].os) : Kind[r] \in kinds}

Refused(j) == ~CanLock(j, set[j].os) /\ UNCHANGED locked
Whole(j)   == /\ CanLock(j, set[j].os)
              /\ EntriesOf(j)' = ObjectsOf(j, set[j].os)
              /\ watching' = watching \cup KindsOf(j, set[j].os)
              /\ missed' = missed \ {j}
Part(j)    == /\ CanLock(j, set[j].os)
              /\ \E kinds \in SUBSET KindsOf(j, set[j].os) : \E g \in kinds \ watching :
                    /\ EntriesOf(j)' = OfKinds(j, kinds)
                    /\ watching' = watching \cup (kinds \ {g})
              /\ missed' = missed \cup {j}

LEMMA LockedEntries ==
    ASSUME TypeInv, NEW j \in Keys, Locking(j)
    PROVE  /\ Refused(j) \/ Whole(j) \/ Part(j)
           /\ \A k \in Keys \ {j} : EntriesOf(k)' = EntriesOf(k)
<1> DEFINE os == set[j].os
<1>0. entries \in [Resources -> Keys \cup {NoKey}] /\ os \in 0..MaxRevision
  BY TypeParts DEF RegisterOK, WorkersOK, SetRec
<1>1. \A k \in Keys : k # NoKey
  BY NamesAssumption DEF Callers
<1>2. ObjectsOf(j, os) \subseteq Resources /\ \A r \in ObjectsOf(j, os) : Kind[r] \in KindsOf(j, os)
  BY <1>0, KindsAreKinds DEF KindsOf
<1>3. ASSUME NEW kinds, NEW watched, CanLock(j, os), TakeEntries(j, kinds, watched)
      PROVE  /\ EntriesOf(j)' = OfKinds(j, kinds)
             /\ \A k \in Keys \ {j} : EntriesOf(k)' = EntriesOf(k)
  <2>1. \A r \in Resources : entries'[r] = IF r \in ObjectsOf(j, os) /\ Kind[r] \in kinds THEN j
                                           ELSE IF entries[r] = j THEN NoKey ELSE entries[r]
    BY <1>3 DEF TakeEntries, Without
  <2>2. \A r \in ObjectsOf(j, os) : entries[r] \in {j, NoKey}
    BY <1>3 DEF CanLock
  <2>3. EntriesOf(j)' = OfKinds(j, kinds)
    BY <1>1, <1>2, <2>1 DEF EntriesOf, OfKinds
  <2>4. ASSUME NEW k \in Keys \ {j} PROVE EntriesOf(k)' = EntriesOf(k)
    BY <1>1, <2>1, <2>2 DEF EntriesOf
  <2> QED BY <2>3, <2>4
<1>4. CASE LockEntries(j) /\ CanLock(j, os)
  <2>1. TakeEntries(j, KindsOf(j, os), KindsOf(j, os)) /\ missed' = missed \ {j}
    BY <1>4 DEF LockEntries
  <2>2. OfKinds(j, KindsOf(j, os)) = ObjectsOf(j, os)
    BY <1>2 DEF OfKinds
  <2>3. Whole(j)
    BY <1>3, <1>4, <2>1, <2>2 DEF Whole, TakeEntries
  <2> QED BY <1>3, <1>4, <2>1, <2>3
<1>5. CASE LockEntries(j) /\ ~CanLock(j, os)
  BY <1>5 DEF LockEntries, EntriesOf, Refused, watcher, locked
<1>6. CASE LockFails(j)
  <2>1. PICK g \in KindsOf(j, os) \ watching, done \in SUBSET KindsOf(j, os) :
          g \notin done /\ TakeEntries(j, done \cup {g}, done)
    BY <1>6 DEF LockFails
  <2>2. CanLock(j, os) /\ missed' = missed \cup {j}
    BY <1>6 DEF LockFails
  <2>3. /\ done \cup {g} \in SUBSET KindsOf(j, os) /\ g \in (done \cup {g}) \ watching
        /\ (done \cup {g}) \ {g} = done
    BY <2>1
  <2>4. watching' = watching \cup done /\ EntriesOf(j)' = OfKinds(j, done \cup {g})
    BY <1>3, <2>1, <2>2 DEF TakeEntries
  <2>5. Part(j)
    BY <2>2, <2>3, <2>4 DEF Part
  <2> QED BY <1>3, <2>1, <2>2, <2>5
<1> QED BY <1>4, <1>5, <1>6 DEF Locking

\* An event is appended: it is the latest of its key.
LEMMA AppendEvent ==
    ASSUME stateChanges \in Seq(EventRec), NEW e \in EventRec, stateChanges' = Append(stateChanges, e)
    PROVE  /\ \A k \in Keys : k = e.key => Announced(k)' /\ \A p : Current(k, p)' => p = e.obj
           /\ \A k \in Keys \ {e.key} : /\ Announced(k)' <=> Announced(k)
                                        /\ \A p : Current(k, p)' => Current(k, p)
<1> DEFINE n == Len(stateChanges)
<1>1. /\ n \in Nat /\ Len(stateChanges') = n + 1 /\ stateChanges'[n + 1] = e
      /\ \A i \in 1..n : stateChanges'[i] = stateChanges[i]
  BY AppendProperties, LenProperties
<1> HIDE DEF n
<1>2. 1..Len(stateChanges') = 1..n \cup {n + 1} /\ n + 1 \notin 1..n
  BY <1>1
<1>3. ASSUME NEW k \in Keys, k = e.key PROVE Announced(k)'
  BY <1>1, <1>2, <1>3 DEF Announced
<1>4. ASSUME NEW k \in Keys, k = e.key, NEW p, Current(k, p)' PROVE p = e.obj
  BY <1>1, <1>2, <1>4 DEF Current
<1>5. ASSUME NEW k \in Keys \ {e.key} PROVE Announced(k)' <=> Announced(k)
  BY <1>1, <1>2 DEF Announced, n
<1>6. ASSUME NEW k \in Keys \ {e.key}, NEW p, Current(k, p)' PROVE Current(k, p)
  <2>1. PICK i \in 1..Len(stateChanges') :
           /\ stateChanges'[i].key = k /\ stateChanges'[i].obj = p
           /\ \A l \in 1..Len(stateChanges') : stateChanges'[l].key = k => l <= i
    BY <1>6 DEF Current
  <2>2. i \in 1..n
    BY <1>1, <1>2, <2>1
  <2>3. \A l \in 1..n : l \in 1..Len(stateChanges') /\ stateChanges'[l] = stateChanges[l]
    BY <1>1, <1>2
  <2> QED BY <2>1, <2>2, <2>3 DEF Current, n
<1> QED BY <1>3, <1>4, <1>5, <1>6

\* An event is taken off the channel.
LEMMA TakeEvent ==
    ASSUME stateChanges \in Seq(EventRec), stateChanges # <<>>, stateChanges' = Tail(stateChanges)
    PROVE  LET e == Head(stateChanges) IN
           /\ e \in EventRec
           /\ \A k \in Keys : \A p : Current(k, p)' => Current(k, p)
           /\ \A k \in Keys \ {e.key} : Announced(k)' <=> Announced(k)
           /\ \A k \in Keys : k = e.key /\ ~Announced(k)' => Current(k, e.obj)
<1> DEFINE n == Len(stateChanges)
           e == Head(stateChanges)
<1>1. /\ n \in Nat /\ n > 0 /\ Len(stateChanges') = n - 1 /\ e = stateChanges[1]
      /\ \A i \in 1..(n - 1) : stateChanges'[i] = stateChanges[i + 1]
      /\ e \in EventRec
  <2>1. n \in Nat /\ n # 0
    BY LenProperties, EmptySeq
  <2>2. Len(stateChanges') = n - 1 /\ \A i \in 1..(n - 1) : stateChanges'[i] = stateChanges[i + 1]
    BY HeadTailProperties
  <2>3. e = stateChanges[1] /\ 1 \in 1..n
    BY <2>1
  <2> QED BY <2>1, <2>2, <2>3, ElementOfSeq
<1> HIDE DEF e
<1>2. ASSUME NEW k \in Keys, NEW p, Current(k, p)' PROVE Current(k, p)
  <2>1. PICK i \in 1..(n - 1) :
           /\ stateChanges'[i].key = k /\ stateChanges'[i].obj = p
           /\ \A l \in 1..(n - 1) : stateChanges'[l].key = k => l <= i
    BY <1>1, <1>2 DEF Current
  <2>2. i + 1 \in 1..n /\ stateChanges[i + 1].key = k /\ stateChanges[i + 1].obj = p
    BY <1>1, <2>1
  <2>3. ASSUME NEW l \in 1..n, stateChanges[l].key = k PROVE l <= i + 1
    <3>1. CASE l = 1
      BY <2>1, <3>1
    <3>2. CASE l # 1
      <4>1. l - 1 \in 1..(n - 1) /\ (l - 1) + 1 = l
        BY <1>1, <3>2
      <4>2. PICK m \in 1..(n - 1) : m + 1 = l
        BY <4>1
      <4>3. stateChanges'[m] = stateChanges[l]
        BY <1>1, <4>2
      <4>4. m <= i
        BY <2>1, <2>3, <4>3
      <4> QED BY <1>1, <2>1, <4>2, <4>4
    <3> QED BY <3>1, <3>2
  <2> QED BY <2>2, <2>3 DEF Current
<1>3. ASSUME NEW k \in Keys \ {e.key} PROVE Announced(k)' <=> Announced(k)
  <2>1. ASSUME Announced(k) PROVE Announced(k)'
    <3>1. PICK l \in 1..n : stateChanges[l].key = k
      BY <2>1 DEF Announced
    <3>2. l # 1
      BY <1>1, <3>1
    <3>3. l - 1 \in 1..(n - 1) /\ (l - 1) + 1 = l
      BY <1>1, <3>2
    <3>4. l - 1 \in 1..Len(stateChanges') /\ stateChanges'[l - 1] = stateChanges[l]
      BY <1>1, <3>3
    <3> QED BY <3>1, <3>4 DEF Announced
  <2>2. ASSUME Announced(k)' PROVE Announced(k)
    <3>1. PICK i \in 1..(n - 1) : stateChanges'[i].key = k
      BY <1>1, <2>2 DEF Announced
    <3>2. i + 1 \in 1..n /\ stateChanges[i + 1].key = k
      BY <1>1, <3>1
    <3> QED BY <3>2 DEF Announced
  <2> QED BY <2>1, <2>2
<1>4. ASSUME NEW k \in Keys, k = e.key, ~Announced(k)' PROVE Current(k, e.obj)
  <2>1. 1 \in 1..n /\ stateChanges[1] = e
    BY <1>1
  <2>2. ASSUME NEW l \in 1..n, stateChanges[l].key = k PROVE l <= 1
    <3> SUFFICES ASSUME l # 1 PROVE FALSE
      OBVIOUS
    <3>1. l - 1 \in 1..(n - 1) /\ (l - 1) + 1 = l
      BY <1>1
    <3>2. PICK m \in 1..(n - 1) : m + 1 = l
      BY <3>1
    <3>3. m \in 1..Len(stateChanges') /\ stateChanges'[m] = stateChanges[l]
      BY <1>1, <3>2
    <3> QED BY <1>4, <2>2, <3>3 DEF Announced
  <2> QED BY <1>4, <2>1, <2>2 DEF Current
<1> QED BY <1>1, <1>2, <1>3, <1>4 DEF e

\* Steps that touch nothing of what these properties are about.
LEMMA UntouchedSame ==
    ASSUME NEW k \in Keys,
           set'[k] = set[k], rel'[k].pc = rel[k].pc, stateByKey'[k] = stateByKey[k], store'[k] = store[k],
           listed' = listed, cr'[k] = cr[k], status'[k] = status[k], EntriesOf(k)' = EntriesOf(k),
           k \in missed' <=> k \in missed,
           k \in setQueue' <=> k \in setQueue, UNCHANGED stateChanges
    PROVE  Same(k)
<1>1. (Announced(k)' <=> Announced(k)) /\ \A p : Current(k, p)' => Current(k, p)
  BY DEF Announced, Current
<1> QED BY <1>1 DEF Same

\* The steps that this is about, of a key.
ReleaseStep(k) == \/ ClaimRelease(k) \/ ReconcileRelease(k) \/ ReleaseNotFound(k) \/ RemoveRelease(k)
                  \/ HelmReleaseDeleted(k) \/ UnlockRelease(k) \/ Delete(k)

SetStep(k) == SetWorker(k) \/ ReconcileFails(k) \/ LockFails(k)

SendStep(k) == \E c \in Callers : SetStateSends(c) /\ call[c].key = k

DeliverStep(k) == Deliver /\ Head(stateChanges).key = k

\* Steps of the release controller for another key.
LEMMA OtherReleaseStep ==
    ASSUME TypeInv, NEW j \in Keys, ReleaseStep(j), NEW k \in Keys, j # k
    PROVE  Same(k)
<1>0. /\ cr \in [Keys -> {"unclaimed", "managed", "deleting", "gone"}]
      /\ rel \in [Keys -> RelRec] /\ stateByKey \in [Keys -> 0..MaxObjects]
      /\ entries \in [Resources -> Keys \cup {NoKey}] /\ stateChanges \in Seq(EventRec)
      /\ DOMAIN status = Keys
  BY TypeParts DEF ClusterOK, WorkersOK, RegisterOK
<1>1. UNCHANGED <<set, store, listed, setQueue, missed>>
  BY DEF ReleaseStep, ClaimRelease, ReconcileRelease, ReleaseNotFound, RemoveRelease, HelmReleaseDeleted,
         UnlockRelease, Delete, DeleteGets, DeleteRemoves, DeleteClears, DeleteAnnounces, OnRemove, Purge,
         informer, watcher
<1>2. cr'[k] = cr[k] /\ status'[k] = status[k]
  BY <1>0 DEF ReleaseStep, ClaimRelease, ReconcileRelease, ReleaseNotFound, RemoveRelease, HelmReleaseDeleted,
         UnlockRelease, Delete, DeleteGets, DeleteRemoves, DeleteClears, DeleteAnnounces, OnRemove, Purge,
         SetStatus, cluster
<1>3. rel'[k] = rel[k]
  BY <1>0 DEF ReleaseStep, ClaimRelease, ReconcileRelease, ReleaseNotFound, RemoveRelease, HelmReleaseDeleted,
         UnlockRelease, Delete, DeleteGets, DeleteRemoves, DeleteClears, DeleteAnnounces, OnRemove, Purge,
         release
<1>4. stateByKey'[k] = stateByKey[k]
  BY <1>0 DEF ReleaseStep, ClaimRelease, ReconcileRelease, ReleaseNotFound, RemoveRelease, HelmReleaseDeleted,
         UnlockRelease, Delete, DeleteGets, DeleteRemoves, DeleteClears, DeleteAnnounces, OnRemove, Purge,
         register
<1>5. EntriesOf(k)' = EntriesOf(k)
  <2>1. UNCHANGED entries \/ entries' = Without(j)
    BY DEF ReleaseStep, ClaimRelease, ReconcileRelease, ReleaseNotFound, RemoveRelease, HelmReleaseDeleted,
         UnlockRelease, Delete, DeleteGets, DeleteRemoves, DeleteClears, DeleteAnnounces, OnRemove, Purge,
         register
  <2>2. CASE UNCHANGED entries
    BY <2>2 DEF EntriesOf
  <2> QED BY <1>0, <2>1, <2>2, WithoutEntries
<1>6. CASE UNCHANGED stateChanges
  BY <1>1, <1>2, <1>3, <1>4, <1>5, <1>6, UntouchedSame
<1>7. CASE DeleteAnnounces(j)
  <2> DEFINE e == [key |-> j, obj |-> Nil]
  <2>1. e \in EventRec /\ e.key = j
    BY BoundsAssumption DEF EventRec, Nil
  <2>2. stateChanges' = Append(stateChanges, e)
    BY <1>7 DEF DeleteAnnounces
  <2> HIDE DEF e
  <2>3. (Announced(k)' <=> Announced(k)) /\ \A p : Current(k, p)' => Current(k, p)
    BY <1>0, <2>1, <2>2, AppendEvent
  <2> QED BY <1>1, <1>2, <1>3, <1>4, <1>5, <2>3 DEF Same
<1>8. UNCHANGED stateChanges \/ DeleteAnnounces(j)
  BY DEF ReleaseStep, ClaimRelease, ReconcileRelease, ReleaseNotFound, RemoveRelease, HelmReleaseDeleted,
         UnlockRelease, Delete, DeleteGets, DeleteRemoves, DeleteClears, OnRemove, Purge, register
<1> QED BY <1>6, <1>7, <1>8

\* Steps of the object set controller for another key.
LEMMA OtherSetStep ==
    ASSUME TypeInv, NEW j \in Keys, SetStep(j), NEW k \in Keys, j # k
    PROVE  Same(k)
<1>0. set \in [Keys -> SetRec] /\ entries \in [Resources -> Keys \cup {NoKey}]
  BY TypeParts DEF WorkersOK, RegisterOK
<1>1. UNCHANGED <<rel, stateByKey, store, listed, cr, status, stateChanges>>
  BY DEF SetStep, SetWorker, NothingToReconcile, StartReconcile, ReconcileReads, ReconcileApplies, LockGets,
         LockEntries, LockFails, ReconcileFails, cluster, release, register
<1>2. set'[k] = set[k] /\ (k \in setQueue' <=> k \in setQueue) /\ (k \in missed' <=> k \in missed)
  BY <1>0 DEF SetStep, SetWorker, NothingToReconcile, StartReconcile, ReconcileReads, ReconcileApplies, LockGets,
         LockEntries, LockFails, ReconcileFails, watcher
<1>3. EntriesOf(k)' = EntriesOf(k)
  <2>1. UNCHANGED entries \/ entries' = Without(j) \/ Locking(j)
    BY DEF Locking, SetStep, SetWorker, NothingToReconcile, StartReconcile, ReconcileReads, ReconcileApplies, LockGets,
         ReconcileFails, register
  <2>2. CASE UNCHANGED entries
    BY <2>2 DEF EntriesOf
  <2> QED BY <1>0, <2>1, <2>2, WithoutEntries, LockedEntries
<1> QED BY <1>1, <1>2, <1>3, UntouchedSame

\* An event for another key is sent.
LEMMA OtherSendStep ==
    ASSUME TypeInv, NEW c \in Callers, SetStateSends(c), NEW k \in Keys, call[c].key # k
    PROVE  Same(k)
<1> DEFINE e == [key |-> call[c].key, obj |-> Fresh]
<1>0. /\ rel \in [Keys -> RelRec] /\ stateByKey \in [Keys -> 0..MaxObjects] /\ stateChanges \in Seq(EventRec)
      /\ call[c].key \in Keys
      /\ c \in Keys => call[c].key = c
  <2>1. call[c].pc # "idle"
    BY DEF SetStateSends
  <2> QED BY <2>1, TypeParts DEF WorkersOK, RegisterOK, WellFormed
<1>1. UNCHANGED <<set, store, listed, setQueue, cr, status, entries, missed>>
  BY DEF SetStateSends, cluster, informer, watcher
<1>2. rel'[k] = rel[k] /\ stateByKey'[k] = stateByKey[k]
  BY <1>0 DEF SetStateSends
<1>3. e \in EventRec /\ e.key = call[c].key /\ stateChanges' = Append(stateChanges, e)
  <2>1. Fresh \in 0..MaxObjects
    BY FreshIsFree, BoundsAssumption DEF SetStateSends, Objects
  <2> QED BY <1>0, <2>1 DEF SetStateSends, EventRec
<1> HIDE DEF e
<1>4. (Announced(k)' <=> Announced(k)) /\ \A p : Current(k, p)' => Current(k, p)
  BY <1>0, <1>3, AppendEvent
<1>5. EntriesOf(k)' = EntriesOf(k)
  BY <1>1 DEF EntriesOf
<1> QED BY <1>1, <1>2, <1>4, <1>5 DEF Same

\* An event for another key is delivered.
LEMMA OtherDeliverStep ==
    ASSUME TypeInv, Deliver, NEW k \in Keys, Head(stateChanges).key # k
    PROVE  Same(k)
<1>0. /\ stateChanges \in Seq(EventRec) /\ stateChanges # <<>> /\ stateChanges' = Tail(stateChanges)
      /\ store \in [Keys -> 0..MaxObjects] /\ setQueue \subseteq Keys
  BY TypeParts DEF RegisterOK, InformerOK, Deliver
<1>1. UNCHANGED <<set, rel, stateByKey, listed, cr, status, entries, missed>>
  BY DEF Deliver, cluster, release, watcher
<1>2. store'[k] = store[k] /\ (k \in setQueue' <=> k \in setQueue)
  BY <1>0 DEF Deliver
<1>3. (Announced(k)' <=> Announced(k)) /\ \A p : Current(k, p)' => Current(k, p)
  BY <1>0, TakeEvent
<1>4. EntriesOf(k)' = EntriesOf(k)
  BY <1>1 DEF EntriesOf
<1> QED BY <1>1, <1>2, <1>3, <1>4 DEF Same

\* What concerns a key are these steps.
LEMMA KeySteps ==
    ASSUME TypeInv, [Next]_vars, NEW k \in Keys
    PROVE  \/ Same(k) \/ ReleaseStep(k) \/ SetStep(k) \/ SendStep(k) \/ DeliverStep(k)
           \/ ListStates \/ ResyncStates \/ Restart
<1>0. (\A j \in Keys : j \in Callers) /\ (\A w \in Watchers : w \in Callers)
  BY DEF Callers
<1>1. CASE UNCHANGED <<set, rel, stateByKey, store, listed, cr, status, entries, missed, setQueue, stateChanges>>
  <2>1. EntriesOf(k)' = EntriesOf(k)
    BY <1>1 DEF EntriesOf
  <2> QED BY <1>1, <2>1, UntouchedSame
<1>2. ASSUME NEW j \in Keys, ReleaseStep(j) PROVE Same(k) \/ ReleaseStep(k)
  BY <1>2, OtherReleaseStep
<1>3. ASSUME NEW j \in Keys, SetStep(j) PROVE Same(k) \/ SetStep(k)
  BY <1>3, OtherSetStep
<1>4. ASSUME NEW c \in Callers, SetStateSends(c) PROVE Same(k) \/ SendStep(k)
  BY <1>4, OtherSendStep DEF SendStep
<1>5. CASE Deliver
  BY <1>5, OtherDeliverStep DEF DeliverStep
<1>6. ASSUME NEW c \in Callers, SetState(c) \/ Resolve(c)
      PROVE  \/ UNCHANGED <<set, rel, stateByKey, store, listed, cr, status, entries, missed, setQueue, stateChanges>>
             \/ SetStateSends(c)
  BY <1>6 DEF SetState, SetStateGets, SetStateCopies, SetStateBlocks, Resolve, cluster, release, informer, watcher
<1>7. CASE Environment \/ ResyncReleases \/ UNCHANGED vars
  <2>1. \/ UNCHANGED <<set, rel, stateByKey, store, listed, cr, status, entries, missed, setQueue, stateChanges>>
        \/ \E j \in Keys : HelmReleaseDeleted(j)
    BY <1>7 DEF Environment, Helm, HelmBegins, HelmWrites, HelmEnds, HelmUninstalls, UserDrifts, ResyncReleases,
                vars, cluster, release, register, informer, watcher
  <2> QED BY <1>1, <1>2, <2>1 DEF ReleaseStep
<1>8. ASSUME NEW j \in Keys, ReleaseWorker(j)
      PROVE  \/ ReleaseStep(j) \/ SetState(j)
             \/ UNCHANGED <<set, rel, stateByKey, store, listed, cr, status, entries, missed, setQueue, stateChanges>>
  BY <1>8 DEF ReleaseWorker, ReleaseStep, IgnoreRelease, cluster, register, informer, watcher
<1>9. ASSUME NEW w \in Watchers, WatchWorker(w) PROVE SetState(w) \/ Resolve(w)
  BY <1>9 DEF WatchWorker
<1>10. ASSUME NEW j \in Keys, SetWorker(j) \/ ReconcileFails(j) \/ LockFails(j) PROVE SetStep(j)
  BY <1>10 DEF SetStep
<1> QED BY <1>0, <1>1, <1>2, <1>3, <1>4, <1>5, <1>6, <1>7, <1>8, <1>9, <1>10 DEF Next, Operator, Informer

\* Only deleteState changes an object that its key still points to.
LEMMA HeapSame ==
    ASSUME TypeInv, RegisterInv, [Next]_vars, NEW k \in Keys, NEW p \in 0..MaxObjects,
           p # Nil, Points(k, p), Points(k, p)', ~DeleteClears(k)
    PROVE  heap'[p] = heap[p]
<1>1. p \in Objects
  BY BoundsAssumption DEF Objects, Nil
<1>2. ~Made(k, p)
  BY PointsReachable DEF Made
<1>3. ~Cleared(p)
  <2> SUFFICES ASSUME NEW j \in Keys, DeleteClears(j), rel[j].old = p PROVE FALSE
    BY DEF Cleared
  <2>1. Points(j, p)
    BY DEF Points
  <2>2. j = k
    BY <1>1, <2>1 DEF RegisterInv, Separate
  <2> QED BY <2>2
<1> QED BY <1>1, <1>2, <1>3, ObjectStep

\* In particular the registered object, and the one in the store.
LEMMA HeldSame ==
    ASSUME TypeInv, RegisterInv, [Next]_vars, NEW k \in Keys, ~DeleteClears(k)
    PROVE  /\ stateByKey[k] # Nil /\ stateByKey'[k] = stateByKey[k]
              => heap'[stateByKey[k]] = heap[stateByKey[k]]
           /\ store[k] # Nil /\ store'[k] = store[k] => heap'[store[k]] = heap[store[k]]
<1>1. stateByKey[k] \in 0..MaxObjects /\ store[k] \in 0..MaxObjects
  BY TypeParts DEF RegisterOK, InformerOK
<1>2. Points(k, stateByKey[k]) /\ Points(k, store[k])
  BY DEF Points
<1>3. ASSUME stateByKey'[k] = stateByKey[k] PROVE \A p : p = stateByKey[k] => Points(k, p)'
  BY <1>3 DEF Points
<1>4. ASSUME store'[k] = store[k] PROVE \A p : p = store[k] => Points(k, p)'
  BY <1>4 DEF Points
<1> QED BY <1>1, <1>2, <1>3, <1>4, HeapSame

\* Steps that do not concern a key keep what is said of it.
LEMMA SameKeeps ==
    ASSUME TypeInv, RegisterInv, [Next]_vars, NEW k \in Keys, Same(k),
           Served(k), Reported(k), LockDue(k)
    PROVE  Served(k)' /\ Reported(k)' /\ LockDue(k)'
<1>1. Served(k)'
  BY DEF Same, Served, Removing
<1>2. Reported(k)'
  BY DEF Same, Reported
<1>3. ~DeleteClears(k)
  BY TypeParts DEF Same, DeleteClears, WorkersOK, RelRec
<1>4. Heard(k)' <=> Heard(k)
  BY DEF Same, Heard, Removing
<1>5. /\ stateByKey[k] # Nil => heap'[stateByKey[k]] = heap[stateByKey[k]]
      /\ store[k] # Nil => heap'[store[k]] = heap[store[k]]
  BY <1>3, HeldSame DEF Same
<1>6. LockDue(k)'
  <2>1. /\ set'[k] = set[k] /\ rel'[k].pc = rel[k].pc /\ stateByKey'[k] = stateByKey[k] /\ store'[k] = store[k]
        /\ cr'[k] = cr[k] /\ status'[k] = status[k] /\ EntriesOf(k)' = EntriesOf(k)
        /\ k \in missed' <=> k \in missed
    BY DEF Same
  <2>2. \A os : ObjectsOf(k, os)' = ObjectsOf(k, os)
    BY DEF ObjectsOf
  <2>3. Alone(k)' <=> Alone(k)
    BY DEF Alone
  <2>4. set'[k].pc # "idle" => EntriesOf(k)' = {}
    BY <2>1 DEF LockDue, Lockable
  <2>5. set'[k].pc = "lock" /\ Heard(k)' => stateByKey'[k] # Nil /\ set'[k].os = heap'[stateByKey'[k]].os
    BY <1>4, <1>5, <2>1 DEF LockDue, Lockable
  <2>6. ASSUME cr'[k] = "managed", status'[k] = "deployed", Alone(k), Heard(k)', rel'[k].pc = "idle",
               set'[k].pc = "idle", store'[k] # Nil, heap'[store'[k]].locked, k \notin missed'
        PROVE  EntriesOf(k)' = ObjectsOf(k, heap'[store'[k]].os)
    BY <1>4, <1>5, <2>1, <2>6 DEF LockDue, Lockable
  <2> QED BY <2>3, <2>4, <2>5, <2>6 DEF LockDue, Lockable, ObjectsOf
<1> QED BY <1>1, <1>2, <1>6

\* The informer goes on being served where register, events and store stay as they are.
LEMMA ServedKept ==
    ASSUME NEW k \in Keys, Served(k),
           stateByKey'[k] = stateByKey[k], store'[k] = store[k], listed' = listed, set'[k] = set[k],
           k \in setQueue' <=> k \in setQueue, UNCHANGED stateChanges, Removing(k) => Removing(k)'
    PROVE  Served(k)'
<1>1. (Announced(k)' <=> Announced(k)) /\ \A p \in 0..MaxObjects : Current(k, p)' <=> Current(k, p)
  BY DEF Announced, Current
<1> QED BY <1>1 DEF Served

\* A step after which nothing is due to be locked, unless it was due before.
LEMMA NotDue ==
    ASSUME TypeInv, RegisterInv, [Next]_vars, NEW k \in Keys, LockDue(k), set'[k] = set[k],
           EntriesOf(k)' \in {EntriesOf(k), {}},
           ~(cr'[k] = "managed" /\ status'[k] = "deployed" /\ rel'[k].pc = "idle"),
           Heard(k)' => Heard(k) /\ stateByKey'[k] = stateByKey[k] /\ ~DeleteClears(k)
    PROVE  LockDue(k)'
<1>1. set'[k].pc # "idle" => EntriesOf(k)' = {}
  BY DEF LockDue, Lockable
<1>2. ASSUME set'[k].pc = "lock", Heard(k)'
      PROVE  stateByKey'[k] # Nil /\ set'[k].os = heap'[stateByKey'[k]].os
  <2>1. stateByKey[k] # Nil /\ set[k].os = heap[stateByKey[k]].os /\ stateByKey'[k] = stateByKey[k]
    BY <1>2 DEF LockDue, Lockable
  <2>2. heap'[stateByKey[k]] = heap[stateByKey[k]]
    BY <1>2, <2>1, HeldSame
  <2> QED BY <2>1, <2>2
<1> QED BY <1>1, <1>2 DEF LockDue, Lockable

\* The status and the annotation of a HelmRelease change before the release worker goes on.
LEMMA ReleaseReports ==
    ASSUME TypeInv, NEW k \in Keys, ReleaseStep(k), Reported(k)
    PROVE  /\ Reported(k)'
           /\ ~(cr'[k] = "managed" /\ status'[k] = "deployed" /\ rel'[k].pc = "idle")
<1>0. /\ cr \in [Keys -> {"unclaimed", "managed", "deleting", "gone"}] /\ DOMAIN status = Keys
      /\ rel \in [Keys -> RelRec] /\ rel[k] \in RelRec
  BY TypeParts DEF ClusterOK, WorkersOK
<1>1. CASE ClaimRelease(k)
  BY <1>0, <1>1 DEF ClaimRelease, release, Reported
<1>2. CASE ReconcileRelease(k)
  <2>1. State(Last(k)) # "deployed" \/ Last(k) = "deployed"
    BY DEF State
  <2>2. cr'[k] = "managed" /\ status'[k] = State(Last(k))
        /\ rel'[k].pc = IF Last(k) = "deployed" THEN "setting" ELSE "unlock"
    BY <1>0, <1>2 DEF ReconcileRelease, SetStatus, RelRec
  <2> QED BY <2>1, <2>2 DEF Reported
<1>3. CASE ReleaseNotFound(k) \/ RemoveRelease(k)
  <2>1. UNCHANGED status
    BY <1>3 DEF ReleaseNotFound, RemoveRelease, cluster
  <2>2. /\ (rel'[k].pc = "get" /\ cr'[k] = cr[k]) \/ (cr'[k] = "gone" /\ rel'[k].pc = "idle")
        /\ cr[k] # "unclaimed"
    <3>1. CASE ReleaseNotFound(k)
      BY <1>0, <3>1 DEF ReleaseNotFound, cluster, IdleRel
    <3>2. CASE RemoveRelease(k)
      BY <1>0, <3>2 DEF RemoveRelease, IdleRel
    <3> QED BY <1>3, <3>1, <3>2
  <2> QED BY <2>1, <2>2 DEF Reported
<1>4. CASE HelmReleaseDeleted(k)
  BY <1>0, <1>4 DEF HelmReleaseDeleted, Reported
<1>5. CASE UnlockRelease(k)
  BY <1>0, <1>5 DEF UnlockRelease, cluster, Reported, IdleRel
<1>6. CASE DeleteGets(k) \/ DeleteRemoves(k) \/ DeleteClears(k) \/ DeleteAnnounces(k)
  <2>1. UNCHANGED <<cr, status>>
    BY <1>6 DEF DeleteGets, DeleteRemoves, DeleteClears, DeleteAnnounces, cluster
  <2>2. rel'[k].pc \in {"onRemove", "remove", "clearSet", "clearLocked", "announce"} /\ rel[k].pc # "idle"
    BY <1>0, <1>6 DEF DeleteGets, DeleteRemoves, DeleteClears, DeleteAnnounces, RelRec
  <2> QED BY <2>1, <2>2 DEF Reported
<1>7. CASE OnRemove(k)
  <2>1. UNCHANGED status /\ rel[k].pc = "onRemove"
    BY <1>7 DEF OnRemove
  <2>2. (rel'[k].pc = "purge" /\ cr'[k] = cr[k]) \/ (cr'[k] = "gone" /\ rel'[k].pc = "idle")
    BY <1>0, <1>7 DEF OnRemove, RelRec, IdleRel
  <2> QED BY <2>1, <2>2 DEF Reported
<1>8. CASE Purge(k)
  <2>1. rel[k].pc = "purge" /\ UNCHANGED cr /\ status'[k] = "removed" /\ rel'[k].pc = "idle"
    BY <1>0, <1>8 DEF Purge, SetStatus, IdleRel
  <2> QED BY <2>1 DEF Reported
<1> QED BY <1>1, <1>2, <1>3, <1>4, <1>5, <1>6, <1>7, <1>8 DEF ReleaseStep, Delete

\* The release controller's own steps.
LEMMA ReleaseKeeps ==
    ASSUME TypeInv, RegisterInv, [Next]_vars, NEW k \in Keys, ReleaseStep(k),
           Served(k), Reported(k), LockDue(k)
    PROVE  Served(k)' /\ Reported(k)' /\ LockDue(k)'
<1>0. /\ rel \in [Keys -> RelRec] /\ rel[k] \in RelRec /\ stateByKey \in [Keys -> 0..MaxObjects]
      /\ entries \in [Resources -> Keys \cup {NoKey}] /\ stateChanges \in Seq(EventRec)
  BY TypeParts DEF WorkersOK, RegisterOK
<1>1. UNCHANGED <<set, store, listed, setQueue>>
  BY DEF ReleaseStep, ClaimRelease, ReconcileRelease, ReleaseNotFound, RemoveRelease, HelmReleaseDeleted,
         UnlockRelease, Delete, DeleteGets, DeleteRemoves, DeleteClears, DeleteAnnounces, OnRemove, Purge,
         informer
<1>2. EntriesOf(k)' \in {EntriesOf(k), {}}
  <2>1. UNCHANGED entries \/ entries' = Without(k)
    BY DEF ReleaseStep, ClaimRelease, ReconcileRelease, ReleaseNotFound, RemoveRelease, HelmReleaseDeleted,
         UnlockRelease, Delete, DeleteGets, DeleteRemoves, DeleteClears, DeleteAnnounces, OnRemove, Purge,
         register
  <2>2. CASE UNCHANGED entries
    BY <2>2 DEF EntriesOf
  <2> QED BY <1>0, <2>1, <2>2, WithoutEntries
<1>3. Reported(k)' /\ ~(cr'[k] = "managed" /\ status'[k] = "deployed" /\ rel'[k].pc = "idle")
  BY ReleaseReports
<1>4. CASE DeleteRemoves(k)
  <2>1. Removing(k)' /\ stateByKey'[k] = Nil
    BY <1>0, <1>4 DEF DeleteRemoves, Removing, RelRec
  <2>2. Served(k)'
    BY <1>1, <2>1 DEF Served
  <2>3. ~Heard(k)'
    BY <2>1 DEF Heard
  <2> QED BY <1>1, <1>2, <1>3, <2>2, <2>3, NotDue
<1>5. CASE DeleteClears(k)
  <2>1. Removing(k)'
    BY <1>0, <1>5 DEF DeleteClears, Removing, RelRec
  <2>2. UNCHANGED <<stateByKey, stateChanges>>
    BY <1>5 DEF DeleteClears, register
  <2>3. Served(k)'
    BY <1>1, <2>1, <2>2, ServedKept
  <2>4. ~Heard(k)'
    BY <2>1 DEF Heard
  <2> QED BY <1>1, <1>2, <1>3, <2>3, <2>4, NotDue
<1>6. CASE DeleteAnnounces(k)
  <2> DEFINE e == [key |-> k, obj |-> Nil]
  <2>1. e \in EventRec /\ e.key = k /\ e.obj = Nil
    BY BoundsAssumption DEF EventRec, Nil
  <2>2. stateChanges' = Append(stateChanges, e)
    BY <1>6 DEF DeleteAnnounces
  <2> HIDE DEF e
  <2>3. Announced(k)' /\ \A p : Current(k, p)' => p = Nil
    BY <1>0, <2>1, <2>2, AppendEvent
  <2>4. Served(k)'
    BY <1>1, <2>3 DEF Served
  <2>5. ~Heard(k)'
    BY <2>3 DEF Heard
  <2> QED BY <1>1, <1>2, <1>3, <2>4, <2>5, NotDue
<1>7. CASE ~DeleteRemoves(k) /\ ~DeleteClears(k) /\ ~DeleteAnnounces(k)
  <2>1. UNCHANGED <<stateByKey, stateChanges>>
    BY <1>7 DEF ReleaseStep, ClaimRelease, ReconcileRelease, ReleaseNotFound, RemoveRelease, HelmReleaseDeleted,
         UnlockRelease, Delete, DeleteGets, OnRemove, Purge, register
  <2>2. Removing(k)' <=> Removing(k)
    <3>1. CASE HelmReleaseDeleted(k) \/ ClaimRelease(k)
      BY <3>1 DEF HelmReleaseDeleted, ClaimRelease, release, Removing
    <3>2. CASE ReconcileRelease(k) \/ ReleaseNotFound(k) \/ RemoveRelease(k) \/ UnlockRelease(k)
      <4>1. rel[k].pc \in {"idle", "unlock"}
        BY <3>2 DEF ReconcileRelease, ReleaseNotFound, RemoveRelease, UnlockRelease
      <4>2. rel'[k].pc \in {"setting", "unlock", "get", "idle"}
        <5>1. ReconcileRelease(k) => rel'[k].pc \in {"setting", "unlock"}
          BY <1>0 DEF ReconcileRelease, RelRec
        <5>2. ReleaseNotFound(k) => rel'[k].pc = "get"
          BY <1>0 DEF ReleaseNotFound, IdleRel
        <5>3. RemoveRelease(k) => rel'[k].pc \in {"get", "idle"}
          BY <1>0 DEF RemoveRelease, IdleRel
        <5>4. UnlockRelease(k) => rel'[k].pc = "idle"
          BY <1>0 DEF UnlockRelease, IdleRel
        <5> QED BY <3>2, <5>1, <5>2, <5>3, <5>4
      <4> QED BY <4>1, <4>2 DEF Removing
    <3>3. CASE DeleteGets(k) \/ OnRemove(k) \/ Purge(k)
      BY <1>0, <3>3 DEF DeleteGets, OnRemove, Purge, Removing, RelRec, IdleRel
    <3> QED BY <1>7, <3>1, <3>2, <3>3 DEF ReleaseStep, Delete
  <2>3. Served(k)'
    BY <1>1, <2>1, <2>2, ServedKept
  <2>4. Heard(k)' <=> Heard(k)
    BY <1>1, <2>1, <2>2 DEF Heard, Announced
  <2> QED BY <1>1, <1>2, <1>3, <1>7, <2>1, <2>3, <2>4, NotDue
<1> QED BY <1>4, <1>5, <1>6, <1>7

\* An event for the key is sent: the key's state is not at rest.
LEMMA SendKeeps ==
    ASSUME TypeInv, NEW k \in Keys, SendStep(k), Served(k), Reported(k), LockDue(k)
    PROVE  Served(k)' /\ Reported(k)' /\ LockDue(k)'
<1> PICK c \in Callers : SetStateSends(c) /\ call[c].key = k
  BY DEF SendStep
<1> DEFINE e == [key |-> k, obj |-> Fresh]
<1>0. /\ rel \in [Keys -> RelRec] /\ stateByKey \in [Keys -> 0..MaxObjects] /\ stateChanges \in Seq(EventRec)
      /\ Fresh \in Objects
  BY TypeParts, FreshIsFree DEF WorkersOK, RegisterOK, SetStateSends
<1>1. UNCHANGED <<set, store, listed, setQueue, cr, status, entries>> /\ stateByKey'[k] = Fresh
  BY <1>0 DEF SetStateSends, cluster, informer
<1>2. rel'[k].pc \in {rel[k].pc, "idle"}
  BY <1>0 DEF SetStateSends, IdleRel
<1>3. e \in EventRec /\ e.key = k /\ e.obj = Fresh /\ stateChanges' = Append(stateChanges, e)
  BY <1>0, BoundsAssumption DEF SetStateSends, EventRec, Objects
<1> HIDE DEF e
<1>4. Announced(k)' /\ \A p : Current(k, p)' => p = Fresh
  BY <1>0, <1>3, AppendEvent
<1>5. Served(k)'
  BY <1>1, <1>4 DEF Served
<1>6. Reported(k)'
  BY <1>1, <1>2 DEF Reported
<1>7. ~Heard(k)' /\ (set'[k].pc # "idle" => EntriesOf(k)' = {})
  BY <1>1, <1>4 DEF Heard, LockDue, EntriesOf
<1> QED BY <1>5, <1>6, <1>7 DEF LockDue, Lockable

\* The event is delivered: the key is queued.
LEMMA DeliverKeeps ==
    ASSUME TypeInv, NEW k \in Keys, DeliverStep(k), Served(k), Reported(k), LockDue(k)
    PROVE  Served(k)' /\ Reported(k)' /\ LockDue(k)'
<1> DEFINE e == Head(stateChanges)
<1>0. /\ stateChanges \in Seq(EventRec) /\ stateChanges # <<>> /\ stateChanges' = Tail(stateChanges)
      /\ store \in [Keys -> 0..MaxObjects] /\ setQueue \subseteq Keys /\ e.key = k
  BY TypeParts DEF RegisterOK, InformerOK, Deliver, DeliverStep
<1>1. UNCHANGED <<set, rel, stateByKey, listed, cr, status, entries>> /\ listed
  BY DEF Deliver, DeliverStep, cluster, release
<1>2. store'[k] = e.obj /\ k \in setQueue'
  BY <1>0 DEF Deliver, DeliverStep
<1>3. /\ e.obj \in 0..MaxObjects
      /\ \A p : Current(k, p)' => Current(k, p)
      /\ ~Announced(k)' => Current(k, e.obj)
  BY <1>0, TakeEvent DEF EventRec
<1>4. Served(k)'
  <2>1. Removing(k)' <=> Removing(k)
    BY <1>1 DEF Removing
  <2> HIDE DEF e
  <2> QED BY <1>1, <1>2, <1>3, <2>1 DEF Served
<1>5. Reported(k)'
  BY <1>1 DEF Reported
<1>6. ~Heard(k)' /\ (set'[k].pc # "idle" => EntriesOf(k)' = {})
  BY <1>1, <1>2 DEF Heard, LockDue, EntriesOf
<1> QED BY <1>4, <1>5, <1>6 DEF LockDue, Lockable

\* The informer lists, or resyncs: every key that has a state is queued.
LEMMA ListKeeps ==
    ASSUME TypeInv, NEW k \in Keys, ListStates \/ ResyncStates, Served(k), Reported(k), LockDue(k)
    PROVE  Served(k)' /\ Reported(k)' /\ LockDue(k)'
<1>1. UNCHANGED <<set, rel, stateByKey, cr, status, entries, stateChanges>>
  BY DEF ListStates, ResyncStates, cluster, release, register
<1>2. (Announced(k)' <=> Announced(k)) /\ \A p : Current(k, p)' <=> Current(k, p)
  BY <1>1 DEF Announced, Current
<1>3. (Removing(k)' <=> Removing(k)) /\ Reported(k)'
  BY <1>1 DEF Removing, Reported
<1>4. set[k].pc = "idle" /\ listed'
  BY DEF ListStates, ResyncStates, Quiet, Served
<1>5. store'[k] # Nil => k \in setQueue'
  <2>1. CASE ListStates
    BY <2>1, Zenon DEF ListStates
  <2>2. CASE ResyncStates
    BY <2>2 DEF ResyncStates
  <2> QED BY <2>1, <2>2
<1>6. Served(k)'
  <2>1. CASE ListStates
    <3>1. ~listed /\ (stateByKey[k] = Nil => store'[k] = Nil)
      BY <2>1 DEF ListStates
    <3>2. Announced(k) \/ store'[k] = Nil
      BY <3>1 DEF Served
    <3> QED BY <1>1, <1>2, <1>3, <1>4, <3>2 DEF Served
  <2>2. CASE ResyncStates
    <3>1. UNCHANGED store
      BY <2>2 DEF ResyncStates
    <3> QED BY <1>1, <1>2, <1>3, <1>4, <3>1 DEF Served
  <2> QED BY <2>1, <2>2
<1>7. LockDue(k)'
  BY <1>1, <1>4, <1>5 DEF LockDue, Lockable, Heard
<1> QED BY <1>3, <1>6, <1>7

\* Nothing is registered, announced or running.
LEMMA RestartKeeps ==
    ASSUME TypeInv, NEW k \in Keys, Restart, Reported(k)
    PROVE  Served(k)' /\ Reported(k)' /\ LockDue(k)'
<1>1. /\ stateByKey'[k] = Nil /\ store'[k] = Nil /\ set'[k].pc = "idle" /\ rel'[k].pc = "idle"
      /\ setQueue' = {} /\ 1..Len(stateChanges') = {} /\ UNCHANGED <<cr, status>>
  BY EmptyType DEF Restart, IdleSet, IdleRel
<1>2. Served(k)'
  BY <1>1 DEF Served, Current
<1>3. Reported(k)'
  BY <1>1 DEF Reported
<1>4. LockDue(k)'
  BY <1>1 DEF LockDue, Lockable
<1> QED BY <1>2, <1>3, <1>4

\* What LockedWhole says of one key.
WholeManifest(k) ==
    /\ \E v \in 1..Len(history[k]), kinds \in SUBSET Kinds :
          /\ EntriesOf(k) = {r \in Manifest[k][v] : Kind[r] \in kinds}
          /\ k \notin missed => kinds \in {{}, Kinds}
    /\ k \notin missed => \A r \in EntriesOf(k) : Kind[r] \in watching

\* The locked entries of a key are those of a whole manifest after every step.
LEMMA LockedStep ==
    ASSUME TypeInv, RegisterInv, LockedWhole, [Next]_vars
    PROVE  LockedWhole'
<1> SUFFICES ASSUME NEW k \in Keys PROVE WholeManifest(k)'
  BY DEF LockedWhole, WholeManifest
<1>0. /\ entries \in [Resources -> Keys \cup {NoKey}] /\ set[k].os \in 0..MaxRevision
      /\ Len(history[k]) \in Nat /\ Len(history'[k]) \in Nat /\ 1 <= Len(history'[k])
      /\ Len(history[k]) <= Len(history'[k])
  BY TypeParts, ParsedStep DEF RegisterOK, WorkersOK, SetRec, TypeInv, Revisions
<1>1. WholeManifest(k)
  BY DEF LockedWhole, WholeManifest
<1>2. ASSUME EntriesOf(k)' = {} PROVE WholeManifest(k)'
  <2>1. EntriesOf(k)' = {r \in Manifest[k][1] : Kind[r] \in {}} /\ 1 \in 1..Len(history'[k])
    BY <1>0, <1>2
  <2> QED BY <1>2, <2>1 DEF WholeManifest
<1>3. ASSUME EntriesOf(k)' = EntriesOf(k), k \in missed' <=> k \in missed, watching \subseteq watching'
      PROVE  WholeManifest(k)'
  <2>1. PICK v \in 1..Len(history[k]), kinds \in SUBSET Kinds :
              /\ EntriesOf(k) = {r \in Manifest[k][v] : Kind[r] \in kinds}
              /\ k \notin missed => kinds \in {{}, Kinds}
    BY <1>1 DEF WholeManifest
  <2>2. v \in 1..Len(history'[k])
    BY <1>0, <2>1
  <2>3. k \notin missed => \A r \in EntriesOf(k) : Kind[r] \in watching
    BY <1>1 DEF WholeManifest
  <2>4. k \notin missed' => \A r \in EntriesOf(k)' : Kind[r] \in watching'
    BY <1>3, <2>3
  <2> HIDE DEF WholeManifest
  <2>5. \E u \in 1..Len(history'[k]), some \in SUBSET Kinds :
              /\ EntriesOf(k)' = {r \in Manifest[k][u] : Kind[r] \in some}
              /\ k \notin missed' => some \in {{}, Kinds}
    BY <1>3, <2>1, <2>2
  <2> QED BY <2>4, <2>5 DEF WholeManifest
<1>4. ASSUME Locking(k) PROVE WholeManifest(k)'
  <2> DEFINE os == set[k].os
  <2>1. ObjectsOf(k, os) = {} \/ (os \in 1..Len(history'[k]) /\ ObjectsOf(k, os) = Manifest[k][os])
    <3>1. CASE os = Nil
      BY <3>1 DEF ObjectsOf
    <3>2. CASE os # Nil
      <4>1. os \in Revisions
        BY <1>0, <3>2, BoundsAssumption DEF Revisions, Nil
      <4>2. Parsed(k, os)
        BY <4>1 DEF RegisterInv, OnlyParsed, Known
      <4> QED BY <1>0, <3>2, <4>2 DEF Parsed, ObjectsOf
    <3> QED BY <3>1, <3>2
  <2>2. ObjectsOf(k, os) \subseteq Resources /\ \A r \in ObjectsOf(k, os) : Kind[r] \in KindsOf(k, os)
    BY <1>0, KindsAreKinds DEF KindsOf
  <2>3. CASE Refused(k)
    BY <1>3, <2>3 DEF Refused, locked, EntriesOf
  <2>4. CASE Whole(k)
    <3>1. EntriesOf(k)' = ObjectsOf(k, os) /\ \A r \in EntriesOf(k)' : Kind[r] \in watching'
      BY <2>2, <2>4 DEF Whole
    <3>2. CASE ObjectsOf(k, os) = {}
      BY <1>2, <3>1, <3>2
    <3>3. CASE os \in 1..Len(history'[k]) /\ ObjectsOf(k, os) = Manifest[k][os]
      <4>1. EntriesOf(k)' = {r \in Manifest[k][os] : Kind[r] \in Kinds}
        BY <2>2, <3>1, <3>3, KindAssumption
      <4> QED BY <3>1, <3>3, <4>1 DEF WholeManifest
    <3> QED BY <2>1, <3>2, <3>3
  <2>5. CASE Part(k)
    <3>1. PICK kinds \in SUBSET KindsOf(k, os) : EntriesOf(k)' = OfKinds(k, kinds)
      BY <2>5 DEF Part
    <3>2. kinds \in SUBSET Kinds /\ k \in missed'
      BY <1>0, <2>5, KindsAreKinds DEF Part
    <3>3. CASE ObjectsOf(k, os) = {}
      BY <1>2, <3>1, <3>3 DEF OfKinds
    <3>4. CASE os \in 1..Len(history'[k]) /\ ObjectsOf(k, os) = Manifest[k][os]
      BY <3>1, <3>2, <3>4 DEF OfKinds, WholeManifest
    <3> QED BY <2>1, <3>3, <3>4
  <2> QED BY <1>4, <2>3, <2>4, <2>5, LockedEntries
<1>5. CASE UNCHANGED locked
  BY <1>3, <1>5 DEF locked, EntriesOf
<1>6. ASSUME NEW j \in Keys, entries' = Without(j), UNCHANGED <<watching, missed>> PROVE WholeManifest(k)'
  BY <1>0, <1>2, <1>3, <1>6, WithoutEntries
<1>7. ASSUME NEW j \in Keys \ {k}, Locking(j) PROVE WholeManifest(k)'
  <2>1. EntriesOf(k)' = EntriesOf(k) /\ (Refused(j) \/ Whole(j) \/ Part(j))
    BY <1>7, LockedEntries
  <2>2. (k \in missed' <=> k \in missed) /\ watching \subseteq watching'
    BY <2>1 DEF Refused, Whole, Part, locked
  <2> QED BY <1>3, <2>1, <2>2
<1>8. CASE Restart
  <2>1. \A r \in Resources : entries'[r] = NoKey
    BY <1>8 DEF Restart
  <2> QED BY <1>2, <2>1, NamesAssumption DEF EntriesOf, Callers
<1> QED BY <1>4, <1>5, <1>6, <1>7, <1>8, ReleaseSteps

\* Nothing keeps a release that shares no resource from being locked.
LEMMA AloneLocks ==
    ASSUME TypeInv, LockedWhole, NEW k \in Keys, Alone(k), NEW os \in 0..MaxRevision
    PROVE  CanLock(k, os)
<1> SUFFICES ASSUME NEW r \in ObjectsOf(k, os), entries[r] \notin {k, NoKey} PROVE FALSE
  BY DEF CanLock
<1>1. os \in Revisions /\ r \in Manifest[k][os]
  BY BoundsAssumption DEF ObjectsOf, Revisions, Nil
<1>2. r \in Resources
  BY <1>1, ManifestAssumption
<1>3. PICK j \in Keys \ {k} : entries[r] = j
  BY <1>2, TypeParts DEF RegisterOK
<1>4. r \in EntriesOf(j)
  BY <1>2, <1>3 DEF EntriesOf
<1>5. PICK v \in 1..Len(history[j]) : r \in Manifest[j][v]
  BY <1>4 DEF LockedWhole
<1>6. v \in Revisions
  <2>1. Len(history[j]) \in 1..MaxRevision
    BY DEF TypeInv, TypeOK, Revisions
  <2> QED BY <1>5, <2>1, BoundsAssumption DEF Revisions
<1> QED BY <1>1, <1>5, <1>6 DEF Alone

\* The object set controller's own steps.
LEMMA SetKeeps ==
    ASSUME TypeInv, RegisterInv, LockedWhole, [Next]_vars, NEW k \in Keys, SetStep(k),
           Served(k), Reported(k), LockDue(k)
    PROVE  Served(k)' /\ Reported(k)' /\ LockDue(k)'
<1>0. /\ set \in [Keys -> SetRec] /\ set[k] \in SetRec /\ entries \in [Resources -> Keys \cup {NoKey}]
      /\ set[k].os \in 0..MaxRevision
  BY TypeParts DEF WorkersOK, RegisterOK, SetRec
<1>1. UNCHANGED <<rel, stateByKey, store, listed, cr, status, stateChanges>>
  BY DEF SetStep, SetWorker, NothingToReconcile, StartReconcile, ReconcileReads, ReconcileApplies, LockGets,
         LockEntries, LockFails, ReconcileFails, cluster, release, register
<1>2. /\ Announced(k)' <=> Announced(k)
      /\ \A p : Current(k, p)' <=> Current(k, p)
      /\ Removing(k)' <=> Removing(k)
  BY <1>1 DEF Announced, Current, Removing
<1>3. Reported(k)'
  BY <1>1 DEF Reported
<1>4. listed
  <2>1. k \in setQueue \/ set[k].pc # "idle"
    BY DEF SetStep, SetWorker, NothingToReconcile, StartReconcile, ReconcileReads, ReconcileApplies, LockGets,
           LockEntries, LockFails, ReconcileFails
  <2> QED BY <2>1 DEF Served
<1>5. Served(k)'
  BY <1>1, <1>2, <1>4 DEF Served
<1>6. /\ stateByKey[k] # Nil => heap'[stateByKey[k]] = heap[stateByKey[k]]
      /\ store[k] # Nil => heap'[store[k]] = heap[store[k]]
  <2>1. ~DeleteClears(k)
    <3>1. rel[k] \in RelRec /\ rel'[k] = rel[k] /\ rel \in [Keys -> RelRec]
      BY <1>1, TypeParts DEF WorkersOK
    <3> QED BY <3>1 DEF DeleteClears, RelRec
  <2> QED BY <1>1, <2>1, HeldSame
<1>7. CASE NothingToReconcile(k)
  <2>1. UNCHANGED <<set, entries>> /\ store[k] = Nil /\ set[k].pc = "idle"
    BY <1>7 DEF NothingToReconcile, register
  <2> QED BY <1>1, <1>3, <1>5, <2>1 DEF LockDue, Lockable
<1>8. CASE StartReconcile(k)
  <2>1. EntriesOf(k)' = {}
    BY <1>0, <1>8, WithoutEntries DEF StartReconcile
  <2>2. set'[k].pc = "read" \/ (set'[k] = set[k] /\ set[k].pc = "idle" /\ ~heap[store[k]].locked /\ store[k] # Nil)
    BY <1>0, <1>8 DEF StartReconcile
  <2> QED BY <1>1, <1>3, <1>5, <1>6, <2>1, <2>2 DEF LockDue, Lockable
<1>9. CASE ReconcileReads(k) \/ ReconcileApplies(k) \/ ReconcileFails(k)
  <2>1. UNCHANGED entries /\ set[k].pc # "idle"
    BY <1>9 DEF ReconcileReads, ReconcileApplies, ReconcileFails, register
  <2>2. set'[k].pc \in {"write", "getLock"}
    BY <1>0, <1>9 DEF ReconcileReads, ReconcileApplies, ReconcileFails, IdleSet
  <2>3. EntriesOf(k)' = {}
    BY <2>1 DEF LockDue, Lockable, EntriesOf
  <2> QED BY <1>3, <1>5, <2>2, <2>3 DEF LockDue, Lockable
<1>10. CASE LockGets(k)
  <2> DEFINE os == IF stateByKey[k] = Nil THEN Nil ELSE heap[stateByKey[k]].os
  <2>1. UNCHANGED <<entries, heap, setQueue>> /\ set[k].pc # "idle"
    BY <1>10 DEF LockGets, register
  <2>2. EntriesOf(k)' = {}
    BY <2>1 DEF LockDue, Lockable, EntriesOf
  <2>3. set'[k] = IF os = Nil THEN IdleSet ELSE [pc |-> "lock", obj |-> Nil, os |-> os]
    BY <1>0, <1>10 DEF LockGets
  <2>4. CASE os = Nil
    <3>1. set'[k].pc = "idle"
      BY <2>3, <2>4 DEF IdleSet
    <3>2. ASSUME Heard(k)', store'[k] # Nil PROVE heap'[store'[k]].os = Nil
      <4>1. ~Announced(k) /\ ~Removing(k)
        BY <1>2, <3>2 DEF Heard
      <4>2. store[k] = stateByKey[k] /\ store[k] # Nil
        BY <1>1, <3>2, <4>1 DEF Served
      <4> QED BY <1>1, <2>1, <2>4, <4>2
    <3>3. LockDue(k)'
      BY <2>2, <3>1, <3>2 DEF LockDue, Lockable, ObjectsOf
    <3> QED BY <1>3, <1>5, <3>3
  <2>5. CASE os # Nil
    <3>1. set'[k].pc = "lock" /\ set'[k].os = os
      BY <2>3, <2>5
    <3>2. stateByKey'[k] # Nil /\ os = heap'[stateByKey'[k]].os
      BY <1>1, <2>1, <2>5
    <3> HIDE DEF os
    <3> QED BY <1>3, <1>5, <2>2, <3>1, <3>2 DEF LockDue, Lockable
  <2> QED BY <2>4, <2>5
<1>11. CASE Locking(k)
  <2>1. UNCHANGED <<heap, setQueue>> /\ set[k].pc = "lock"
    BY <1>11 DEF Locking, LockEntries, LockFails
  <2>2. set'[k].pc = "idle"
    BY <1>0, <1>11 DEF Locking, LockEntries, LockFails, IdleSet
  <2>3. ASSUME Alone(k), Heard(k)', store'[k] # Nil, k \notin missed'
        PROVE  EntriesOf(k)' = ObjectsOf(k, heap'[store'[k]].os)
    <3>1. Heard(k)
      BY <1>2, <2>1, <2>3 DEF Heard
    <3>2. stateByKey[k] # Nil /\ set[k].os = heap[stateByKey[k]].os
      BY <2>1, <3>1 DEF LockDue, Lockable
    <3>3. store[k] = stateByKey[k]
      BY <1>1, <2>3, <3>1 DEF Served, Heard
    <3>4. CanLock(k, set[k].os)
      BY <1>0, <2>3, AloneLocks
    <3>5. EntriesOf(k)' = ObjectsOf(k, set[k].os)
      BY <1>11, <2>3, <3>4, LockedEntries DEF Refused, Whole, Part
    <3> QED BY <1>1, <2>1, <3>2, <3>3, <3>5
  <2>4. Alone(k)' <=> Alone(k)
    BY DEF Alone
  <2>5. LockDue(k)'
    BY <2>2, <2>3, <2>4 DEF LockDue, Lockable, ObjectsOf
  <2> QED BY <1>3, <1>5, <2>5
<1> QED BY <1>7, <1>8, <1>9, <1>10, <1>11 DEF SetStep, SetWorker, Locking

\* Where the operator starts, nothing is due.
LEMMA StartLock == ASSUME NEW l \in BOOLEAN, Start(l) PROVE LockInv
<1>1. LockedWhole
  <2> SUFFICES ASSUME NEW k \in Keys PROVE WholeManifest(k)
    BY DEF LockedWhole, WholeManifest
  <2>1. \A r \in Resources : entries[r] = NoKey
    BY DEF Start
  <2>2. EntriesOf(k) = {}
    BY <2>1, NamesAssumption DEF EntriesOf, Callers
  <2>3. 1 \in 1..Len(history[k])
    BY StartType, BoundsAssumption DEF TypeInv, TypeOK, Revisions
  <2>4. EntriesOf(k) = {r \in Manifest[k][1] : Kind[r] \in {}}
    BY <2>2
  <2> QED BY <2>2, <2>3, <2>4 DEF WholeManifest
<1>2. ASSUME NEW k \in Keys PROVE Served(k) /\ Reported(k) /\ LockDue(k)
  <2>1. /\ stateByKey[k] = Nil /\ store[k] = Nil /\ set[k].pc = "idle" /\ rel[k].pc = "idle"
        /\ setQueue = {} /\ 1..Len(stateChanges) = {} /\ status[k] = "none" /\ entries = [r \in Resources |-> NoKey]
    BY EmptyType DEF Start, IdleSet, IdleRel
  <2>2. Served(k)
    BY <2>1 DEF Served, Current
  <2>3. Reported(k)
    BY <2>1 DEF Reported
  <2>4. LockDue(k)
    BY <2>1 DEF LockDue, Lockable
  <2> QED BY <2>2, <2>3, <2>4
<1> QED BY <1>1, <1>2 DEF LockInv

\* Every step keeps it all.
LEMMA LockStep == TypeInv /\ RegisterInv /\ LockInv /\ [Next]_vars => LockInv'
<1> SUFFICES ASSUME TypeInv, RegisterInv, LockInv, [Next]_vars PROVE LockInv'
  OBVIOUS
<1>1. LockedWhole'
  BY LockedStep DEF LockInv
<1>2. ASSUME NEW k \in Keys PROVE Served(k)' /\ Reported(k)' /\ LockDue(k)'
  <2>1. Served(k) /\ Reported(k) /\ LockDue(k) /\ LockedWhole
    BY DEF LockInv
  <2>2. CASE Same(k)
    BY <2>1, <2>2, SameKeeps
  <2>3. CASE ReleaseStep(k)
    BY <2>1, <2>3, ReleaseKeeps
  <2>4. CASE SetStep(k)
    BY <2>1, <2>4, SetKeeps
  <2>5. CASE SendStep(k)
    BY <2>1, <2>5, SendKeeps
  <2>6. CASE DeliverStep(k)
    BY <2>1, <2>6, DeliverKeeps
  <2>7. CASE ListStates \/ ResyncStates
    BY <2>1, <2>7, ListKeeps
  <2>8. CASE Restart
    BY <2>1, <2>8, RestartKeeps
  <2> QED BY <2>2, <2>3, <2>4, <2>5, <2>6, <2>7, <2>8, KeySteps
<1> QED BY <1>1, <1>2 DEF LockInv

\* In both specifications.
LEMMA LockAlways == Spec \/ SafeListed => [](TypeInv /\ RegisterInv /\ LockInv)
<1>1. Start(FALSE) \/ Start(TRUE) => TypeInv /\ RegisterInv /\ LockInv
  BY StartType, StartRegister, StartLock
<1>2. TypeInv /\ RegisterInv /\ LockInv /\ [Next]_vars => TypeInv' /\ RegisterInv' /\ LockInv'
  BY NextType, RegisterStep, LockStep
<1> QED BY <1>1, <1>2, PTL DEF Spec, SafeListed

\* The entries of a key are those of one manifest, never of two mixed, all of them or
\* none, and their GVKs are watched, except after a lock that a failing Watch has cut
\* short (lock, cache.go:294-324).
THEOREM LockedWholeCorrect == Spec \/ SafeListed => []LockedWhole
<1>1. LockInv => LockedWhole
  BY DEF LockInv
<1> QED BY <1>1, LockAlways, PTL

\* At rest the informer serves the state that the register holds, or none (setState
\* sends and stores under one lock, cache.go:266-273).
THEOREM StoreFollowsCorrect == Spec \/ SafeListed => []StoreFollows
<1>1. LockInv => StoreFollows
  <2> SUFFICES ASSUME LockInv, Quiet, NEW k \in Keys PROVE store[k] \in {Nil, stateByKey[k]}
    BY DEF StoreFollows
  <2>1. ~Announced(k) /\ ~Removing(k)
    BY EmptyType DEF Quiet, Announced, Removing
  <2> QED BY <2>1 DEF LockInv, Served
<1> QED BY <1>1, LockAlways, PTL

\* At rest a release shown as deployed whose state is locked has all its resources
\* watched, if it shares none with another release and no Watch has failed for its last
\* lock (Lock drops the error of lock, cache.go:182).
THEOREM LockedAtRestCorrect == Spec \/ SafeListed => []LockedAtRest
<1>1. LockInv => LockedAtRest
  <2> SUFFICES ASSUME LockInv, Quiet, NEW k \in Keys, Lockable(k), k \notin missed
               PROVE  Watched(k)
    BY DEF LockedAtRest
  <2>1. Heard(k) /\ rel[k].pc = "idle" /\ set[k].pc = "idle"
    BY EmptyType DEF Quiet, Heard, Announced, Removing
  <2>2. EntriesOf(k) = ObjectsOf(k, heap[store[k]].os)
    BY <2>1 DEF LockInv, LockDue
  <2>3. \A r \in EntriesOf(k) : Kind[r] \in watching
    BY DEF LockInv, LockedWhole
  <2> QED BY <2>2, <2>3 DEF Watched
<1> QED BY <1>1, LockAlways, PTL

-----------------------------------------------------------------------------
(* What the register promises *)

\* A step of Helm deploys one revision of its release, or none.
LEMMA HelmDeploys ==
    ASSUME TypeInv, NEW k \in Keys, Helm(k)
    PROVE  /\ \A j \in Keys \ {k} : Deployed(j)' = Deployed(j)
           /\ Deployed(k)' = Deployed(k) \/ \E v \in Revisions : Deployed(k)' = Deployed(k) \cup {v}
<1> DEFINE old == history[k]
           rev == Len(old)
           Before == {"pending", "written", "failed"}
<1>1. /\ history \in [Keys -> Seq(Statuses)]
      /\ old \in Seq(Statuses) /\ rev \in Revisions /\ rev \in Nat /\ rev \in 1..rev
  BY BoundsAssumption DEF TypeInv, TypeOK, Revisions
<1>2. \A j \in Keys \ {k} : history'[j] = history[j]
  BY <1>1 DEF Helm, HelmBegins, HelmWrites, HelmEnds, HelmUninstalls, SetHistory
<1>3. \A j \in Keys \ {k} : Deployed(j)' = Deployed(j)
  BY <1>2 DEF Deployed
<1>4. ASSUME NEW h \in Seq(Statuses), SetHistory(k, h), Len(h) = rev,
             \A v \in 1..rev : v # rev => (h[v] \in Before <=> old[v] \in Before),
             old[rev] \in Before \/ h[rev] \notin Before
      PROVE  Deployed(k)' = Deployed(k) \/ Deployed(k)' = Deployed(k) \cup {rev}
  <2>1. history'[k] = h
    BY <1>1, <1>4 DEF SetHistory
  <2>2. /\ Deployed(k)' = {v \in 1..rev : h[v] \notin Before}
        /\ Deployed(k)  = {v \in 1..rev : old[v] \notin Before}
    BY <1>4, <2>1 DEF Deployed
  <2> QED BY <1>1, <1>4, <2>2
<1>5. ASSUME NEW s \in Statuses, SetHistory(k, [old EXCEPT ![rev] = s]),
             old[rev] \in Before \/ s \notin Before
      PROVE  Deployed(k)' = Deployed(k) \/ Deployed(k)' = Deployed(k) \cup {rev}
  <2> DEFINE h == [old EXCEPT ![rev] = s]
  <2>1. h \in Seq(Statuses) /\ Len(h) = rev
    BY <1>1, <1>5, StatusGoesOn
  <2>2. \A v \in 1..rev : h[v] = IF v = rev THEN s ELSE old[v]
    BY <1>1, LenProperties
  <2>3. h[rev] = s
    BY <1>1, <2>2
  <2> HIDE DEF h
  <2> QED BY <1>4, <1>5, <2>1, <2>2, <2>3 DEF h
<1>6. {"pending", "written", "deployed", "superseded", "failed", "uninstalling", "uninstalled",
       "removed"} \subseteq Statuses
  BY DEF Statuses, Transitioning
<1>7. CASE HelmBegins(k)
  <2>1. history'[k] = Append(old, "pending")
    BY <1>1, <1>7 DEF HelmBegins, SetHistory
  <2>2. /\ Len(history'[k]) = rev + 1 /\ history'[k][rev + 1] = "pending"
        /\ \A v \in 1..rev : history'[k][v] = old[v]
    BY <1>1, <1>6, <2>1, AppendProperties
  <2> QED BY <1>1, <1>3, <2>2 DEF Deployed
<1>8. CASE HelmWrites(k)
  BY <1>1, <1>3, <1>5, <1>6, <1>8 DEF HelmWrites, Last
<1>9. CASE HelmEnds(k)
  <2> DEFINE done == [v \in 1..rev |-> CASE v = rev -> "deployed"
                                         [] old[v] = "deployed" -> "superseded"
                                         [] OTHER -> old[v]]
  <2>0. old[rev] = "written"
    BY <1>9 DEF HelmEnds, Last
  <2>1. CASE SetHistory(k, done)
    <3>1. \A v \in 1..rev : /\ old[v] \in Statuses /\ done[v] \in Statuses
                            /\ v # rev => (done[v] \in Before <=> old[v] \in Before)
      BY <1>1, <1>6, ElementOfSeq
    <3>2. done \in Seq(Statuses) /\ Len(done) = rev
      <4>1. done \in [1..rev -> Statuses]
        BY <3>1
      <4> QED BY <1>1, <4>1, SeqDef, LenProperties
    <3> HIDE DEF done
    <3> QED BY <1>1, <1>3, <1>4, <2>0, <2>1, <3>1, <3>2
  <2>2. CASE SetHistory(k, [old EXCEPT ![rev] = "failed"])
    BY <1>1, <1>3, <1>5, <1>6, <2>0, <2>2
  <2> QED BY <1>9, <2>1, <2>2 DEF HelmEnds
<1>10. CASE HelmUninstalls(k)
  <2>1. PICK s \in {"uninstalling", "uninstalled", "removed"} : SetHistory(k, [old EXCEPT ![rev] = s])
    BY <1>10 DEF HelmUninstalls
  <2> QED BY <1>1, <1>3, <1>5, <1>6, <2>1
<1> QED BY <1>7, <1>8, <1>9, <1>10 DEF Helm

\* Whatever a lock has read, and however long ago, it locks what its release has deployed.
LEMMA LocksDeployed ==
    ASSUME TypeInv, RegisterInv, NEW k \in Keys, Locking(k), UNCHANGED history
    PROVE  [Promise!Next]_(Promise!vars)
<1> DEFINE os == set[k].os
<1>0. os \in 0..MaxRevision /\ \A j \in Keys : Deployed(j)' = Deployed(j)
  BY TypeParts DEF WorkersOK, SetRec, Deployed
<1>1. (\A j \in Keys \ {k} : EntriesOf(j)' = EntriesOf(j)) /\ (Refused(k) \/ Whole(k) \/ Part(k))
  BY LockedEntries
<1>2. CASE Refused(k)
  <2>1. \A j \in Keys : EntriesOf(j)' = EntriesOf(j)
    BY <1>2 DEF Refused, locked, EntriesOf
  <2> QED BY <1>0, <1>2, <2>1 DEF Refused, locked, Promise!vars
<1>3. CASE os = Nil
  <2>1. CASE Whole(k)
    <3>1. EntriesOf(k)' = {} /\ watching' = watching
      BY <1>3, <2>1 DEF Whole, ObjectsOf, KindsOf
    <3>2. Promise!Unlock(k)
      BY <1>0, <1>1, <3>1 DEF Promise!Unlock
    <3> QED BY <3>2 DEF Promise!Next
  <2>2. ~Part(k)
    BY <1>3 DEF Part, ObjectsOf, KindsOf
  <2> QED BY <1>1, <1>2, <2>1, <2>2
<1>4. CASE CanLock(k, os) /\ os # Nil
  <2>1. os \in Revisions /\ ObjectsOf(k, os) = Manifest[k][os]
    BY <1>0, <1>4 DEF ObjectsOf, Revisions, Nil
  <2>2. os \in Deployed(k)
    <3>1. Parsed(k, os)
      BY <2>1 DEF RegisterInv, OnlyParsed, Known
    <3> QED BY <1>4, <3>1 DEF Parsed, Deployed
  <2>3. \A j \in Keys \ {k} : Manifest[k][os] \cap EntriesOf(j) = {}
    BY <1>4, NamesAssumption DEF CanLock, ObjectsOf, EntriesOf, Callers
  <2>4. KindsOf(k, os) = {Kind[r] : r \in Manifest[k][os]}
    BY <2>1 DEF KindsOf
  <2>5. CASE Whole(k)
    <3>1. EntriesOf(k)' = Manifest[k][os] /\ watching' = watching \cup {Kind[r] : r \in Manifest[k][os]}
      BY <2>1, <2>4, <2>5 DEF Whole
    <3> HIDE DEF os
    <3>2. Promise!Lock(k, os)
      BY <1>0, <1>1, <2>2, <2>3, <3>1 DEF Promise!Lock, Promise!CanLock
    <3> QED BY <2>1, <3>2 DEF Promise!Next
  <2>6. CASE Part(k)
    <3>1. \E kinds \in SUBSET {Kind[r] : r \in Manifest[k][os]} : \E g \in kinds \ watching :
             /\ EntriesOf(k)' = {r \in Manifest[k][os] : Kind[r] \in kinds}
             /\ watching' = watching \cup (kinds \ {g})
      BY <2>1, <2>4, <2>6 DEF Part, OfKinds
    <3> HIDE DEF os
    <3>2. Promise!LockPart(k, os)
      BY <1>0, <1>1, <2>2, <2>3, <3>1 DEF Promise!LockPart, Promise!CanLock
    <3> QED BY <2>1, <3>2 DEF Promise!Next
  <2> QED BY <1>1, <1>2, <2>5, <2>6
<1> QED BY <1>1, <1>2, <1>3, <1>4 DEF Whole, Part

\* Every step of the whole system is a step of LockPromise, or leaves its state alone.
LEMMA PromiseStep == TypeInv /\ RegisterInv /\ [Next]_vars => [Promise!Next]_(Promise!vars)
<1> SUFFICES ASSUME TypeInv, RegisterInv, [Next]_vars PROVE [Promise!Next]_(Promise!vars)
  OBVIOUS
<1>0. entries \in [Resources -> Keys \cup {NoKey}]
  BY TypeParts DEF RegisterOK
<1>1. CASE UNCHANGED <<history, locked>>
  <2>1. UNCHANGED watching /\ \A j \in Keys : Deployed(j)' = Deployed(j) /\ EntriesOf(j)' = EntriesOf(j)
    BY <1>1 DEF Deployed, EntriesOf, locked
  <2> QED BY <2>1 DEF Promise!vars
<1>2. ASSUME NEW k \in Keys, Helm(k), UNCHANGED locked PROVE [Promise!Next]_(Promise!vars)
  <2>1. UNCHANGED watching /\ \A j \in Keys : EntriesOf(j)' = EntriesOf(j)
    BY <1>2 DEF EntriesOf, locked
  <2>2. \A j \in Keys \ {k} : Deployed(j)' = Deployed(j)
    BY <1>2, HelmDeploys
  <2>3. CASE Deployed(k)' = Deployed(k)
    BY <2>1, <2>2, <2>3 DEF Promise!vars
  <2>4. ASSUME NEW v \in Revisions, Deployed(k)' = Deployed(k) \cup {v} PROVE Promise!Deploy(k, v)
    BY <2>1, <2>2, <2>4 DEF Promise!Deploy
  <2> QED BY <1>2, <2>3, <2>4, HelmDeploys DEF Promise!Next
<1>3. ASSUME NEW k \in Keys, entries' = Without(k), UNCHANGED <<history, watching, missed>>
      PROVE  Promise!Unlock(k)
  <2>1. EntriesOf(k)' = {} /\ \A j \in Keys \ {k} : EntriesOf(j)' = EntriesOf(j)
    BY <1>0, <1>3, WithoutEntries
  <2>2. \A j \in Keys : Deployed(j)' = Deployed(j)
    BY <1>3 DEF Deployed
  <2> QED BY <1>3, <2>1, <2>2 DEF Promise!Unlock
<1>4. CASE Restart /\ UNCHANGED history
  <2>1. watching' = {} /\ \A j \in Keys : EntriesOf(j)' = {}
    BY <1>4, NamesAssumption DEF Restart, EntriesOf, Callers
  <2>2. \A j \in Keys : Deployed(j)' = Deployed(j)
    BY <1>4 DEF Deployed
  <2> QED BY <2>1, <2>2 DEF Promise!Next, Promise!Forget
<1> QED BY <1>1, <1>2, <1>3, <1>4, LocksDeployed, ReleaseSteps DEF Promise!Next

\* The register keeps its promise (cache.go:294-353): whatever was read before, a step
\* locks and watches one whole manifest that Helm has deployed, none of whose resources
\* belongs to another release (or some GVKs of it, if one cannot be watched), or unlocks
\* one release, or forgets all.
THEOREM KeepsLockPromise == Spec \/ SafeListed => LocksAsPromised
<1>1. ASSUME NEW l \in BOOLEAN, Start(l) PROVE Promise!Init
  <2>1. watching = {} /\ \A k \in Keys : EntriesOf(k) = {}
    BY <1>1, NamesAssumption DEF Start, EntriesOf, Callers
  <2>2. \A k \in Keys : Deployed(k) \subseteq Revisions
    <3>1. \A k \in Keys : Len(history[k]) \in 1..MaxRevision
      BY <1>1, StartType DEF TypeInv, TypeOK, Revisions
    <3> QED BY <3>1, BoundsAssumption DEF Deployed, Revisions
  <2> QED BY <2>1, <2>2 DEF Promise!Init
<1>2. Start(FALSE) \/ Start(TRUE) => Promise!Init
  BY <1>1
<1> QED BY <1>2, PromiseStep, RegisterAlways, PTL DEF Spec, SafeListed, LocksAsPromised, Promise!Safe

-----------------------------------------------------------------------------
(* No lock ever takes a resource away from another release.  This needs no  *)
(* invariant: whatever the register looks like, the three ways in which the *)
(* code writes to keyByResourceKeyByGVK, which are removeAllEntries, a lock *)
(* that canLock admits and no write at all, keep an entry, drop it, or add  *)
(* one where there was none.                                                *)

\* What one step may do to an entry of keyByResourceKeyByGVK.
Kept == \A r \in Resources : entries[r] # NoKey => entries'[r] \in {entries[r], NoKey}

\* removeAllEntries (cache.go:357-370) keeps or drops each entry.
LEMMA WithoutKeeps ==
    ASSUME NEW k, entries' = Without(k)
    PROVE  Kept
  BY DEF Kept, Without

\* A step that does not touch the entries keeps them.
LEMMA UntouchedKeeps ==
    ASSUME UNCHANGED entries
    PROVE  Kept
  BY DEF Kept

\* lock (cache.go:294-324): canLock admits only entries that are free or the
\* key's own.
LEMMA LockKeeps ==
    ASSUME NEW k, Locking(k)
    PROVE  Kept
<1>1. CASE CanLock(k, set[k].os)
  <2>1. PICK kinds, watched : TakeEntries(k, kinds, watched)
    BY <1>1 DEF Locking, LockEntries, LockFails
  <2>2. \A r \in Resources : entries'[r] = IF r \in ObjectsOf(k, set[k].os) /\ Kind[r] \in kinds
                                           THEN k ELSE Without(k)[r]
    BY <2>1 DEF TakeEntries
  <2>3. \A r \in ObjectsOf(k, set[k].os) : entries[r] \in {k, NoKey}
    BY <1>1 DEF CanLock
  <2>4. \A r \in Resources : Without(k)[r] \in {entries[r], NoKey}
    BY DEF Without
  <2> QED
    BY <2>2, <2>3, <2>4 DEF Kept
<1>2. CASE ~CanLock(k, set[k].os)
  <2>1. UNCHANGED entries
    BY <1>2 DEF Locking, LockEntries, LockFails
  <2> QED
    BY <2>1, UntouchedKeeps
<1> QED
  BY <1>1, <1>2

\* The steps of Helm and of the users touch nothing of the register.
LEMMA EnvironmentKeeps ==
    ASSUME Environment
    PROVE  Kept
<1>1. UNCHANGED entries
  BY DEF Environment, Helm, HelmBegins, HelmWrites, HelmEnds, HelmUninstalls,
         HelmReleaseDeleted, UserDrifts, register
<1> QED
  BY <1>1, UntouchedKeeps

\* setState writes to the other map only.
LEMMA SetStateKeeps ==
    ASSUME NEW c, SetState(c)
    PROVE  Kept
<1>1. UNCHANGED entries
  BY DEF SetState, SetStateGets, SetStateCopies, SetStateBlocks, SetStateSends
<1> QED
  BY <1>1, UntouchedKeeps

\* The release controller only drops entries: in Unlock and in OnRemove.
LEMMA ReleaseWorkerKeeps ==
    ASSUME NEW k, ReleaseWorker(k)
    PROVE  Kept
<1>1. CASE UnlockRelease(k)
  BY <1>1, WithoutKeeps DEF UnlockRelease
<1>2. CASE OnRemove(k)
  BY <1>2, WithoutKeeps DEF OnRemove
<1>3. CASE SetState(k)
  BY <1>3, SetStateKeeps
<1>4. CASE ClaimRelease(k) \/ ReconcileRelease(k) \/ ReleaseNotFound(k)
           \/ RemoveRelease(k) \/ IgnoreRelease(k)
  <2>1. UNCHANGED entries
    BY <1>4 DEF ClaimRelease, ReconcileRelease, ReleaseNotFound, RemoveRelease, IgnoreRelease,
                register
  <2> QED
    BY <2>1, UntouchedKeeps
<1>5. CASE DeleteGets(k) \/ DeleteRemoves(k) \/ DeleteClears(k) \/ DeleteAnnounces(k) \/ Purge(k)
  <2>1. UNCHANGED entries
    BY <1>5 DEF DeleteGets, DeleteRemoves, DeleteClears, DeleteAnnounces, Purge, register
  <2> QED
    BY <2>1, UntouchedKeeps
<1> QED
  BY <1>1, <1>2, <1>3, <1>4, <1>5 DEF ReleaseWorker, Delete

\* The object set controller drops the entries of a key before it applies its
\* object set, and locks them again afterwards.
LEMMA SetWorkerKeeps ==
    ASSUME NEW k, SetWorker(k) \/ ReconcileFails(k) \/ LockFails(k)
    PROVE  Kept
<1>1. CASE StartReconcile(k)
  BY <1>1, WithoutKeeps DEF StartReconcile
<1>2. CASE Locking(k)
  BY <1>2, LockKeeps
<1>3. CASE NothingToReconcile(k) \/ ReconcileReads(k) \/ ReconcileApplies(k) \/ LockGets(k)
           \/ ReconcileFails(k)
  <2>1. UNCHANGED entries
    BY <1>3 DEF NothingToReconcile, ReconcileReads, ReconcileApplies, LockGets, ReconcileFails,
                register
  <2> QED
    BY <2>1, UntouchedKeeps
<1> QED
  BY <1>1, <1>2, <1>3 DEF SetWorker, Locking

\* The watcher, the informer and the resyncs read the entries.
LEMMA ReadersKeep ==
    ASSUME (\E w \in Watchers : WatchWorker(w)) \/ Informer \/ ResyncReleases \/ ResyncStates
    PROVE  Kept
<1>1. CASE \E w \in Watchers : WatchWorker(w)
  <2>1. PICK w \in Watchers : WatchWorker(w)
    BY <1>1
  <2>2. CASE Resolve(w)
    <3>1. UNCHANGED entries
      BY <2>2 DEF Resolve
    <3> QED
      BY <3>1, UntouchedKeeps
  <2>3. CASE SetState(w)
    BY <2>3, SetStateKeeps
  <2> QED
    BY <2>1, <2>2, <2>3 DEF WatchWorker
<1>2. CASE Informer \/ ResyncReleases \/ ResyncStates
  <2>1. UNCHANGED entries
    BY <1>2 DEF Informer, ListStates, Deliver, ResyncReleases, ResyncStates, register
  <2> QED
    BY <2>1, UntouchedKeeps
<1> QED
  BY <1>1, <1>2

\* A restart drops them all.
LEMMA RestartDrops ==
    ASSUME Restart
    PROVE  Kept
  BY DEF Restart, Kept

\* Every step of the system keeps or drops each entry.
LEMMA NextKeeps ==
    ASSUME Next
    PROVE  Kept
  BY EnvironmentKeeps, ReleaseWorkerKeeps, SetWorkerKeeps, ReadersKeep, RestartDrops
     DEF Next, Operator

\* A resource passes from one release to another only by being unlocked in
\* between, from the first event on (canLock, cache.go:336-353).
THEOREM NoStealingHolds == Spec => NoStealing
<1>1. [Next]_vars => [Kept]_vars
  BY NextKeeps
<1> QED
  BY <1>1, PTL DEF Spec, NoStealing, Kept

\* And likewise once the informer has listed.
THEOREM NoStealingListed == SafeListed => NoStealing
<1>1. [Next]_vars => [Kept]_vars
  BY NextKeeps
<1> QED
  BY <1>1, PTL DEF SafeListed, NoStealing, Kept
=============================================================================
