----------------------------- MODULE Applyinator -----------------------------
(***************************************************************************)
(* The Applyinator of src/pkg/applier/applyinator.go: a client-go rate     *)
(* limiting work queue drained by a fixed number of goroutines.  The       *)
(* namespace controller uses one to apply the registration namespace and   *)
(* ConfigMap of a project, keyed by the project.                           *)
(*                                                                         *)
(* The queue itself is client-go's and is modelled from the way the        *)
(* Applyinator uses it: Get, Done, Add, AddRateLimited and ShutDown are    *)
(* one step each, since each holds the queue's lock.  A worker goes        *)
(* through the phases of processSingleItem, and any other goroutine may    *)
(* step in between.  What the apply function does is left to the module    *)
(* NamespaceController; here it only succeeds or fails.                    *)
(***************************************************************************)
EXTENDS Integers, Sequences, FiniteSets

CONSTANTS Keys,      \* what may be passed to Apply
          Workers,   \* the goroutines Run starts
          NoKey      \* what a worker holds while it waits

ASSUME NoKeyAssumption == NoKey \notin Keys

VARIABLES queue,         \* the order in which the keys will be handed out
          dirty,         \* the keys that need to be applied
          processing,    \* the keys handed out by Get and not yet Done
          delayed,       \* the keys AddRateLimited holds back
          shuttingDown,  \* ShutDown has been called
          phase,         \* where each worker is in runWorker
          item           \* the key each worker holds

qvars == <<queue, dirty, processing, delayed, shuttingDown>>
vars  == <<queue, dirty, processing, delayed, shuttingDown, phase, item>>

Phases == {"get", "apply", "done", "exited"}

\* The sequence s lists every element of S, once.
Lists(s, S) == /\ {s[i] : i \in 1..Len(s)} = S
               /\ \A i, j \in 1..Len(s) : s[i] = s[j] => i = j

\* The worker has a key from Get and has not called Done.
Busy(w) == phase[w] \in {"apply", "done"}

TypeOK == /\ queue \in Seq(Keys)
          /\ dirty \subseteq Keys
          /\ processing \subseteq Keys
          /\ delayed \subseteq Keys
          /\ shuttingDown \in BOOLEAN
          /\ phase \in [Workers -> Phases]
          /\ item \in [Workers -> Keys \cup {NoKey}]

Init == /\ queue = <<>>
        /\ dirty = {}
        /\ processing = {}
        /\ delayed = {}
        /\ shuttingDown = FALSE
        /\ phase = [w \in Workers |-> "get"]
        /\ item = [w \in Workers |-> NoKey]

-----------------------------------------------------------------------------
(* client-go's queue *)

\* Mutants of Add: a key that is being processed is queued as well, or the
\* last key comes first.
AddTwice(k) ==
    /\ dirty' = dirty \cup {k}
    /\ queue' = IF k \in dirty THEN queue ELSE Append(queue, k)

AddInFront(k) ==
    /\ dirty' = dirty \cup {k}
    /\ queue' = IF k \in dirty \cup processing THEN queue ELSE <<k>> \o queue

\* Add: a key that is already dirty is merged with the pending request, and a
\* key that is being processed is only marked: Done puts it back in the queue.
Add(k) ==
    /\ dirty' = dirty \cup {k}
    /\ queue' = IF k \in dirty \cup processing THEN queue ELSE Append(queue, k)

\* AddRateLimited: the key is added again after its back-off.
AddRateLimited(k) ==
    delayed' = IF shuttingDown THEN delayed ELSE delayed \cup {k}

\* Mutant of Done: a key marked while it was processed is forgotten.
DoneForgets(k) ==
    /\ processing' = processing \ {k}
    /\ UNCHANGED queue

\* Done: a key marked while it was processed goes to the end of the queue.
Done(k) ==
    /\ processing' = processing \ {k}
    /\ queue' = IF k \in dirty THEN Append(queue, k) ELSE queue

-----------------------------------------------------------------------------
(* The Applyinator *)

\* A controller calls Apply(key).
Apply(k) ==
    /\ ~shuttingDown
    /\ Add(k)
    /\ UNCHANGED <<processing, delayed, shuttingDown, phase, item>>

\* The back-off of a failed key ends.
BackoffEnds(k) ==
    /\ k \in delayed
    /\ ~shuttingDown
    /\ delayed' = delayed \ {k}
    /\ Add(k)
    /\ UNCHANGED <<processing, shuttingDown, phase, item>>

\* processNextWorkItem: Get returns the key at the head of the queue.
Get(w) ==
    /\ phase[w] = "get"
    /\ queue # <<>>
    /\ queue' = Tail(queue)
    /\ processing' = processing \cup {Head(queue)}
    /\ dirty' = dirty \ {Head(queue)}
    /\ phase' = [phase EXCEPT ![w] = "apply"]
    /\ item' = [item EXCEPT ![w] = Head(queue)]
    /\ UNCHANGED <<delayed, shuttingDown>>

\* Mutant of GetShutdown: the zero key is processed.
GetZero(w) ==
    /\ phase[w] = "get"
    /\ queue = <<>>
    /\ shuttingDown
    /\ phase' = [phase EXCEPT ![w] = "apply"]
    /\ processing' = processing \cup {NoKey}
    /\ UNCHANGED <<queue, dirty, delayed, shuttingDown, item>>

\* processNextWorkItem: Get reports the shut-down once the queue is drained.
GetShutdown(w) ==
    /\ phase[w] = "get"
    /\ queue = <<>>
    /\ shuttingDown
    /\ phase' = [phase EXCEPT ![w] = "exited"]
    /\ UNCHANGED <<qvars, item>>

\* processSingleItem: apply(key) returned nil.
ApplySucceeds(w) ==
    /\ phase[w] = "apply"
    /\ phase' = [phase EXCEPT ![w] = "done"]
    /\ UNCHANGED <<qvars, item>>

\* processSingleItem: apply(key) returned an error, so AddRateLimited is called.
ApplyFails(w) ==
    /\ phase[w] = "apply"
    /\ AddRateLimited(item[w])
    /\ phase' = [phase EXCEPT ![w] = "done"]
    /\ UNCHANGED <<queue, dirty, processing, shuttingDown, item>>

\* processSingleItem: the deferred Done, and the loop of runWorker.
Finish(w) ==
    /\ phase[w] = "done"
    /\ Done(item[w])
    /\ phase' = [phase EXCEPT ![w] = "get"]
    /\ item' = [item EXCEPT ![w] = NoKey]
    /\ UNCHANGED <<dirty, delayed, shuttingDown>>

\* Run: the context is cancelled.  Keys waiting for their back-off are dropped.
ShutDown ==
    /\ ~shuttingDown
    /\ shuttingDown' = TRUE
    /\ delayed' = {}
    /\ UNCHANGED <<queue, dirty, processing, phase, item>>

Worker(w) == Get(w) \/ ApplySucceeds(w) \/ ApplyFails(w) \/ Finish(w) \/ GetShutdown(w)

Next == \/ ShutDown
        \/ \E k \in Keys : Apply(k) \/ BackoffEnds(k)
        \/ \E w \in Workers : Worker(w)

\* A goroutine that can run eventually does, and a timer eventually fires.
\* Nothing obliges a controller to call Apply, or the context to be cancelled.
Fairness == /\ \A w \in Workers : WF_vars(Worker(w))
            /\ \A k \in Keys : WF_vars(BackoffEnds(k))

Safe == Init /\ [][Next]_vars
Spec == Safe /\ Fairness

-----------------------------------------------------------------------------
(* Correctness *)

\* Stingy (applyinator.go:32-34): no key is processed by two workers at once.
Stingy == \A v, w \in Workers :
             item[v] = item[w] /\ item[v] # NoKey => v = w

\* The queue, the set of dirty keys and the workers agree: a key waits in the
\* queue exactly when it is dirty and nobody processes it, at most once, and
\* the processed keys are the ones the workers hold.  This is why a request
\* made while its key is being processed is neither lost nor served twice.
QueueConsistent ==
    /\ Lists(queue, dirty \ processing)
    /\ processing = {item[w] : w \in {v \in Workers : Busy(v)}}
    /\ \A w \in Workers : item[w] = NoKey <=> ~Busy(w)

\* The queue and its workers keep the promise of the interface comment.  Every
\* request is served, however often other keys are requested.
Promise == INSTANCE ApplyPromise WITH
              owed <- dirty, running <- processing,
              retrying <- delayed, stopped <- shuttingDown

PromiseSafe == Promise!Safe
PromiseSpec == Promise!Spec
=============================================================================
