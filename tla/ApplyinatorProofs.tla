-------------------------- MODULE ApplyinatorProofs --------------------------
(***************************************************************************)
(* Proofs about the Applyinator, for any set of keys and of workers: a key *)
(* is never processed twice at once, the queue agrees with the workers,    *)
(* and the queue implements the safety part of ApplyPromise.               *)
(***************************************************************************)
EXTENDS Applyinator, TLAPS

(***************************************************************************)
(* A queue without duplicates, and what Append and Tail do to it.          *)
(***************************************************************************)

\* Add and Done append a key that the queue does not hold (client-go's Add and
\* Done, as used at applyinator.go:82 and :127): the queue still lists each key once.
LEMMA ListsAppend ==
    ASSUME NEW S, NEW s \in Seq(S), NEW T, NEW e \in S, Lists(s, T), e \notin T
    PROVE  Lists(Append(s, e), T \cup {e})
<1> DEFINE n == Len(s)
           a == Append(s, e)
<1>1. n \in Nat /\ Len(a) = n + 1 /\ a[n + 1] = e /\ \A i \in 1..n : a[i] = s[i]
  OBVIOUS
<1>2. \A i \in 1..n : s[i] \in T
  BY DEF Lists
<1>3. \A i \in 1..(n + 1) : i \in 1..n \/ i = n + 1
  BY <1>1
<1>4. {a[i] : i \in 1..Len(a)} = T \cup {e}
  <2>1. ASSUME NEW x \in T \cup {e} PROVE \E i \in 1..Len(a) : x = a[i]
    <3>1. CASE x = e
      BY <3>1, <1>1
    <3>2. CASE x \in T
      <4>1. PICK i \in 1..n : x = s[i]
        BY <3>2 DEF Lists
      <4> QED BY <4>1, <1>1
    <3> QED BY <3>1, <3>2
  <2>2. ASSUME NEW i \in 1..Len(a) PROVE a[i] \in T \cup {e}
    BY <1>1, <1>2, <1>3
  <2> QED BY <2>1, <2>2
<1>5. \A i, j \in 1..Len(a) : a[i] = a[j] => i = j
  BY <1>1, <1>2, <1>3 DEF Lists
<1> QED BY <1>4, <1>5 DEF Lists

\* Get takes the head off the queue (applyinator.go:104): the rest of the queue
\* lists the other keys.
LEMMA ListsTail ==
    ASSUME NEW S, NEW s \in Seq(S), NEW T, Lists(s, T), s # <<>>
    PROVE  /\ Head(s) \in T /\ Head(s) \in S
           /\ Lists(Tail(s), T \ {Head(s)})
<1> DEFINE n == Len(s)
           t == Tail(s)
<1>1. n \in Nat /\ n >= 1 /\ Head(s) = s[1] /\ Len(t) = n - 1
  OBVIOUS
<1>2. \A i \in 1..(n - 1) : t[i] = s[i + 1] /\ i + 1 \in 1..n
  BY <1>1
<1>3. Head(s) \in T /\ Head(s) \in S
  BY <1>1 DEF Lists
<1>4. {t[i] : i \in 1..Len(t)} = T \ {Head(s)}
  <2>1. ASSUME NEW x \in T \ {Head(s)} PROVE \E i \in 1..Len(t) : x = t[i]
    <3>1. PICK i \in 1..n : x = s[i]
      BY DEF Lists
    <3>2. i # 1 /\ i - 1 \in 1..(n - 1) /\ (i - 1) + 1 = i
      BY <3>1, <1>1
    <3> QED BY <3>1, <3>2, <1>1, <1>2
  <2>2. ASSUME NEW i \in 1..Len(t) PROVE t[i] \in T \ {Head(s)}
    <3>1. t[i] = s[i + 1] /\ i + 1 \in 1..n /\ i + 1 # 1 /\ 1 \in 1..n
      BY <1>1, <1>2
    <3> QED BY <3>1, <1>1 DEF Lists
  <2> QED BY <2>1, <2>2
<1>5. \A i, j \in 1..Len(t) : t[i] = t[j] => i = j
  BY <1>1, <1>2 DEF Lists
<1> QED BY <1>3, <1>4, <1>5 DEF Lists

-----------------------------------------------------------------------------
(* The inductive invariant: none of its three parts is inductive alone. *)
IInv == TypeOK /\ QueueConsistent /\ Stingy

\* Before Run starts its workers nothing is queued or held.
LEMMA InitIInv == Init => IInv
<1> SUFFICES ASSUME Init PROVE IInv
  OBVIOUS
<1>1. TypeOK
  <2>1. queue \in Seq(Keys)
    BY DEF Init
  <2>2. phase \in [Workers -> Phases] /\ item \in [Workers -> Keys \cup {NoKey}]
    BY DEF Init, Phases
  <2> QED BY <2>1, <2>2 DEF Init, TypeOK
<1>2. Lists(queue, dirty \ processing)
  BY DEF Init, Lists
<1>3. QueueConsistent
  BY <1>2 DEF Init, QueueConsistent, Busy
<1>4. Stingy
  BY DEF Init, Stingy
<1> QED BY <1>1, <1>3, <1>4 DEF IInv

\* What the queue looks like after Add, whoever calls it.
LEMMA AddKeepsQueue ==
    ASSUME IInv, NEW k \in Keys, Add(k)
    PROVE  /\ queue' \in Seq(Keys) /\ dirty' \subseteq Keys
           /\ Lists(queue', dirty' \ processing)
<1>1. CASE k \in dirty \cup processing
  BY <1>1 DEF IInv, TypeOK, QueueConsistent, Add, Lists
<1>2. CASE k \notin dirty \cup processing
  <2>1. Lists(Append(queue, k), (dirty \ processing) \cup {k})
    BY <1>2, ListsAppend DEF IInv, TypeOK, QueueConsistent
  <2>2. (dirty \ processing) \cup {k} = dirty' \ processing
    BY <1>2 DEF Add
  <2>3. queue' = Append(queue, k) /\ dirty' \subseteq Keys
    BY <1>2 DEF Add, IInv, TypeOK
  <2>4. Append(queue, k) \in Seq(Keys)
    BY DEF IInv, TypeOK
  <2> QED BY <2>1, <2>2, <2>3, <2>4
<1> QED BY <1>1, <1>2

\* The two invariants say nothing of the timers and of the shut-down.
LEMMA Frame ==
    ASSUME QueueConsistent, Stingy, UNCHANGED <<queue, dirty, processing, phase, item>>
    PROVE  QueueConsistent' /\ Stingy'
<1>1. Lists(queue', (dirty \ processing)')
  <2>1. (dirty \ processing)' = dirty \ processing /\ queue' = queue
    OBVIOUS
  <2> QED BY <2>1 DEF QueueConsistent
<1>2. \A w \in Workers : Busy(w)' <=> Busy(w)
  BY DEF Busy
<1>3. (processing = {item[w] : w \in {v \in Workers : Busy(v)}})'
  BY <1>2 DEF QueueConsistent
<1>4. Stingy' /\ (\A w \in Workers : item[w] = NoKey <=> ~Busy(w))'
  BY <1>2 DEF QueueConsistent, Stingy
<1> QED BY <1>1, <1>3, <1>4 DEF QueueConsistent

\* Every step of a controller, a worker, a timer or of the shut-down keeps the
\* queue and the workers in agreement.
LEMMA NextIInv == IInv /\ [Next]_vars => IInv'
<1> SUFFICES ASSUME IInv, [Next]_vars PROVE IInv'
  OBVIOUS
<1> USE DEF IInv
<1>1. CASE ShutDown
  <2>1. TypeOK'
    BY <1>1 DEF TypeOK, ShutDown
  <2>2. QueueConsistent' /\ Stingy'
    BY <1>1, Frame DEF ShutDown
  <2> QED BY <2>1, <2>2
<1>2. ASSUME NEW k \in Keys, Apply(k) PROVE IInv'
  <2>1. Lists(queue', dirty' \ processing) /\ queue' \in Seq(Keys) /\ dirty' \subseteq Keys
    BY <1>2, AddKeepsQueue DEF Apply
  <2>2. TypeOK'
    BY <1>2, <2>1 DEF TypeOK, Apply
  <2>3. QueueConsistent' /\ Stingy'
    BY <1>2, <2>1 DEF QueueConsistent, Stingy, Lists, Busy, Apply
  <2> QED BY <2>2, <2>3
<1>3. ASSUME NEW k \in Keys, BackoffEnds(k) PROVE IInv'
  <2>1. Lists(queue', dirty' \ processing) /\ queue' \in Seq(Keys) /\ dirty' \subseteq Keys
    BY <1>3, AddKeepsQueue DEF BackoffEnds
  <2>2. TypeOK'
    BY <1>3, <2>1 DEF TypeOK, BackoffEnds
  <2>3. QueueConsistent' /\ Stingy'
    BY <1>3, <2>1 DEF QueueConsistent, Stingy, Lists, Busy, BackoffEnds
  <2> QED BY <2>2, <2>3
<1>4. ASSUME NEW w \in Workers, Get(w) PROVE IInv'
  <2> DEFINE h == Head(queue)
  <2>1. h \in dirty \ processing /\ h \in Keys /\ Lists(Tail(queue), (dirty \ processing) \ {h})
    BY <1>4, ListsTail DEF Get, TypeOK, QueueConsistent
  <2>2. Lists(queue', (dirty \ processing)')
    <3>1. (dirty \ processing)' = (dirty \ processing) \ {h} /\ queue' = Tail(queue)
      BY <1>4 DEF Get
    <3> QED BY <2>1, <3>1
  <2>3. TypeOK'
    BY <1>4, <2>1 DEF TypeOK, Get, Phases
  <2>4. phase' = [phase EXCEPT ![w] = "apply"] /\ item' = [item EXCEPT ![w] = h] /\ ~Busy(w)
    BY <1>4 DEF Get, Busy
  <2>5. (processing = {item[v] : v \in {u \in Workers : Busy(u)}})'
    <3>1. processing' = processing \cup {h}
      BY <1>4 DEF Get
    <3>2. \A v \in Workers : Busy(v)' <=> Busy(v) \/ v = w
      BY <2>4 DEF TypeOK, Busy
    <3>3. \A v \in Workers : item'[v] = IF v = w THEN h ELSE item[v]
      BY <2>4 DEF TypeOK
    <3> QED BY <2>4, <3>1, <3>2, <3>3 DEF QueueConsistent
  <2>6. (\A v \in Workers : item[v] = NoKey <=> ~Busy(v))'
    BY <2>1, <2>4, NoKeyAssumption DEF TypeOK, QueueConsistent, Busy
  <2>7. Stingy'
    <3>1. \A v \in Workers : item[v] # h
      BY <2>1, NoKeyAssumption DEF QueueConsistent, Busy
    <3> QED BY <2>4, <3>1 DEF TypeOK, Stingy
  <2> QED BY <2>2, <2>3, <2>5, <2>6, <2>7 DEF QueueConsistent
<1>5. ASSUME NEW w \in Workers, ApplySucceeds(w) PROVE IInv'
  <2>1. TypeOK'
    BY <1>5 DEF TypeOK, ApplySucceeds, qvars, Phases
  <2>2. \A v \in Workers : Busy(v)' <=> Busy(v)
    BY <1>5 DEF TypeOK, ApplySucceeds, Busy
  <2>3. QueueConsistent'
    BY <1>5, <2>2 DEF QueueConsistent, Lists, ApplySucceeds, qvars
  <2>4. Stingy'
    BY <1>5 DEF Stingy, ApplySucceeds
  <2> QED BY <2>1, <2>3, <2>4
<1>6. ASSUME NEW w \in Workers, ApplyFails(w) PROVE IInv'
  <2>1. item[w] \in Keys
    BY <1>6 DEF ApplyFails, TypeOK, QueueConsistent, Busy
  <2>2. TypeOK'
    BY <1>6, <2>1 DEF TypeOK, ApplyFails, AddRateLimited, Phases
  <2>3. \A v \in Workers : Busy(v)' <=> Busy(v)
    BY <1>6 DEF TypeOK, ApplyFails, Busy
  <2>4. QueueConsistent'
    BY <1>6, <2>3 DEF QueueConsistent, Lists, ApplyFails
  <2>5. Stingy'
    BY <1>6 DEF Stingy, ApplyFails
  <2> QED BY <2>2, <2>4, <2>5
<1>7. ASSUME NEW w \in Workers, Finish(w) PROVE IInv'
  <2> DEFINE k == item[w]
  <2>1. k \in processing /\ k \in Keys /\ Busy(w)
    BY <1>7 DEF Finish, TypeOK, QueueConsistent, Busy
  <2>2. Lists(queue', (dirty \ processing)') /\ queue' \in Seq(Keys)
    <3>1. CASE k \in dirty
      <4>1. (dirty \ processing)' = (dirty \ processing) \cup {k} /\ queue' = Append(queue, k)
        BY <1>7, <2>1, <3>1 DEF Finish, Done
      <4>2. Lists(Append(queue, k), (dirty \ processing) \cup {k})
        BY <2>1, ListsAppend DEF TypeOK, QueueConsistent
      <4>3. Append(queue, k) \in Seq(Keys)
        BY <2>1 DEF TypeOK
      <4> HIDE DEF k
      <4> QED BY <4>1, <4>2, <4>3
    <3>2. CASE k \notin dirty
      <4>1. (dirty \ processing)' = dirty \ processing /\ queue' = queue
        BY <1>7, <3>2 DEF Finish, Done
      <4> QED BY <4>1 DEF TypeOK, QueueConsistent
    <3> QED BY <3>1, <3>2
  <2>3. TypeOK'
    BY <1>7, <2>2 DEF TypeOK, Finish, Done, Phases
  <2>4. /\ phase' = [phase EXCEPT ![w] = "get"]
        /\ item' = [item EXCEPT ![w] = NoKey]
        /\ processing' = processing \ {k}
    BY <1>7 DEF Finish, Done
  <2>5. \A v \in Workers : Busy(v)' <=> Busy(v) /\ v # w
    BY <2>4 DEF TypeOK, Busy
  <2>6. \A v \in Workers : item'[v] = IF v = w THEN NoKey ELSE item[v]
    BY <2>4 DEF TypeOK
  <2>7. \A v \in Workers : v # w => item[v] # k
    BY <2>1, NoKeyAssumption DEF Stingy
  <2>8. (processing = {item[v] : v \in {u \in Workers : Busy(u)}})'
    BY <2>4, <2>5, <2>6, <2>7 DEF QueueConsistent
  <2>9. (\A v \in Workers : item[v] = NoKey <=> ~Busy(v))'
    BY <2>5, <2>6 DEF QueueConsistent
  <2>10. Stingy'
    BY <2>6 DEF Stingy
  <2> QED BY <2>2, <2>3, <2>8, <2>9, <2>10 DEF QueueConsistent
<1>8. ASSUME NEW w \in Workers, GetShutdown(w) PROVE IInv'
  <2>1. TypeOK'
    BY <1>8 DEF TypeOK, GetShutdown, qvars, Phases
  <2>2. \A v \in Workers : Busy(v)' <=> Busy(v)
    BY <1>8 DEF TypeOK, GetShutdown, Busy
  <2>3. QueueConsistent'
    BY <1>8, <2>2 DEF QueueConsistent, Lists, GetShutdown, qvars
  <2>4. Stingy'
    BY <1>8 DEF Stingy, GetShutdown
  <2> QED BY <2>1, <2>3, <2>4
<1>9. CASE UNCHANGED vars
  <2>1. TypeOK'
    BY <1>9 DEF TypeOK, vars
  <2> QED BY <1>9, <2>1, Frame DEF vars
<1> QED BY <1>1, <1>2, <1>3, <1>4, <1>5, <1>6, <1>7, <1>8, <1>9 DEF Next, Worker

-----------------------------------------------------------------------------

\* The invariant holds of the Applyinator whatever its fairness.
LEMMA IInvHolds == Safe => []IInv
  BY InitIInv, NextIInv, PTL DEF Safe

\* The variables keep their types: what the queue and the timers hold are keys
\* passed to Apply (applyinator.go:81-83), and nothing else.
THEOREM TypeCorrect == Spec => []TypeOK
<1>1. IInv => TypeOK
  BY DEF IInv
<1> QED BY <1>1, IInvHolds, PTL DEF Spec

\* Stingy (applyinator.go:32-34): a key is never processed by two workers at
\* the same time, for any number of keys and workers.
THEOREM StingyHolds == Spec => []Stingy
<1>1. IInv => Stingy
  BY DEF IInv
<1> QED BY <1>1, IInvHolds, PTL DEF Spec

\* A pending key is in the queue once, or held by a worker whose Done will put
\* it back (applyinator.go:127): no request is lost and none is served twice.
THEOREM QueueConsistentHolds == Spec => []QueueConsistent
<1>1. IInv => QueueConsistent
  BY DEF IInv
<1> QED BY <1>1, IInvHolds, PTL DEF Spec

\* Every step of the queue and its workers is one the interface comment
\* (applyinator.go:29-42) allows: the Applyinator implements ApplyPromise.
THEOREM KeepsPromise == Spec => PromiseSafe
<1>1. Init => Promise!Init
  BY DEF Init, Promise!Init
<1>2. IInv /\ [Next]_vars => [Promise!Next]_(Promise!vars)
  <2> SUFFICES ASSUME IInv, [Next]_vars PROVE [Promise!Next]_(Promise!vars)
    OBVIOUS
  <2> USE DEF Promise!vars
  <2>1. CASE ShutDown
    BY <2>1 DEF ShutDown, Promise!Next, Promise!Stop
  <2>2. ASSUME NEW k \in Keys, Apply(k) PROVE Promise!Request(k)
    BY <2>2 DEF Apply, Add, Promise!Request
  <2>3. ASSUME NEW k \in Keys, BackoffEnds(k) PROVE Promise!Retry(k)
    BY <2>3 DEF BackoffEnds, Add, Promise!Retry
  <2>4. ASSUME NEW w \in Workers, Get(w) PROVE \E k \in Keys : Promise!Start(k)
    <3>1. Head(queue) \in dirty \ processing /\ Head(queue) \in Keys
      BY <2>4, ListsTail DEF Get, IInv, TypeOK, QueueConsistent
    <3>2. Promise!Start(Head(queue))
      BY <2>4, <3>1 DEF Get, Promise!Start
    <3> QED BY <3>1, <3>2
  <2>5. ASSUME NEW w \in Workers, ApplySucceeds(w) \/ GetShutdown(w)
        PROVE UNCHANGED Promise!vars
    BY <2>5 DEF ApplySucceeds, GetShutdown, qvars
  <2>6. ASSUME NEW w \in Workers, ApplyFails(w)
        PROVE (\E k \in Keys : Promise!Fail(k)) \/ UNCHANGED Promise!vars
    <3>1. item[w] \in processing /\ item[w] \in Keys
      BY <2>6 DEF ApplyFails, IInv, TypeOK, QueueConsistent, Busy
    <3> QED BY <2>6, <3>1 DEF ApplyFails, AddRateLimited, Promise!Fail
  <2>7. ASSUME NEW w \in Workers, Finish(w) PROVE \E k \in Keys : Promise!Finish(k)
    <3>1. item[w] \in processing /\ item[w] \in Keys
      BY <2>7 DEF Finish, IInv, TypeOK, QueueConsistent, Busy
    <3>2. Promise!Finish(item[w])
      BY <2>7, <3>1 DEF Finish, Done, Promise!Finish
    <3> QED BY <3>1, <3>2
  <2>8. CASE UNCHANGED vars
    BY <2>8 DEF vars
  <2> QED BY <2>1, <2>2, <2>3, <2>4, <2>5, <2>6, <2>7, <2>8 DEF Next, Worker, Promise!Next
<1> QED BY <1>1, <1>2, IInvHolds, PTL DEF Spec, Safe, PromiseSafe, Promise!Safe
=============================================================================
