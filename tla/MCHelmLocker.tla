---------------------------- MODULE MCHelmLocker ----------------------------
(***************************************************************************)
(* Small instances of HelmLocker: the manifests, and a view.               *)
(*                                                                         *)
(* The addresses of state objects are interchangeable.  The view names     *)
(* each of them by the references to it, their places in References, so    *)
(* that states that differ only in their addresses are one state.          *)
(***************************************************************************)
EXTENDS HelmLocker

Ext == INSTANCE SequencesExt

CONSTANTS k1, k2, a, b

\* All resources of one kind, or of two.
OneKind  == [r \in Resources |-> "ConfigMap"]
TwoKinds == [r \in Resources |-> IF r = a THEN "ConfigMap" ELSE "Secret"]

\* One revision with one resource.
OneResource == [k \in Keys |-> <<{a}>>]

\* An upgrade that also drops the resource b.
Upgrade == [k \in Keys |-> <<{a, b}, {a}>>]

\* Two releases whose charts both contain the resource b.
Sharing == [k \in Keys |-> IF k = k1 THEN <<{a, b}>> ELSE <<{b}>>]

-----------------------------------------------------------------------------

KeySeq    == Ext!SetToSeq(Keys)
CallerSeq == Ext!SetToSeq(Callers)

References ==
    [i \in DOMAIN KeySeq |-> stateByKey[KeySeq[i]]]
    \o [i \in DOMAIN KeySeq |-> store[KeySeq[i]]]
    \o [i \in DOMAIN KeySeq |-> set[KeySeq[i]].obj]
    \o [i \in DOMAIN KeySeq |-> rel[KeySeq[i]].old]
    \o [i \in DOMAIN CallerSeq |-> call[CallerSeq[i]].old]
    \o [i \in DOMAIN stateChanges |-> stateChanges[i].obj]

Same(s, i) == {j \in DOMAIN s : s[j] = s[i]}

View ==
    LET refs == References IN
    << cluster, relQueue, holder, entries, listed, setQueue, watcher,
       [k \in Keys |-> <<rel[k].pc, rel[k].purge, set[k].pc, set[k].os>>],
       [c \in Callers |-> <<call[c].pc, call[c].key, call[c].os, call[c].locked>>],
       [i \in DOMAIN stateChanges |-> stateChanges[i].key],
       [i \in DOMAIN refs |->
          IF refs[i] = Nil THEN <<>> ELSE <<heap[refs[i]], Same(refs, i)>>] >>
=============================================================================
