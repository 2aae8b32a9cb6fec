-------------------------- MODULE HardenedNamespace --------------------------
(***************************************************************************)
(* The hardening controller (src/pkg/controllers/hardened): it keeps the   *)
(* default service account and a network policy of each namespace with the *)
(* operator's label as the operator wants them.                            *)
(*                                                                         *)
(* Register ignores the options it is given, so that the objects are the   *)
(* hardened defaults, whatever the options file says.                      *)
(***************************************************************************)
EXTENDS OperatedNamespace

Hardening == {"serviceAccount", "networkPolicy"}
Contents  == {"missing", "modified", "hardened"}

VARIABLES
    content, contentCache,   \* of each of the objects, and of its copy in the informer
    contentWatch,            \* those whose changes the informer has yet to hear of
    nsQueued                 \* the namespace is in the controller's queue

hardVars == <<content, contentCache, contentWatch, nsQueued>>

HardTypeOK ==
    /\ content \in [Hardening -> Contents] /\ contentCache \in [Hardening -> Contents]
    /\ contentWatch \subseteq Hardening
    /\ nsQueued \in BOOLEAN

HardInit ==
    /\ content = [o \in Hardening |-> "hardened"] /\ contentCache = content
    /\ contentWatch = {}
    /\ nsQueued = FALSE

SetContent(new) ==
    /\ content' = new
    /\ contentWatch' = contentWatch \cup {o \in Hardening : new[o] # content[o]}

\* Kubernetes gives every namespace its default service account, if the operator
\* has not.
KubeCreatesAccount ==
    /\ Usable /\ content["serviceAccount"] = "missing"
    /\ SetContent([content EXCEPT !["serviceAccount"] = "modified"])
    /\ UNCHANGED <<nsVars, contentCache, nsQueued>>

\* A user modifies or deletes one of the objects.
UserModifies(o) ==
    /\ Happens
    /\ content[o] = "hardened"
    /\ \E v \in {"missing", "modified"} : SetContent([content EXCEPT ![o] = v])
    /\ UNCHANGED <<ns, nsCache, nsWatch, started, contentCache, nsQueued>>

\* What is in the namespace goes with it.
ContentGoes ==
    /\ SetContent([o \in Hardening |-> "missing"])
    /\ UNCHANGED <<contentCache, nsQueued>>

\* Mutant of Resolves: nothing but the namespace's own changes enqueues it.
ResolvesNothing == FALSE

\* resolveHardenedProjectRegistrationNamespaceData: an object of one of the two
\* names that changes or goes enqueues its namespace, if that is known and operated.
Resolves == HasOperatedLabel

SeeContent(o) ==
    /\ started /\ o \in contentWatch
    /\ contentCache' = [contentCache EXCEPT ![o] = content[o]]
    /\ contentWatch' = contentWatch \ {o}
    /\ nsQueued' = (nsQueued \/ Resolves)
    /\ UNCHANGED <<nsVars, content>>

ContentListed ==
    /\ contentCache' = content /\ contentWatch' = {}
    /\ nsQueued' = (ns # "absent")
    /\ UNCHANGED content

ContentForgotten ==
    /\ contentCache' = [o \in Hardening |-> "missing"] /\ contentWatch' = {}
    /\ nsQueued' = FALSE
    /\ UNCHANGED content

\* The objects that the apply finds different from what it wants, and those of
\* them that the API server lets it create or patch.
Differs(o)  == contentCache[o] # "hardened"
Accepted(o) == Usable /\ (contentCache[o] = "missing" \/ content[o] # "missing")

\* OnChange: nothing is done for a namespace that has gone, is being deleted, or
\* has no label; both objects are applied in any other.  When one of them fails
\* the namespace is handled again.
Harden ==
    LET todo == {o \in Hardening : nsCache = "operated" /\ Differs(o)}
        good == {o \in todo : Accepted(o)}
    IN  /\ started /\ nsQueued
        /\ \E done \in SUBSET good :
             /\ \/ done = good /\ UNCHANGED events
                \/ done # good /\ Happens
             /\ SetContent([o \in Hardening |-> IF o \in done THEN "hardened" ELSE content[o]])
             /\ nsQueued' = (done # todo)
        /\ UNCHANGED <<ns, nsCache, nsWatch, started, contentCache>>
=============================================================================
