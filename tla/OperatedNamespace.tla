-------------------------- MODULE OperatedNamespace --------------------------
(***************************************************************************)
(* A namespace that the operator keeps for a release, and what controllers *)
(* see of it.  The controllers that work in it extend this module:         *)
(* HardenedNamespace and ReleaseRoleBindings.                              *)
(***************************************************************************)
EXTENDS Integers

CONSTANT MaxEvents   \* bound: what users do, calls that fail, restarts

ASSUME EventsAssumption == MaxEvents \in Nat

VARIABLES
    ns,        \* absent, plain (without the operator's label), operated, or terminating
    nsCache,   \* the copy in the informer
    nsWatch,   \* whether the informer has yet to hear of a change
    started,   \* whether the informers have listed
    events     \* counts what the environment has done

nsVars == <<ns, nsCache, nsWatch, started, events>>

Phases == {"absent", "plain", "operated", "terminating"}

NsTypeOK ==
    /\ ns \in Phases /\ nsCache \in Phases
    /\ nsWatch \in BOOLEAN /\ started \in BOOLEAN
    /\ events \in 0..MaxEvents

NsInit ==
    /\ ns = "operated" /\ nsCache = "operated" /\ nsWatch = FALSE
    /\ started = TRUE
    /\ events = 0

Happens == events < MaxEvents /\ events' = events + 1

\* Objects can be created and patched in it.
Usable == ns \in {"plain", "operated"}

\* HasHelmProjectOperatedLabel, of the cached namespace; a namespace keeps its
\* labels while it terminates.
HasOperatedLabel == nsCache \in {"operated", "terminating"}

SetNs(phase) ==
    /\ ns' = phase
    /\ nsWatch' = (nsWatch \/ phase # ns)

\* A user removes the operator's label.
UserRemovesLabel ==
    /\ Happens
    /\ ns = "operated"
    /\ SetNs("plain")
    /\ UNCHANGED <<nsCache, started>>

\* A user deletes the namespace.  Nothing can be created in it from then on, so
\* that what is in it may as well go at once.
UserDeletesNs ==
    /\ Happens
    /\ Usable
    /\ SetNs("terminating")
    /\ UNCHANGED <<nsCache, started>>

NsGoes ==
    /\ ns = "terminating"
    /\ SetNs("absent")
    /\ UNCHANGED <<nsCache, started, events>>

SeeNs ==
    /\ started /\ nsWatch
    /\ nsCache' = ns
    /\ nsWatch' = FALSE
    /\ UNCHANGED <<ns, started, events>>

NsListed ==
    /\ ~started /\ started' = TRUE
    /\ nsCache' = ns /\ nsWatch' = FALSE
    /\ UNCHANGED <<ns, events>>

\* The operator is restarted, in the middle of anything.
NsForgotten ==
    /\ Happens
    /\ started' = FALSE
    /\ nsCache' = "absent" /\ nsWatch' = FALSE
    /\ UNCHANGED ns

\* ApplyObjects of the namespace with the operator's label: the copy in the
\* informer tells what is to be done, if anything.
NsMissing == nsCache = "plain" /\ ns = "absent"      \* there is nothing to patch

ApplyNs ==
    SetNs(IF \/ nsCache = "absent" /\ ns \in {"absent", "plain"}
             \/ nsCache = "plain" /\ ns = "plain"
          THEN "operated" ELSE ns)
=============================================================================
