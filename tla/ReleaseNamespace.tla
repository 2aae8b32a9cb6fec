--------------------------- MODULE ReleaseNamespace ---------------------------
(***************************************************************************)
(* A release namespace, in which the hardening controller and the project  *)
(* controller work side by side (src/pkg/controllers/controllers.go starts *)
(* both): the one brings about that the namespace has the operator's label *)
(* that the other one looks for, and either has its work undone when the   *)
(* namespace is deleted.                                                   *)
(*                                                                         *)
(* The project controller does not hear of the namespace itself: it        *)
(* registers resolveProjectReleaseNamespace only when no label value for   *)
(* release namespaces is given (resolvers.go:23), that is when it has no   *)
(* release namespaces of its own.                                          *)
(***************************************************************************)
EXTENDS HardenedNamespace, ReleaseRoleBindings

vars == <<nsVars, hardVars, rbacVars>>

TypeOK == NsTypeOK /\ HardTypeOK /\ RbacTypeOK

Init == NsInit /\ HardInit /\ RbacInit

-----------------------------------------------------------------------------
(* Steps of both parts *)

\* A user removes the operator's label from the namespace.
LosesLabel == UserRemovesLabel /\ UNCHANGED <<hardVars, rbacVars>>

\* A user deletes the namespace, and what is in it goes.
Deleted == UserDeletesNs /\ ContentGoes /\ RbacGoes

Gone == NsGoes /\ UNCHANGED <<hardVars, rbacVars>>

\* A namespace that changes or goes is handled by the hardening controller only.
NamespaceSeen ==
    /\ SeeNs
    /\ nsQueued' = TRUE
    /\ UNCHANGED <<content, contentCache, contentWatch, rbacVars>>

Started == NsListed /\ ContentListed /\ RbacListed

Restart == NsForgotten /\ ContentForgotten /\ RbacForgotten

\* Nothing is left to be done.
Quiet ==
    /\ started /\ tracked /\ ns # "terminating"
    /\ ~nsWatch /\ contentWatch = {} /\ bindWatch = {} /\ roleWatch = {} /\ grantWatch = {}
    /\ ~nsQueued /\ ~queued /\ ~applying

\* The informers store everything that they have anew, and the handlers are
\* called for it.  This happens after hours, when all else is done.
Stored(index) ==
    /\ Quiet
    /\ bound' = index
    /\ charted' = tracked
    /\ queued' = TRUE /\ nsQueued' = TRUE
    /\ UNCHANGED <<nsVars, content, contentCache, contentWatch, opts, binding, role, granted,
                   unable, bindCache, bindWatch, roleInformer, grantInformer, tracked, applying,
                   plan>>

\* Mutant of Resync: the objects that are stored anew keep the index they have.
ResyncKeepsIndex == Stored(bound)

Resync == Stored({b \in Bindings : bindCache[b] # {} /\ Indexed(b)})

-----------------------------------------------------------------------------

Hardens == UNCHANGED rbacVars /\ (Harden \/ \E o \in Hardening : SeeContent(o))
Binds   == UNCHANGED hardVars /\ (Track \/ NotManaged \/ NeedsNs \/ Grants \/ Apply)
Sees    == UNCHANGED hardVars /\ (\/ \E b \in Bindings : SeeBinding(b)
                                  \/ \E r \in Roles : SeeRole(r) \/ SeeGrant(r))
Users   == \/ UNCHANGED rbacVars /\ (KubeCreatesAccount \/ \E o \in Hardening : UserModifies(o))
           \/ UNCHANGED hardVars /\ (\/ \E b \in Bindings : UserBinds(b)
                                     \/ \E r \in Roles : UserChangesRole(r) \/ UserChangesGrant(r)
                                     \/ UserChangesChart
                                     \/ HelmInstalls)

Next == \/ LosesLabel \/ Deleted \/ Gone \/ NamespaceSeen
        \/ Started \/ Restart \/ Resync
        \/ Hardens \/ Binds \/ Sees \/ Users

Spec == Init /\ [][Next]_vars

\* The queues and the informers are served as long as the operator runs.
Served == /\ WF_vars(Gone) /\ WF_vars(NamespaceSeen) /\ WF_vars(Started) /\ WF_vars(Resync)
          /\ WF_vars(UNCHANGED rbacVars /\ Harden)
          /\ \A o \in Hardening : WF_vars(UNCHANGED rbacVars /\ SeeContent(o))
          /\ WF_vars(UNCHANGED hardVars /\ Track)
          /\ WF_vars(UNCHANGED hardVars /\ (NotManaged \/ NeedsNs \/ Grants))
          /\ WF_vars(UNCHANGED hardVars /\ Apply)
          /\ \A b \in Bindings : WF_vars(UNCHANGED hardVars /\ SeeBinding(b))
          /\ \A r \in Roles : WF_vars(UNCHANGED hardVars /\ (SeeRole(r) \/ SeeGrant(r)))

FairSpec == Spec /\ Served

-----------------------------------------------------------------------------
(* Properties *)

\* Both objects of an operated namespace are hardened at rest, whoever has changed
\* them last: the namespace's events and theirs together leave no change
\* unnoticed, those included that come while it has no label.
HardenedAtRest == Quiet /\ ns = "operated" => \A o \in Hardening : content[o] = "hardened"

\* Who is to be bound to the Role r: the users and groups of the bindings to the
\* ClusterRole that is configured for what r aggregates from.
Entitled(r) ==
    IF role[r] \in DOMAIN opts
    THEN UNION {binding[b] \ Accounts : b \in {c \in Bindings : RoleRef[c] = opts[role[r]]}}
    ELSE {}

Labelled(r) == role[r] \notin {"absent", "unlabelled"}

\* What has been revoked is revoked in the release: at rest, whoever is bound to a
\* Role of the release is bound to the ClusterRole it aggregates from.  This needs
\* the ProjectHelmChart to be in the index by release name, which it is not
\* from a restart to its next change or the next resync.
RevokedAtRest == Quiet /\ charted => \A r \in Roles : Labelled(r) => granted[r] \subseteq Entitled(r)

\* When no ClusterRole is configured for two roles, whom the operator binds does not
\* depend on the order it goes through a map.
Distinct == \A s, t \in DOMAIN opts : opts[s] = opts[t] => s = t

\* Whatever users do to it, and whenever, the namespace comes back with the
\* operator's label, and the release ends up with all and only the bindings it is to
\* have: the next resync makes good for the namespace that nobody was told of, the
\* bindings that were indexed too early, and the Roles that were not resolved.
SyncedInTheEnd == <>[](/\ ns = "operated"
                       /\ Distinct => \A r \in Roles : granted[r] = Entitled(r))
=============================================================================
