------------------------- MODULE ReleaseRoleBindings -------------------------
(***************************************************************************)
(* The RoleBindings that the project controller keeps in a release         *)
(* namespace (src/pkg/controllers/project): whoever is bound to one of the *)
(* operator's default ClusterRoles, by a RoleBinding in the registration   *)
(* namespace or by a ClusterRoleBinding, is bound to the Roles of the      *)
(* release that aggregate from it.                                         *)
(*                                                                         *)
(* One ProjectHelmChart that has the release to itself is enough: others   *)
(* read the same bindings and write to namespaces of their own.  How it    *)
(* gets the release, and what becomes of it when its registration          *)
(* namespace is deleted, is the subject of ProjectHelmCharts: here that    *)
(* namespace stays, and is tracked until the operator is restarted.        *)
(*                                                                         *)
(* What is bound is read from an index of the informer.  The index of      *)
(* RoleBindings is made when an object is stored, with what the tracker of *)
(* registration namespaces says at that moment; so is the index that tells *)
(* which ProjectHelmChart a change of a Role is about.                     *)
(***************************************************************************)
EXTENDS OperatedNamespace

CONSTANTS Subjects,          \* users, groups and service accounts
          Accounts,          \* those that are service accounts
          RoleBindings,      \* names of RoleBindings in the registration namespace
          ClusterBindings,   \* and of ClusterRoleBindings
          RoleRef,           \* the ClusterRole of each of them, which cannot be changed
          ClusterRoles,
          Options,           \* what the operator may be configured with
          Roles,             \* the Roles of the release
          ChartRoles         \* and what its chart has them aggregate from

Bindings     == RoleBindings \cup ClusterBindings
SubjectRoles == {"admin", "edit", "view"}

ASSUME BindingsAssumption == RoleBindings \cap ClusterBindings = {}
                             /\ RoleRef \in [Bindings -> ClusterRoles]
ASSUME RolesAssumption == ChartRoles \in [Roles -> SubjectRoles]

\* GetDefaultClusterRoles: the ClusterRoles of the roles that are configured.
ASSUME OptionsAssumption == \A o \in Options : DOMAIN o \subseteq SubjectRoles
                                               /\ \A s \in DOMAIN o : o[s] \in ClusterRoles

VARIABLES
    opts,
    (* the cluster *)
    binding,    \* the subjects of each binding; none if it does not exist
    role,       \* what each Role aggregates from, if it has the label of the release
    granted,    \* the subjects of the RoleBinding made for each Role
    unable,     \* the status of the ProjectHelmChart says that its namespace is missing
    (* the informers *)
    bindCache, bindWatch, roleCache, roleWatch, grantCache, grantWatch,
    bound,      \* the bindings in the index by RoleRef
    charted,    \* the ProjectHelmChart is in the index by release name
    (* the operator *)
    tracked,    \* the registration namespace is tracked
    queued, applying, plan

bindInformer  == <<bindCache, bindWatch, bound>>
roleInformer  == <<roleCache, roleWatch>>
grantInformer == <<grantCache, grantWatch>>
rbacInformer  == <<bindInformer, roleInformer, grantInformer, charted>>
handler       == <<tracked, queued, applying, plan>>
rbacVars      == <<opts, binding, role, granted, unable, rbacInformer, handler>>

\* A Role without the label of the release, and one that aggregates from nothing
\* the operator knows.
RoleStates == {"absent", "unlabelled", "unknown"} \cup SubjectRoles

None    == [r \in Roles |-> {}]
Nothing == [ns |-> FALSE, unable |-> FALSE, grants |-> None]
Plan    == [ns : BOOLEAN, unable : BOOLEAN, grants : [Roles -> SUBSET Subjects]]

RbacTypeOK ==
    /\ opts \in Options
    /\ binding \in [Bindings -> SUBSET Subjects] /\ bindCache \in [Bindings -> SUBSET Subjects]
    /\ role \in [Roles -> RoleStates] /\ roleCache \in [Roles -> RoleStates]
    /\ granted \in [Roles -> SUBSET Subjects] /\ grantCache \in [Roles -> SUBSET Subjects]
    /\ unable \in BOOLEAN
    /\ bindWatch \subseteq Bindings /\ roleWatch \subseteq Roles /\ grantWatch \subseteq Roles
    /\ bound \subseteq Bindings
    /\ \A b \in bound : /\ bindCache[b] # {}
                        /\ \E s \in DOMAIN opts : opts[s] = RoleRef[b]
                        /\ b \in ClusterBindings \/ tracked
    /\ charted \in BOOLEAN /\ tracked \in BOOLEAN /\ queued \in BOOLEAN /\ applying \in BOOLEAN
    /\ plan \in Plan

-----------------------------------------------------------------------------
(* The rules *)

\* IsDefaultClusterRoleRef: the role that a ClusterRole is configured for.  The
\* code goes through a map: if there are several, it may be any.
SubjectRolesOf(ref) == {s \in DOMAIN opts : opts[s] = ref}
IsDefault(b)        == SubjectRolesOf(RoleRef[b]) # {}

\* Mutant of FilterToUsersAndGroups: nobody is left out.
AllSubjects(subjects) == subjects

FilterToUsersAndGroups(subjects) == subjects \ Accounts

\* roleBindingInRegistrationNamespaceToRoleRef, clusterRoleBindingToRoleRef.
Indexed(b) == IsDefault(b) /\ (b \in ClusterBindings \/ tracked)

\* getSubjectRoleToSubjectsFromBindings: who is bound to the subject role s,
\* when pick tells the role that each binding is taken to be for.
SubjectsOf(s, pick) ==
    UNION {FilterToUsersAndGroups(bindCache[b]) : b \in {c \in bound : pick[c] = s}}

\* getRoleBindings: a RoleBinding of all these subjects for each Role that
\* aggregates from s (getSubjectRoleToRoleRefsFromRoles).
GrantsOf(pick) ==
    [r \in Roles |-> IF roleCache[r] \in DOMAIN opts THEN SubjectsOf(roleCache[r], pick) ELSE {}]

Picks == {pick \in [bound -> DOMAIN opts] : \A b \in bound : pick[b] \in SubjectRolesOf(RoleRef[b])}

\* The release is deployed, all subjects are bound, and nothing is left to be done.
RbacInit ==
    /\ opts \in Options
    /\ binding = [b \in Bindings |-> Subjects] /\ bindCache = binding /\ bindWatch = {}
    /\ role = ChartRoles /\ roleCache = role /\ roleWatch = {}
    /\ tracked = TRUE /\ charted = TRUE
    /\ bound = {b \in Bindings : Subjects # {} /\ Indexed(b)}
    /\ \E pick \in Picks : granted = GrantsOf(pick)
    /\ grantCache = granted /\ grantWatch = {}
    /\ unable = FALSE
    /\ queued = FALSE /\ applying = FALSE /\ plan = Nothing

-----------------------------------------------------------------------------
(* The cluster *)

SetGranted(new) ==
    /\ granted' = new
    /\ grantWatch' = grantWatch \cup {r \in Roles : new[r] # granted[r]}

SetRole(new) ==
    /\ role' = new
    /\ roleWatch' = roleWatch \cup {r \in Roles : new[r] # role[r]}

\* A user creates, changes or deletes a binding.
UserBinds(b) ==
    /\ Happens
    /\ \E subjects \in SUBSET Subjects \ {binding[b]} :
         binding' = [binding EXCEPT ![b] = subjects]
    /\ bindWatch' = bindWatch \cup {b}
    /\ UNCHANGED <<ns, nsCache, nsWatch, started, opts, role, granted, unable, bindCache, bound,
                   roleInformer, grantInformer, charted, handler>>

\* A user, or an upgrade of the chart, changes or deletes a Role.
UserChangesRole(r) ==
    /\ Happens
    /\ role[r] # "absent"
    /\ \E v \in RoleStates \ {role[r]} : SetRole([role EXCEPT ![r] = v])
    /\ UNCHANGED <<ns, nsCache, nsWatch, started, opts, binding, granted, unable, roleCache,
                   bindInformer, grantInformer, charted, handler>>

\* A user changes or deletes a RoleBinding in the release namespace.
UserChangesGrant(r) ==
    /\ Happens
    /\ granted[r] # {}
    /\ \E subjects \in SUBSET Subjects \ {granted[r]} :
         SetGranted([granted EXCEPT ![r] = subjects])
    /\ UNCHANGED <<ns, nsCache, nsWatch, started, opts, binding, role, unable, grantCache,
                   bindInformer, roleInformer, charted, handler>>

\* Helm installs the chart in an empty release namespace.  Its HelmChart is not
\* there as long as the operator has missed the namespace.
HelmInstalls ==
    /\ Usable /\ ~unable /\ \A r \in Roles : role[r] = "absent"
    /\ SetRole(ChartRoles)
    /\ UNCHANGED <<nsVars, opts, binding, granted, unable, roleCache, bindInformer, grantInformer,
                   charted, handler>>

\* What is in the release namespace goes with it.
RbacGoes ==
    /\ SetRole([r \in Roles |-> "absent"])
    /\ SetGranted(None)
    /\ UNCHANGED <<opts, binding, unable, roleCache, grantCache, bindInformer, charted, handler>>

-----------------------------------------------------------------------------
(* The informers and the resolvers *)

\* Mutant of ResolvesBinding: a binding that has gone is not resolved.
ResolvesLive(b) == IsDefault(b) /\ tracked /\ binding[b] # {}

\* resolveProjectRegistrationNamespaceRoleBinding, resolveClusterRoleBinding: a
\* binding that changes or goes enqueues the ProjectHelmCharts in the registration
\* namespaces that are tracked; in the index a ClusterRoleBinding is in any case.
ResolvesBinding(b) == IsDefault(b) /\ tracked

\* Mutant of Reindex: an object that has gone stays in the index.
IndexGrows(b) == IF Indexed(b) THEN bound \cup {b} ELSE bound

\* Storing an object replaces its values in the index, those that the old object
\* has by now.
Reindex(b) == CASE binding[b] # {} /\ Indexed(b) -> bound \cup {b}
                [] binding[b] = {} /\ Indexed(b) -> bound \ {b}
                [] OTHER -> bound

SeeBinding(b) ==
    /\ started /\ b \in bindWatch
    /\ bindCache' = [bindCache EXCEPT ![b] = binding[b]]
    /\ bindWatch' = bindWatch \ {b}
    /\ bound' = Reindex(b)
    /\ queued' = (queued \/ ResolvesBinding(b))
    /\ UNCHANGED <<nsVars, opts, binding, role, granted, unable, roleInformer, grantInformer, charted,
                   tracked, applying, plan>>

\* resolveByProjectReleaseLabelValue: a Role enqueues the ProjectHelmChart that the
\* index has for its label.  One that has gone still has its label; one that has
\* lost it enqueues nothing.
ResolvesRole(r) ==
    /\ charted
    /\ (IF role[r] = "absent" THEN roleCache[r] ELSE role[r]) \notin {"absent", "unlabelled"}

SeeRole(r) ==
    /\ started /\ r \in roleWatch
    /\ roleCache' = [roleCache EXCEPT ![r] = role[r]]
    /\ roleWatch' = roleWatch \ {r}
    /\ queued' = (queued \/ ResolvesRole(r))
    /\ UNCHANGED <<nsVars, opts, binding, role, granted, unable, bindInformer, grantInformer, charted,
                   tracked, applying, plan>>

\* resolveProjectHelmChartOwned: a RoleBinding that the operator has made.
SeeGrant(r) ==
    /\ started /\ r \in grantWatch
    /\ grantCache' = [grantCache EXCEPT ![r] = granted[r]]
    /\ grantWatch' = grantWatch \ {r}
    /\ queued' = TRUE
    /\ UNCHANGED <<nsVars, opts, binding, role, granted, unable, bindInformer, roleInformer, charted,
                   tracked, applying, plan>>

\* The ProjectHelmChart is changed, and stored anew in the index by release name.
UserChangesChart ==
    /\ Happens
    /\ started
    /\ charted' = tracked
    /\ queued' = TRUE
    /\ UNCHANGED <<ns, nsCache, nsWatch, started, opts, binding, role, granted, unable, bindInformer,
                   roleInformer, grantInformer, tracked, applying, plan>>

\* All caches list what exists.  A RoleBinding is indexed if its namespace is
\* tracked, and listed already.
RbacListed ==
    /\ bindCache' = binding /\ bindWatch' = {}
    /\ roleCache' = role /\ roleWatch' = {}
    /\ grantCache' = granted /\ grantWatch' = {}
    /\ LET known == {b \in Bindings : binding[b] # {} /\ Indexed(b)}
       IN  \E late \in SUBSET (known \cap RoleBindings) : bound' = known \ late
    /\ charted' = tracked
    /\ queued' = TRUE
    /\ UNCHANGED <<opts, binding, role, granted, unable, tracked, applying, plan>>

RbacForgotten ==
    /\ bindCache' = [b \in Bindings |-> {}] /\ bindWatch' = {} /\ bound' = {}
    /\ roleCache' = [r \in Roles |-> "absent"] /\ roleWatch' = {}
    /\ grantCache' = None /\ grantWatch' = {}
    /\ charted' = FALSE /\ tracked' = FALSE
    /\ queued' = FALSE /\ applying' = FALSE /\ plan' = Nothing
    /\ UNCHANGED <<opts, binding, role, granted, unable>>

\* The namespace controller has applied the registration namespace, tracks it,
\* and enqueues the ProjectHelmCharts it finds there.
Track ==
    /\ ~tracked /\ tracked' = TRUE
    /\ queued' = (queued \/ started)
    /\ UNCHANGED <<nsVars, opts, binding, role, granted, unable, rbacInformer, applying, plan>>

-----------------------------------------------------------------------------
(* The handler: OnChange decides, then its objects are applied *)

Goes(p) ==
    /\ started /\ queued /\ ~applying
    /\ queued' = FALSE /\ applying' = TRUE
    /\ plan' = p
    /\ UNCHANGED <<nsVars, opts, binding, role, granted, unable, rbacInformer, tracked>>

\* One that is not managed is left with nothing, and its status as it is.
NotManaged == ~tracked /\ Goes([Nothing EXCEPT !.unable = unable])

\* Without its namespace, as far as the informer knows, nothing else is released.
NeedsNs == tracked /\ nsCache = "absent" /\ Goes([Nothing EXCEPT !.ns = TRUE, !.unable = TRUE])

Grants ==
    /\ tracked /\ nsCache # "absent"
    /\ \E pick \in Picks : Goes([ns |-> TRUE, unable |-> FALSE, grants |-> GrantsOf(pick)])

\* The RoleBindings that the apply finds different from what it wants.  The API
\* server takes a deletion in any case, and the others while the namespace is
\* usable and, for a patch, the RoleBinding exists.
Differing   == {r \in Roles : grantCache[r] # plan.grants[r]}
Writable(r) == \/ plan.grants[r] = {}
               \/ Usable /\ (grantCache[r] = {} \/ granted[r] # {})

\* sync: the objects are applied, what can be written is written unless a call
\* fails, and then the status is updated.  The handler is called again for a
\* failure, which leaves the status alone, and for a status that has changed.
Apply ==
    LET good   == {r \in Differing : Writable(r)}
        failed == plan.ns /\ NsMissing
    IN  /\ applying
        /\ IF plan.ns THEN ApplyNs ELSE UNCHANGED <<ns, nsWatch>>
        /\ \E done \in SUBSET good :
             /\ \/ done = good /\ UNCHANGED events
                \/ done # good /\ Happens
             /\ SetGranted([r \in Roles |-> IF r \in done THEN plan.grants[r] ELSE granted[r]])
             /\ unable' = IF failed \/ done # Differing THEN unable ELSE plan.unable
             /\ queued' = (queued \/ failed \/ done # Differing \/ unable' # unable)
        /\ applying' = FALSE /\ plan' = Nothing
        /\ UNCHANGED <<nsCache, started, opts, binding, role, bindInformer, roleInformer,
                       grantCache, charted, tracked>>
=============================================================================
