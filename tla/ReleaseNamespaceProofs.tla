------------------------ MODULE ReleaseNamespaceProofs ------------------------
(***************************************************************************)
(* Proofs about ReleaseNamespace, for any number of bindings, Roles and    *)
(* subjects, and any options.                                              *)
(***************************************************************************)
EXTENDS ReleaseNamespace, TLAPS

-----------------------------------------------------------------------------
(* Types *)

\* The count of what the environment does stays below its bound.
LEMMA HappensType ==
    ASSUME NsTypeOK, Happens
    PROVE  events' \in 0..MaxEvents
  BY EventsAssumption DEF NsTypeOK, Happens

\* What a change of the phase does to the namespace.
LEMMA SetNsType ==
    ASSUME NEW phase \in Phases, NsTypeOK, SetNs(phase)
    PROVE  ns' \in Phases /\ nsWatch' \in BOOLEAN
  BY DEF NsTypeOK, SetNs

\* The steps of the namespace and of its informer.
LEMMA NsStepType ==
    ASSUME NsTypeOK,
           \/ UserRemovesLabel \/ UserDeletesNs \/ NsGoes \/ SeeNs \/ NsListed \/ NsForgotten
    PROVE  NsTypeOK'
<1>1. CASE UserRemovesLabel
  BY <1>1, HappensType, SetNsType DEF UserRemovesLabel, NsTypeOK, Phases
<1>2. CASE UserDeletesNs
  BY <1>2, HappensType, SetNsType DEF UserDeletesNs, NsTypeOK, Phases
<1>3. CASE NsGoes
  BY <1>3, SetNsType DEF NsGoes, NsTypeOK, Phases
<1>4. CASE SeeNs
  BY <1>4 DEF SeeNs, NsTypeOK
<1>5. CASE NsListed
  BY <1>5 DEF NsListed, NsTypeOK
<1>6. CASE NsForgotten
  BY <1>6, HappensType DEF NsForgotten, NsTypeOK, Phases
<1> QED BY <1>1, <1>2, <1>3, <1>4, <1>5, <1>6

\* What a change does to the hardened objects.
LEMMA SetContentType ==
    ASSUME NEW new \in [Hardening -> Contents], HardTypeOK, SetContent(new)
    PROVE  content' \in [Hardening -> Contents] /\ contentWatch' \subseteq Hardening
  BY DEF HardTypeOK, SetContent

\* What a change does to the RoleBindings of the release.
LEMMA SetGrantedType ==
    ASSUME NEW new \in [Roles -> SUBSET Subjects], RbacTypeOK, SetGranted(new)
    PROVE  granted' \in [Roles -> SUBSET Subjects] /\ grantWatch' \subseteq Roles
  BY DEF RbacTypeOK, SetGranted

\* What a change does to the Roles of the release.
LEMMA SetRoleType ==
    ASSUME NEW new \in [Roles -> RoleStates], RbacTypeOK, SetRole(new)
    PROVE  role' \in [Roles -> RoleStates] /\ roleWatch' \subseteq Roles
  BY DEF RbacTypeOK, SetRole

\* What the operator wants to grant is granted to subjects of bindings.
LEMMA GrantsOfType ==
    ASSUME NEW pick, RbacTypeOK
    PROVE  GrantsOf(pick) \in [Roles -> SUBSET Subjects]
<1> DEFINE Of(s) == {b \in bound : pick[b] = s}
<1>1. \A b \in bound : FilterToUsersAndGroups(bindCache[b]) \subseteq Subjects
  BY DEF RbacTypeOK, FilterToUsersAndGroups
<1>2. \A s : SubjectsOf(s, pick) \subseteq Subjects
  BY <1>1 DEF SubjectsOf
<1> QED BY <1>2 DEF GrantsOf

\* Nobody is a grant, too.
LEMMA NoneType == None \in [Roles -> SUBSET Subjects]
  BY DEF None

\* The parts of the type invariant that do not tell of the hardened objects are
\* kept by the steps that keep those variables.
LEMMA HardStepType ==
    ASSUME TypeOK, UNCHANGED rbacVars,
           \/ KubeCreatesAccount \/ Harden
           \/ \E o \in Hardening : UserModifies(o) \/ SeeContent(o)
    PROVE  TypeOK'
<1> USE DEF TypeOK
<1>0. RbacTypeOK'
  BY DEF RbacTypeOK, rbacVars, rbacInformer, bindInformer, roleInformer, grantInformer, handler
<1>1. CASE KubeCreatesAccount
  <2>1. [content EXCEPT !["serviceAccount"] = "modified"] \in [Hardening -> Contents]
    BY DEF HardTypeOK, Contents
  <2> QED BY <1>0, <1>1, <2>1, SetContentType DEF KubeCreatesAccount, HardTypeOK, NsTypeOK, nsVars
<1>2. CASE Harden
  <2>1. ASSUME NEW done
        PROVE  [o \in Hardening |-> IF o \in done THEN "hardened" ELSE content[o]]
                 \in [Hardening -> Contents]
    BY DEF HardTypeOK, Contents
  <2>2. HardTypeOK'
    BY <1>2, <2>1, SetContentType DEF Harden, HardTypeOK
  <2>3. NsTypeOK'
    BY <1>2, HappensType DEF Harden, NsTypeOK
  <2> QED BY <1>0, <2>2, <2>3
<1>3. ASSUME NEW o \in Hardening, UserModifies(o) PROVE TypeOK'
  <2>1. ASSUME NEW v \in {"missing", "modified"}
        PROVE  [content EXCEPT ![o] = v] \in [Hardening -> Contents]
    BY DEF HardTypeOK, Contents
  <2> QED BY <1>0, <1>3, <2>1, SetContentType, HappensType DEF UserModifies, HardTypeOK, NsTypeOK
<1>4. ASSUME NEW o \in Hardening, SeeContent(o) PROVE TypeOK'
  BY <1>0, <1>4 DEF SeeContent, HardTypeOK, NsTypeOK, nsVars, Resolves
<1> QED BY <1>1, <1>2, <1>3, <1>4

\* No Role is a state of the Roles, too.
LEMMA RoleNoneType == [r \in Roles |-> "absent"] \in [Roles -> RoleStates]
  BY DEF RoleStates

\* What is planned at rest is a plan.
LEMMA NothingType == Nothing \in Plan
  BY NoneType DEF Nothing, Plan

\* What the handler decides is well typed, and leaves the rest alone.
LEMMA GoesType ==
    ASSUME RbacTypeOK, NEW p \in Plan, Goes(p)
    PROVE  RbacTypeOK'
  BY DEF Goes, RbacTypeOK, rbacInformer, bindInformer, roleInformer, grantInformer

\* Steps of users and of Helm.
LEMMA UserStepType ==
    ASSUME TypeOK, UNCHANGED hardVars,
           \/ UserChangesChart \/ HelmInstalls
           \/ \E b \in Bindings : UserBinds(b)
           \/ \E r \in Roles : UserChangesRole(r) \/ UserChangesGrant(r)
    PROVE  TypeOK'
<1> USE DEF TypeOK, bindInformer, roleInformer, grantInformer, rbacInformer, handler
<1>0. HardTypeOK'
  BY DEF HardTypeOK, hardVars
<1>1. CASE UserChangesChart
  BY <1>0, <1>1, HappensType DEF UserChangesChart, NsTypeOK, RbacTypeOK
<1>2. CASE HelmInstalls
  <2>1. ChartRoles \in [Roles -> RoleStates]
    BY RolesAssumption DEF RoleStates
  <2>2. role' \in [Roles -> RoleStates] /\ roleWatch' \subseteq Roles
    BY <1>2, <2>1, SetRoleType DEF HelmInstalls
  <2> QED BY <1>0, <1>2, <2>2 DEF HelmInstalls, NsTypeOK, RbacTypeOK, nsVars
<1>3. ASSUME NEW b \in Bindings, UserBinds(b) PROVE TypeOK'
  BY <1>0, <1>3, HappensType DEF UserBinds, NsTypeOK, RbacTypeOK
<1>4. ASSUME NEW r \in Roles, UserChangesRole(r) PROVE TypeOK'
  <2>1. ASSUME NEW v \in RoleStates PROVE [role EXCEPT ![r] = v] \in [Roles -> RoleStates]
    BY DEF RbacTypeOK
  <2>2. role' \in [Roles -> RoleStates] /\ roleWatch' \subseteq Roles
    BY <1>4, <2>1, SetRoleType DEF UserChangesRole
  <2> QED BY <1>0, <1>4, <2>2, HappensType DEF UserChangesRole, NsTypeOK, RbacTypeOK
<1>5. ASSUME NEW r \in Roles, UserChangesGrant(r) PROVE TypeOK'
  <2>1. ASSUME NEW v \in SUBSET Subjects
        PROVE  [granted EXCEPT ![r] = v] \in [Roles -> SUBSET Subjects]
    BY DEF RbacTypeOK
  <2>2. granted' \in [Roles -> SUBSET Subjects] /\ grantWatch' \subseteq Roles
    BY <1>5, <2>1, SetGrantedType DEF UserChangesGrant
  <2> QED BY <1>0, <1>5, <2>2, HappensType DEF UserChangesGrant, NsTypeOK, RbacTypeOK
<1> QED BY <1>1, <1>2, <1>3, <1>4, <1>5

\* Steps of the informers and of the tracker.
LEMMA SeesType ==
    ASSUME TypeOK, UNCHANGED hardVars,
           \/ Track
           \/ \E b \in Bindings : SeeBinding(b)
           \/ \E r \in Roles : SeeRole(r) \/ SeeGrant(r)
    PROVE  TypeOK'
<1> USE DEF TypeOK, bindInformer, roleInformer, grantInformer, rbacInformer, handler
<1>0. HardTypeOK'
  BY DEF HardTypeOK, hardVars
<1>1. ASSUME NEW b \in Bindings, SeeBinding(b) PROVE TypeOK'
  <2>1. bindCache' \in [Bindings -> SUBSET Subjects] /\ bindWatch' \subseteq Bindings
    BY <1>1 DEF SeeBinding, RbacTypeOK
  <2>2. \A c \in bound' : c \in Bindings /\ Indexed(c)
                          /\ (c = b => binding[b] # {}) /\ (c # b => c \in bound)
    BY <1>1 DEF SeeBinding, Reindex, RbacTypeOK, Indexed, IsDefault, SubjectRolesOf
  <2>3. \A c \in bound' : /\ bindCache'[c] # {}
                          /\ \E s \in DOMAIN opts : opts[s] = RoleRef[c]
                          /\ c \in ClusterBindings \/ tracked
    BY <1>1, <2>2 DEF SeeBinding, RbacTypeOK, Indexed, IsDefault, SubjectRolesOf
  <2>4. queued' \in BOOLEAN
    BY <1>1 DEF SeeBinding, ResolvesBinding, Indexed, RbacTypeOK
  <2> QED BY <1>0, <1>1, <2>1, <2>2, <2>3, <2>4 DEF SeeBinding, NsTypeOK, RbacTypeOK, nsVars
<1>2. ASSUME NEW r \in Roles, SeeRole(r) PROVE TypeOK'
  BY <1>0, <1>2 DEF SeeRole, ResolvesRole, NsTypeOK, RbacTypeOK, nsVars
<1>3. ASSUME NEW r \in Roles, SeeGrant(r) PROVE TypeOK'
  BY <1>0, <1>3 DEF SeeGrant, NsTypeOK, RbacTypeOK, nsVars
<1>4. CASE Track
  BY <1>0, <1>4 DEF Track, NsTypeOK, RbacTypeOK, nsVars
<1> QED BY <1>1, <1>2, <1>3, <1>4

\* Steps of the handler.
LEMMA HandlerType ==
    ASSUME TypeOK, UNCHANGED hardVars, NotManaged \/ NeedsNs \/ Grants \/ Apply
    PROVE  TypeOK'
<1> USE DEF TypeOK
<1>0. HardTypeOK'
  BY DEF HardTypeOK, hardVars
<1>1. CASE NotManaged
  <2>1. [Nothing EXCEPT !.unable = unable] \in Plan
    BY NothingType DEF RbacTypeOK, Plan
  <2> QED BY <1>0, <1>1, <2>1, GoesType DEF NotManaged, Goes, NsTypeOK, nsVars
<1>2. CASE NeedsNs
  <2>1. [Nothing EXCEPT !.ns = TRUE, !.unable = TRUE] \in Plan
    BY NothingType DEF Plan
  <2> QED BY <1>0, <1>2, <2>1, GoesType DEF NeedsNs, Goes, NsTypeOK, nsVars
<1>3. CASE Grants
  <2>1. PICK pick : Goes([ns |-> TRUE, unable |-> FALSE, grants |-> GrantsOf(pick)])
    BY <1>3 DEF Grants
  <2>2. [ns |-> TRUE, unable |-> FALSE, grants |-> GrantsOf(pick)] \in Plan
    BY GrantsOfType DEF Plan
  <2> QED BY <1>0, <2>1, <2>2, GoesType DEF Goes, NsTypeOK, nsVars
<1>4. CASE Apply
  <2>1. ns' \in Phases /\ nsWatch' \in BOOLEAN
    BY <1>4 DEF Apply, ApplyNs, SetNs, NsTypeOK, Phases
  <2>2. NsTypeOK'
    BY <1>4, <2>1, HappensType DEF Apply, NsTypeOK
  <2>3. ASSUME NEW done
        PROVE  [r \in Roles |-> IF r \in done THEN plan.grants[r] ELSE granted[r]]
                 \in [Roles -> SUBSET Subjects]
    BY DEF RbacTypeOK, Plan
  <2>4. granted' \in [Roles -> SUBSET Subjects] /\ grantWatch' \subseteq Roles
    BY <1>4, <2>3, SetGrantedType DEF Apply
  <2>5. queued' \in BOOLEAN /\ unable' \in BOOLEAN
    BY <1>4 DEF Apply, RbacTypeOK, NsMissing, Plan
  <2>6. RbacTypeOK'
    BY <1>4, <2>4, <2>5, NothingType DEF Apply, RbacTypeOK, bindInformer, roleInformer
  <2> QED BY <1>0, <2>2, <2>6
<1> QED BY <1>1, <1>2, <1>3, <1>4

\* Steps of both parts.
LEMMA JointType ==
    ASSUME TypeOK,
           LosesLabel \/ Deleted \/ Gone \/ NamespaceSeen \/ Started \/ Restart \/ Resync
    PROVE  TypeOK'
<1> USE DEF TypeOK, bindInformer, roleInformer, grantInformer, rbacInformer, handler
<1>1. CASE LosesLabel
  BY <1>1, NsStepType DEF LosesLabel, HardTypeOK, RbacTypeOK, hardVars, rbacVars
<1>2. CASE Deleted
  <2>1. [o \in Hardening |-> "missing"] \in [Hardening -> Contents]
    BY DEF Contents
  <2>2. HardTypeOK'
    BY <1>2, <2>1, SetContentType DEF Deleted, ContentGoes, HardTypeOK
  <2>3. /\ role' \in [Roles -> RoleStates] /\ roleWatch' \subseteq Roles
        /\ granted' \in [Roles -> SUBSET Subjects] /\ grantWatch' \subseteq Roles
    BY <1>2, RoleNoneType, NoneType, SetRoleType, SetGrantedType DEF Deleted, RbacGoes
  <2> QED BY <1>2, <2>2, <2>3, NsStepType DEF Deleted, RbacGoes, RbacTypeOK
<1>3. CASE Gone
  BY <1>3, NsStepType DEF Gone, HardTypeOK, RbacTypeOK, hardVars, rbacVars
<1>4. CASE NamespaceSeen
  BY <1>4, NsStepType DEF NamespaceSeen, HardTypeOK, RbacTypeOK, rbacVars
<1>5. CASE Started
  <2>1. HardTypeOK'
    BY <1>5 DEF Started, ContentListed, HardTypeOK
  <2>2. RbacTypeOK'
    BY <1>5 DEF Started, RbacListed, RbacTypeOK, Indexed, IsDefault, SubjectRolesOf
  <2> QED BY <1>5, <2>1, <2>2, NsStepType DEF Started
<1>6. CASE Restart
  <2>1. HardTypeOK'
    BY <1>6 DEF Restart, ContentForgotten, HardTypeOK, Contents
  <2>2. RbacTypeOK'
    BY <1>6, RoleNoneType, NoneType, NothingType DEF Restart, RbacForgotten, RbacTypeOK
  <2> QED BY <1>6, <2>1, <2>2, NsStepType DEF Restart
<1>7. CASE Resync
  BY <1>7 DEF Resync, Stored, NsTypeOK, HardTypeOK, RbacTypeOK, nsVars, Indexed, IsDefault,
              SubjectRolesOf
<1> QED BY <1>1, <1>2, <1>3, <1>4, <1>5, <1>6, <1>7

\* At the start the parts of the system have their types.
LEMMA InitType == Init => TypeOK
<1> SUFFICES ASSUME Init PROVE TypeOK
  OBVIOUS
<1>0. NsInit /\ HardInit /\ RbacInit
  BY DEF Init
<1>1. NsTypeOK
  <2>1. NsInit
    BY <1>0
  <2>2. 0 \in 0..MaxEvents
    BY EventsAssumption
  <2> QED BY <2>1, <2>2 DEF NsInit, NsTypeOK, Phases
<1>2. HardTypeOK
  <2>1. [o \in Hardening |-> "hardened"] \in [Hardening -> Contents]
    BY DEF Contents
  <2> QED BY <1>0, <2>1 DEF HardInit, HardTypeOK
<1>3. /\ opts \in Options /\ bindCache = [b \in Bindings |-> Subjects]
      /\ bound = {b \in Bindings : Subjects # {} /\ Indexed(b)}
  BY <1>0 DEF RbacInit
<1>4. \A b \in bound : FilterToUsersAndGroups(bindCache[b]) \subseteq Subjects
  BY <1>3 DEF FilterToUsersAndGroups
<1>5. ASSUME NEW pick PROVE GrantsOf(pick) \in [Roles -> SUBSET Subjects]
  <2>1. \A s : SubjectsOf(s, pick) \subseteq Subjects
    BY <1>4 DEF SubjectsOf
  <2> QED BY <2>1 DEF GrantsOf
<1>6. ChartRoles \in [Roles -> RoleStates]
  BY RolesAssumption DEF RoleStates
<1>7. RbacTypeOK
  <2>1. granted \in [Roles -> SUBSET Subjects]
    BY <1>0, <1>5 DEF RbacInit
  <2>2. /\ tracked = TRUE
        /\ \A b \in bound : b \in Bindings /\ Subjects # {} /\ \E s \in DOMAIN opts : opts[s] = RoleRef[b]
    BY <1>0, <1>3 DEF RbacInit, Indexed, IsDefault, SubjectRolesOf
  <2> QED BY <1>0, <1>3, <1>6, <2>1, <2>2, NothingType DEF RbacInit, RbacTypeOK
<1> QED BY <1>1, <1>2, <1>7 DEF TypeOK

\* Every step keeps the types.
LEMMA NextType == TypeOK /\ [Next]_vars => TypeOK'
<1> SUFFICES ASSUME TypeOK, [Next]_vars PROVE TypeOK'
  OBVIOUS
<1>1. CASE LosesLabel \/ Deleted \/ Gone \/ NamespaceSeen \/ Started \/ Restart \/ Resync
  BY <1>1, JointType
<1>2. CASE Hardens
  BY <1>2, HardStepType DEF Hardens
<1>3. CASE Binds
  BY <1>3, HandlerType, SeesType DEF Binds
<1>4. CASE Sees
  BY <1>4, SeesType DEF Sees
<1>5. CASE Users
  BY <1>5, HardStepType, UserStepType DEF Users
<1>6. CASE UNCHANGED vars
  BY <1>6 DEF vars, nsVars, hardVars, rbacVars, rbacInformer, bindInformer, roleInformer,
              grantInformer, handler, TypeOK, NsTypeOK, HardTypeOK, RbacTypeOK
<1> QED BY <1>1, <1>2, <1>3, <1>4, <1>5, <1>6 DEF Next

\* The types, and that the index of bindings lists only what is stored, refers to a
\* default ClusterRole and, for a RoleBinding, is in a tracked namespace
\* (indexers.go:76-115).
THEOREM TypeCorrect == Spec => []TypeOK
  BY InitType, NextType, PTL DEF Spec

-----------------------------------------------------------------------------
(* What makes the invariants inductive: a cache is as the cluster unless an     *)
(* event is on its way, and what differs from what a cache wants is queued.     *)

NsFresh == started /\ ~nsWatch => nsCache = ns

ContentFresh == started => \A o \in Hardening \ contentWatch : contentCache[o] = content[o]

RbacFresh ==
    started => /\ \A b \in Bindings \ bindWatch : bindCache[b] = binding[b]
               /\ \A r \in Roles \ roleWatch : roleCache[r] = role[r]
               /\ \A r \in Roles \ grantWatch : grantCache[r] = granted[r]

\* An object that is not hardened is about to be.
HardenWanted ==
    started /\ ~nsWatch /\ ns = "operated" =>
        \A o \in Hardening \ contentWatch : content[o] # "hardened" => nsQueued

\* Whom the caches say the Role r is for.
Wanted(r) ==
    IF roleCache[r] \in DOMAIN opts
    THEN UNION {bindCache[b] \ Accounts : b \in {c \in Bindings : RoleRef[c] = opts[roleCache[r]]}}
    ELSE {}

\* Nobody else is in what is being applied, nor, when nothing is, in what was.
Settled == started /\ tracked /\ charted /\ ~queued

Only(r, subjects) == roleCache[r] \notin {"absent", "unlabelled"} => subjects \subseteq Wanted(r)

PlanWanted  == Settled /\ applying => \A r \in Roles : Only(r, plan.grants[r])
GrantWanted == Settled /\ ~applying => \A r \in Roles \ grantWatch : Only(r, granted[r])

-----------------------------------------------------------------------------
(* The namespace *)

\* Every step keeps what the informer of namespaces knows.
LEMMA NsNext ==
    ASSUME TypeOK, NsFresh, [Next]_vars
    PROVE  NsFresh'
<1> USE DEF nsVars
<1>1. CASE LosesLabel \/ Deleted \/ Gone
  <2>1. nsWatch'
    BY <1>1 DEF LosesLabel, Deleted, Gone, UserRemovesLabel, UserDeletesNs, NsGoes, SetNs, Usable
  <2> QED BY <2>1 DEF NsFresh
<1>2. CASE NamespaceSeen \/ Started \/ Restart
  BY <1>2 DEF NamespaceSeen, SeeNs, Started, NsListed, Restart, NsForgotten, NsFresh
<1>3. CASE Apply
  <2>1. nsWatch' \/ (ns' = ns /\ ~nsWatch)
    BY <1>3 DEF Apply, ApplyNs, SetNs, TypeOK, NsTypeOK
  <2> QED BY <1>3, <2>1 DEF Apply, NsFresh
<1>4. CASE \/ Resync \/ Hardens \/ Sees \/ Users \/ (Binds /\ ~Apply) \/ UNCHANGED vars
  <2>1. UNCHANGED <<ns, nsCache, nsWatch, started>>
    BY <1>4 DEF Resync, Stored, Hardens, Harden, SeeContent, Sees, SeeBinding, SeeRole, SeeGrant,
                Users, KubeCreatesAccount, UserModifies, UserBinds, UserChangesRole,
                UserChangesGrant, UserChangesChart, HelmInstalls, Binds, Track, NotManaged,
                NeedsNs, Grants, Goes, vars
  <2> QED BY <2>1 DEF NsFresh
<1> QED BY <1>1, <1>2, <1>3, <1>4 DEF Next, Binds

\* At the start the informer knows the namespace.
LEMMA NsFirst == Init => NsFresh
<1> SUFFICES ASSUME Init PROVE NsFresh
  OBVIOUS
<1>1. NsInit
  BY DEF Init
<1> QED BY <1>1 DEF NsInit, NsFresh

-----------------------------------------------------------------------------
(* The hardened objects *)

\* Steps that leave the hardened objects and the namespace alone.
LEMMA HardKept ==
    ASSUME ContentFresh, HardenWanted, UNCHANGED <<ns, nsWatch, started, content, contentCache>>,
           contentWatch' = contentWatch, nsQueued => nsQueued'
    PROVE  ContentFresh' /\ HardenWanted'
  BY DEF ContentFresh, HardenWanted

\* A change of the content is an event on its way; what has none is as it was.
LEMMA ContentChanged ==
    ASSUME TypeOK, NEW new \in [Hardening -> Contents], SetContent(new)
    PROVE  /\ content' = new /\ contentWatch \subseteq contentWatch'
           /\ \A o \in Hardening \ contentWatch' : content'[o] = content[o]
  BY DEF SetContent, TypeOK, HardTypeOK

\* Every step keeps what is known of the hardened objects: what differs will be seen.
LEMMA HardNext ==
    ASSUME TypeOK, NsFresh, ContentFresh, HardenWanted, [Next]_vars
    PROVE  ContentFresh' /\ HardenWanted'
<1> USE DEF nsVars, hardVars
<1>1. CASE LosesLabel \/ Gone
  <2>1. nsWatch' /\ UNCHANGED <<started, content, contentCache, contentWatch>>
    BY <1>1 DEF LosesLabel, Gone, UserRemovesLabel, NsGoes, SetNs
  <2> QED BY <2>1 DEF ContentFresh, HardenWanted
<1>2. CASE Deleted
  <2>1. [o \in Hardening |-> "missing"] \in [Hardening -> Contents]
    BY DEF Contents
  <2>2. /\ contentWatch \subseteq contentWatch'
        /\ \A o \in Hardening \ contentWatch' : content'[o] = content[o]
    BY <1>2, <2>1, ContentChanged DEF Deleted, ContentGoes
  <2>3. nsWatch' /\ UNCHANGED <<started, contentCache>>
    BY <1>2 DEF Deleted, ContentGoes, UserDeletesNs, SetNs, Usable
  <2> QED BY <2>2, <2>3 DEF ContentFresh, HardenWanted
<1>3. CASE NamespaceSeen
  BY <1>3 DEF NamespaceSeen, SeeNs, ContentFresh, HardenWanted
<1>4. CASE Started
  BY <1>4 DEF Started, NsListed, ContentListed, ContentFresh, HardenWanted
<1>5. CASE Restart
  BY <1>5 DEF Restart, NsForgotten, ContentFresh, HardenWanted
<1>6. CASE Resync
  BY <1>6, HardKept DEF Resync, Stored
<1>7. CASE Harden
  <2> DEFINE todo == {o \in Hardening : nsCache = "operated" /\ Differs(o)}
             new(done) == [o \in Hardening |-> IF o \in done THEN "hardened" ELSE content[o]]
  <2>1. PICK done \in SUBSET {o \in todo : Accepted(o)} :
             SetContent(new(done)) /\ nsQueued' = (done # todo)
    BY <1>7 DEF Harden
  <2>2. new(done) \in [Hardening -> Contents]
    BY DEF TypeOK, HardTypeOK, Contents
  <2> HIDE DEF todo
  <2>3. /\ contentWatch \subseteq contentWatch' /\ content' = new(done)
        /\ \A o \in Hardening \ contentWatch' : content'[o] = content[o]
    BY <2>1, <2>2, ContentChanged
  <2>4. UNCHANGED <<ns, nsCache, nsWatch, started, contentCache>>
    BY <1>7 DEF Harden
  <2>5. ContentFresh'
    BY <2>3, <2>4 DEF ContentFresh
  <2>6. ASSUME started', ~nsWatch', ns' = "operated",
               NEW o \in Hardening \ contentWatch', content'[o] # "hardened"
        PROVE  nsQueued'
    <3>1. contentCache[o] = content[o] /\ content[o] # "hardened" /\ nsCache = "operated"
      BY <2>3, <2>4, <2>6 DEF ContentFresh, NsFresh
    <3>2. o \in todo
      BY <3>1 DEF todo, Differs
    <3>3. o \notin done
      BY <2>3, <2>6
    <3> QED BY <2>1, <3>2, <3>3
  <2> QED BY <2>5, <2>6 DEF HardenWanted
<1>8. ASSUME NEW o \in Hardening, SeeContent(o) PROVE ContentFresh' /\ HardenWanted'
  <2>1. /\ UNCHANGED <<ns, nsCache, nsWatch, started, content>>
        /\ contentCache' = [contentCache EXCEPT ![o] = content[o]]
        /\ contentWatch' = contentWatch \ {o}
        /\ nsQueued' = (nsQueued \/ HasOperatedLabel)
    BY <1>8 DEF SeeContent, Resolves
  <2>2. ContentFresh'
    BY <2>1 DEF ContentFresh, TypeOK, HardTypeOK
  <2>3. ASSUME started', ~nsWatch', ns' = "operated" PROVE nsQueued'
    BY <2>1, <2>3 DEF NsFresh, HasOperatedLabel
  <2> QED BY <2>2, <2>3 DEF HardenWanted
<1>9. CASE Binds \/ Sees
  <2>1. CASE Apply /\ UNCHANGED hardVars
    <3>1. nsWatch' \/ (ns' = ns /\ ~nsWatch)
      BY <2>1 DEF Apply, ApplyNs, SetNs, TypeOK, NsTypeOK
    <3>2. UNCHANGED started
      BY <2>1 DEF Apply
    <3> QED BY <2>1, <3>1, <3>2 DEF ContentFresh, HardenWanted
  <2>2. CASE ~Apply
    <3>1. UNCHANGED <<ns, nsWatch, started>>
      BY <1>9, <2>2 DEF Binds, Sees, Track, NotManaged, NeedsNs, Grants, Goes, SeeBinding, SeeRole,
                        SeeGrant
    <3> QED BY <1>9, <3>1, HardKept DEF Binds, Sees
  <2> QED BY <1>9, <2>1, <2>2 DEF Binds, Sees
<1>10. CASE KubeCreatesAccount \/ \E o \in Hardening : UserModifies(o)
  <2>1. \E new \in [Hardening -> Contents] : SetContent(new)
    BY <1>10 DEF KubeCreatesAccount, UserModifies, TypeOK, HardTypeOK, Contents
  <2>2. /\ contentWatch \subseteq contentWatch'
        /\ \A o \in Hardening \ contentWatch' : content'[o] = content[o]
    BY <2>1, ContentChanged
  <2>3. UNCHANGED <<ns, nsWatch, started, contentCache, nsQueued>>
    BY <1>10 DEF KubeCreatesAccount, UserModifies
  <2> QED BY <2>2, <2>3 DEF ContentFresh, HardenWanted
<1>11. CASE Users /\ UNCHANGED hardVars
  <2>1. UNCHANGED <<ns, nsWatch, started>>
    BY <1>11 DEF Users, KubeCreatesAccount, UserModifies, UserBinds, UserChangesRole,
                 UserChangesGrant, UserChangesChart, HelmInstalls
  <2> QED BY <1>11, <2>1, HardKept
<1>12. CASE UNCHANGED vars
  BY <1>12, HardKept DEF vars
<1> QED BY <1>1, <1>2, <1>3, <1>4, <1>5, <1>6, <1>7, <1>8, <1>9, <1>10, <1>11, <1>12
        DEF Next, Hardens, Users

\* At the start both objects are hardened, and known to the informer.
LEMMA HardFirst == Init => ContentFresh /\ HardenWanted
<1> SUFFICES ASSUME Init PROVE ContentFresh /\ HardenWanted
  OBVIOUS
<1>1. HardInit
  BY DEF Init
<1> QED BY <1>1 DEF HardInit, ContentFresh, HardenWanted

\* Both objects of an operated namespace are as the operator wants them when nothing is left
\* to be done: the resolver may ignore what happens in a namespace without the
\* label, because the namespace is handled when it gets it (hardened/resolvers.go:24-47).
THEOREM HardeningStays == Spec => []HardenedAtRest
<1> DEFINE I == TypeOK /\ NsFresh /\ ContentFresh /\ HardenWanted
<1>1. Init => I
  BY InitType, NsFirst, HardFirst
<1>2. I /\ [Next]_vars => I'
  BY NextType, NsNext, HardNext
<1>3. I => HardenedAtRest
  BY DEF HardenWanted, HardenedAtRest, Quiet
<1> QED BY <1>1, <1>2, <1>3, PTL DEF Spec

-----------------------------------------------------------------------------
(* The RoleBindings *)

\* What the operator decides to grant is what its caches say, whichever subject role
\* it takes a ClusterRole to be for (rbac.go:24-31).
LEMMA GrantsAreWanted ==
    ASSUME TypeOK, NEW pick \in Picks, NEW r \in Roles
    PROVE  GrantsOf(pick)[r] \subseteq Wanted(r)
<1>1. \A b \in bound : pick[b] \in DOMAIN opts /\ opts[pick[b]] = RoleRef[b]
  BY DEF Picks, SubjectRolesOf
<1>2. CASE roleCache[r] \in DOMAIN opts
  <2>1. \A b \in {c \in bound : pick[c] = roleCache[r]} :
            b \in {c \in Bindings : RoleRef[c] = opts[roleCache[r]]}
    BY <1>1 DEF TypeOK, RbacTypeOK
  <2>2. SubjectsOf(roleCache[r], pick) \subseteq Wanted(r)
    BY <1>2, <2>1 DEF SubjectsOf, FilterToUsersAndGroups, Wanted
  <2> QED BY <1>2, <2>2 DEF GrantsOf
<1>3. CASE roleCache[r] \notin DOMAIN opts
  BY <1>3 DEF GrantsOf
<1> QED BY <1>2, <1>3

\* A binding that is for none of the configured ClusterRoles does not matter.
LEMMA WantedKept ==
    ASSUME NEW r \in Roles, UNCHANGED <<opts, roleCache>>,
           \A b \in Bindings : IsDefault(b) => bindCache'[b] = bindCache[b]
    PROVE  Wanted(r)' = Wanted(r)
<1>1. CASE roleCache[r] \in DOMAIN opts
  <2>1. \A b \in Bindings : RoleRef[b] = opts[roleCache[r]] => bindCache'[b] = bindCache[b]
    BY <1>1 DEF IsDefault, SubjectRolesOf
  <2>2. UNION {bindCache'[b] \ Accounts : b \in {c \in Bindings : RoleRef[c] = opts[roleCache[r]]}}
        = UNION {bindCache[b] \ Accounts : b \in {c \in Bindings : RoleRef[c] = opts[roleCache[r]]}}
    BY <2>1
  <2> QED BY <1>1, <2>2 DEF Wanted
<1>2. CASE roleCache[r] \notin DOMAIN opts
  BY <1>2 DEF Wanted
<1> QED BY <1>1, <1>2

\* Steps after which the caches want the same, and what is applied or granted is as
\* before, unless it has an event on its way.
LEMMA RbacKept ==
    ASSUME TypeOK, PlanWanted, GrantWanted,
           UNCHANGED <<opts, bindCache, roleCache, tracked, started, charted, applying, plan>>,
           queued => queued',
           \A r \in Roles \ grantWatch' : r \notin grantWatch /\ granted'[r] = granted[r]
    PROVE  PlanWanted' /\ GrantWanted'
<1>1. \A r \in Roles : Wanted(r)' = Wanted(r)
  BY WantedKept
<1> QED BY <1>1 DEF PlanWanted, GrantWanted, Settled, Only

\* Every step keeps what the informers of bindings, Roles and RoleBindings know.
LEMMA FreshNext ==
    ASSUME TypeOK, RbacFresh, [Next]_vars
    PROVE  RbacFresh'
<1> USE DEF nsVars, rbacVars, rbacInformer, bindInformer, roleInformer, grantInformer, handler
<1>1. CASE LosesLabel \/ Gone \/ NamespaceSeen \/ Resync \/ Hardens
  <2>1. UNCHANGED <<started, binding, role, granted, bindCache, roleCache, grantCache, bindWatch,
                    roleWatch, grantWatch>>
    BY <1>1 DEF LosesLabel, UserRemovesLabel, Gone, NsGoes, NamespaceSeen, SeeNs, Resync,
                Stored, Hardens, Harden, SeeContent
  <2> QED BY <2>1 DEF RbacFresh
<1>2. CASE Deleted
  <2>1. /\ \A r \in Roles \ roleWatch' : r \notin roleWatch /\ role'[r] = role[r]
        /\ \A r \in Roles \ grantWatch' : r \notin grantWatch /\ granted'[r] = granted[r]
    BY <1>2 DEF Deleted, RbacGoes, SetRole, SetGranted, None
  <2>2. UNCHANGED <<started, binding, bindCache, bindWatch, roleCache, grantCache>>
    BY <1>2 DEF Deleted, UserDeletesNs, RbacGoes
  <2> QED BY <2>1, <2>2 DEF RbacFresh
<1>3. CASE Started
  BY <1>3 DEF Started, RbacListed, RbacFresh
<1>4. CASE Restart
  BY <1>4 DEF Restart, NsForgotten, RbacFresh
<1>5. CASE Track \/ NotManaged \/ NeedsNs \/ Grants
  <2>1. UNCHANGED <<started, binding, role, granted, bindCache, roleCache, grantCache, bindWatch,
                    roleWatch, grantWatch>>
    BY <1>5 DEF Track, NotManaged, NeedsNs, Grants, Goes
  <2> QED BY <2>1 DEF RbacFresh
<1>6. CASE Apply
  <2>1. \A r \in Roles \ grantWatch' : r \notin grantWatch /\ granted'[r] = granted[r]
    BY <1>6 DEF Apply, SetGranted
  <2>2. UNCHANGED <<started, binding, role, bindCache, roleCache, grantCache, bindWatch, roleWatch>>
    BY <1>6 DEF Apply
  <2> QED BY <2>1, <2>2 DEF RbacFresh
<1>7. CASE Sees
  <2>1. ASSUME NEW b \in Bindings, SeeBinding(b) PROVE RbacFresh'
    BY <2>1 DEF SeeBinding, RbacFresh, TypeOK, RbacTypeOK
  <2>2. ASSUME NEW r \in Roles, SeeRole(r) PROVE RbacFresh'
    BY <2>2 DEF SeeRole, RbacFresh, TypeOK, RbacTypeOK
  <2>3. ASSUME NEW r \in Roles, SeeGrant(r) PROVE RbacFresh'
    BY <2>3 DEF SeeGrant, RbacFresh, TypeOK, RbacTypeOK
  <2> QED BY <1>7, <2>1, <2>2, <2>3 DEF Sees
<1>8. CASE Users
  <2>1. CASE UNCHANGED rbacVars /\ (KubeCreatesAccount \/ \E o \in Hardening : UserModifies(o))
    BY <2>1 DEF KubeCreatesAccount, UserModifies, RbacFresh
  <2>2. ASSUME NEW b \in Bindings, UserBinds(b) PROVE RbacFresh'
    BY <2>2 DEF UserBinds, RbacFresh, TypeOK, RbacTypeOK
  <2>3. ASSUME NEW r \in Roles, UserChangesRole(r) PROVE RbacFresh'
    BY <2>3 DEF UserChangesRole, SetRole, RbacFresh, TypeOK, RbacTypeOK
  <2>4. ASSUME NEW r \in Roles, UserChangesGrant(r) PROVE RbacFresh'
    BY <2>4 DEF UserChangesGrant, SetGranted, RbacFresh, TypeOK, RbacTypeOK
  <2>5. CASE UserChangesChart
    BY <2>5 DEF UserChangesChart, RbacFresh
  <2>6. CASE HelmInstalls
    <3>1. \A r \in Roles \ roleWatch' : r \notin roleWatch /\ role'[r] = role[r]
      BY <2>6 DEF HelmInstalls, SetRole
    <3> QED BY <2>6, <3>1 DEF HelmInstalls, RbacFresh
  <2> QED BY <1>8, <2>1, <2>2, <2>3, <2>4, <2>5, <2>6 DEF Users
<1>9. CASE UNCHANGED vars
  BY <1>9 DEF vars, RbacFresh
<1> QED BY <1>1, <1>2, <1>3, <1>4, <1>5, <1>6, <1>7, <1>8, <1>9 DEF Next, Binds

\* Every step keeps what is planned and granted within what is wanted.
LEMMA WantedNext ==
    ASSUME TypeOK, RbacFresh, PlanWanted, GrantWanted, [Next]_vars
    PROVE  PlanWanted' /\ GrantWanted'
<1> USE DEF nsVars, rbacVars, rbacInformer, bindInformer, roleInformer, grantInformer, handler
<1>1. CASE LosesLabel \/ Gone \/ NamespaceSeen \/ Hardens
  <2>1. UNCHANGED <<opts, bindCache, roleCache, tracked, charted, applying, plan, granted, grantWatch>>
    BY <1>1 DEF LosesLabel, Gone, NamespaceSeen, Hardens
  <2>2. UNCHANGED started
    BY <1>1 DEF LosesLabel, UserRemovesLabel, Gone, NsGoes, NamespaceSeen, SeeNs, Hardens,
                Harden, SeeContent
  <2>3. queued => queued'
    BY <1>1 DEF LosesLabel, Gone, NamespaceSeen, Hardens
  <2> QED BY <2>1, <2>2, <2>3, RbacKept
<1>2. CASE Deleted
  <2>1. UNCHANGED <<opts, bindCache, roleCache, tracked, started, charted, applying, plan, queued>>
    BY <1>2 DEF Deleted, UserDeletesNs, RbacGoes
  <2>2. \A r \in Roles \ grantWatch' : r \notin grantWatch /\ granted'[r] = granted[r]
    BY <1>2 DEF Deleted, RbacGoes, SetGranted, None
  <2> QED BY <2>1, <2>2, RbacKept
<1>3. CASE Started \/ Resync \/ UserChangesChart \/ \E r \in Roles : SeeGrant(r)
  <2>1. queued'
    BY <1>3 DEF Started, RbacListed, Resync, Stored, UserChangesChart, SeeGrant
  <2> QED BY <2>1 DEF PlanWanted, GrantWanted, Settled
<1>4. CASE Restart
  <2>1. ~started'
    BY <1>4 DEF Restart, NsForgotten
  <2> QED BY <2>1 DEF PlanWanted, GrantWanted, Settled
<1>5. CASE Track
  <2>1. started' => queued'
    BY <1>5 DEF Track
  <2> QED BY <2>1 DEF PlanWanted, GrantWanted, Settled
<1>6. CASE NotManaged
  <2>1. ~tracked'
    BY <1>6 DEF NotManaged, Goes
  <2> QED BY <2>1 DEF PlanWanted, GrantWanted, Settled
<1>7. CASE NeedsNs
  <2>1. applying' /\ \A r \in Roles : plan'.grants[r] = {}
    BY <1>7 DEF NeedsNs, Goes, Nothing, None
  <2> QED BY <2>1 DEF PlanWanted, GrantWanted, Settled, Only
<1>8. CASE Grants
  <2>1. PICK pick \in Picks : Goes([ns |-> TRUE, unable |-> FALSE, grants |-> GrantsOf(pick)])
    BY <1>8 DEF Grants
  <2>2. applying' /\ plan'.grants = GrantsOf(pick) /\ UNCHANGED <<opts, bindCache, roleCache>>
    BY <2>1 DEF Goes
  <2>3. \A r \in Roles : Wanted(r)' = Wanted(r)
    BY <2>2, WantedKept
  <2>4. \A r \in Roles : plan'.grants[r] \subseteq Wanted(r)'
    BY <2>2, <2>3, GrantsAreWanted
  <2> QED BY <2>2, <2>4 DEF PlanWanted, GrantWanted, Settled, Only
<1>9. CASE Apply
  <2>1. PICK done \in SUBSET {r \in Differing : Writable(r)} :
           /\ SetGranted([r \in Roles |-> IF r \in done THEN plan.grants[r] ELSE granted[r]])
           /\ queued' = (queued \/ (plan.ns /\ NsMissing) \/ done # Differing \/ unable' # unable)
    BY <1>9 DEF Apply
  <2>2. /\ UNCHANGED <<opts, bindCache, roleCache, grantCache, tracked, started, charted>>
        /\ applying /\ ~applying'
    BY <1>9 DEF Apply
  <2>3. \A r \in Roles : Wanted(r)' = Wanted(r)
    BY <2>2, WantedKept
  <2>4. ASSUME Settled', NEW r \in Roles \ grantWatch' PROVE Only(r, granted[r])'
    <3>1. Only(r, plan.grants[r]) /\ done = Differing
      BY <2>1, <2>2, <2>4 DEF Settled, PlanWanted
    <3>2. r \notin grantWatch /\ granted'[r] = granted[r]
      BY <2>1, <2>4 DEF SetGranted
    <3>3. granted'[r] = plan.grants[r]
      BY <2>1, <2>2, <2>4, <3>1, <3>2 DEF Differing, SetGranted, RbacFresh, Settled
    <3> QED BY <2>2, <2>3, <3>1, <3>3 DEF Only
  <2> QED BY <2>2, <2>4 DEF PlanWanted, GrantWanted
<1>10. ASSUME NEW b \in Bindings, SeeBinding(b) PROVE PlanWanted' /\ GrantWanted'
  <2>1. CASE ResolvesBinding(b)
    <3>1. queued'
      BY <1>10, <2>1 DEF SeeBinding
    <3> QED BY <3>1 DEF PlanWanted, GrantWanted, Settled
  <2>2. CASE ~ResolvesBinding(b)
    <3>1. UNCHANGED <<opts, roleCache, tracked, started, charted, applying, plan, granted,
                      grantWatch>> /\ (queued => queued')
          /\ \A c \in Bindings \ {b} : bindCache'[c] = bindCache[c]
      BY <1>10 DEF SeeBinding, TypeOK, RbacTypeOK
    <3>2. tracked => ~IsDefault(b)
      BY <2>2 DEF ResolvesBinding
    <3>3. ASSUME tracked, NEW r \in Roles PROVE Wanted(r)' = Wanted(r)
      BY <3>1, <3>2, <3>3, WantedKept
    <3> QED BY <3>1, <3>3 DEF PlanWanted, GrantWanted, Settled, Only
  <2> QED BY <2>1, <2>2
<1>11. ASSUME NEW r \in Roles, SeeRole(r) PROVE PlanWanted' /\ GrantWanted'
  <2>1. UNCHANGED <<opts, bindCache, tracked, started, charted, applying, plan, granted, grantWatch>>
        /\ queued' = (queued \/ ResolvesRole(r))
        /\ roleCache'[r] = role[r] /\ \A q \in Roles \ {r} : roleCache'[q] = roleCache[q]
    BY <1>11 DEF SeeRole, TypeOK, RbacTypeOK
  <2>2. ASSUME Settled' PROVE Settled /\ role[r] \in {"absent", "unlabelled"}
    BY <2>1, <2>2 DEF Settled, ResolvesRole
  <2>3. \A q \in Roles \ {r} : Wanted(q)' = Wanted(q)
    BY <2>1 DEF Wanted
  <2> QED BY <2>1, <2>2, <2>3 DEF PlanWanted, GrantWanted, Only
<1>12. CASE Users /\ ~UserChangesChart
  <2>1. UNCHANGED <<opts, bindCache, roleCache, tracked, started, charted, applying, plan, queued>>
    BY <1>12 DEF Users, KubeCreatesAccount, UserModifies, UserBinds, UserChangesRole,
                 UserChangesGrant, HelmInstalls
  <2>2. \A r \in Roles \ grantWatch' : r \notin grantWatch /\ granted'[r] = granted[r]
    BY <1>12 DEF Users, UserBinds, UserChangesRole, UserChangesGrant, HelmInstalls, SetGranted,
                 TypeOK, RbacTypeOK
  <2> QED BY <2>1, <2>2, RbacKept
<1>13. CASE UNCHANGED vars
  BY <1>13, RbacKept DEF vars
<1> QED BY <1>1, <1>2, <1>3, <1>4, <1>5, <1>6, <1>7, <1>8, <1>9, <1>10, <1>11, <1>12, <1>13
        DEF Next, Binds, Sees

\* At the start the informers know all, and only who is wanted was granted anything.
LEMMA RbacFirst == Init => RbacFresh /\ PlanWanted /\ GrantWanted
<1> SUFFICES ASSUME Init PROVE RbacFresh /\ PlanWanted /\ GrantWanted
  OBVIOUS
<1>1. TypeOK /\ RbacInit
  BY InitType DEF Init
<1>2. ASSUME NEW r \in Roles PROVE granted[r] \subseteq Wanted(r)
  BY <1>1, GrantsAreWanted DEF RbacInit
<1> QED BY <1>1, <1>2 DEF RbacInit, RbacFresh, PlanWanted, GrantWanted, Only

\* Whoever is bound to a Role of the release at rest is bound to the ClusterRole it
\* aggregates from, whatever the options are and in whatever order the bindings, the
\* Roles and the RoleBindings have changed (resources.go:84-113, resolvers.go:85-244).
THEOREM Revoked == Spec => []RevokedAtRest
<1> DEFINE I == TypeOK /\ RbacFresh /\ PlanWanted /\ GrantWanted
<1>1. Init => I
  BY InitType, RbacFirst
<1>2. I /\ [Next]_vars => I'
  BY NextType, FreshNext, WantedNext
<1>3. I => RevokedAtRest
  <2> SUFFICES ASSUME I, Quiet, charted, NEW r \in Roles, Labelled(r)
               PROVE  granted[r] \subseteq Entitled(r)
    BY DEF RevokedAtRest
  <2>1. /\ \A b \in Bindings : bindCache[b] = binding[b]
        /\ roleCache[r] = role[r]
    BY DEF Quiet, RbacFresh
  <2>2. granted[r] \subseteq Wanted(r)
    BY <2>1 DEF Quiet, GrantWanted, Settled, Only, Labelled
  <2>3. \A b \in {c \in Bindings : RoleRef[c] = opts[role[r]]} : bindCache[b] = binding[b]
    BY <2>1
  <2> QED BY <2>1, <2>2, <2>3 DEF Wanted, Entitled
<1> QED BY <1>1, <1>2, <1>3, PTL DEF Spec
=============================================================================
