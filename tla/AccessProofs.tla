------------------------------ MODULE AccessProofs ------------------------------
(***************************************************************************)
(* Theorems about Access for every set of users, requests, workspaces,     *)
(* projects and groups, all roles and every bound.                         *)
(***************************************************************************)
EXTENDS Access, TLAPS

LEMMA WorkspacesPositive ==
    /\ First \in Workspaces /\ 0 \notin Workspaces
    /\ \A w \in Workspaces : w \in Nat /\ w > 0
BY WorkspaceAssumption DEF First

LEMMA NoProjectApart == NoProject \notin Projects
BY AccountAssumption

LEMMA MaxWritesNat == MaxWrites \in Nat
BY AccountAssumption

\* The roles that forms and migrations store are roles.
LEMMA RoleTypes ==
    /\ \A r : organizationRoleFromLegacy(r) \in OrgRoles
    /\ \A r : workspaceRoleFromLegacy(r) \in WorkspaceRoles
    /\ \A r : NormalRole(r) \in WorkspaceRoles
BY DEF organizationRoleFromLegacy, workspaceRoleFromLegacy, NormalRole, OrgRoles, WorkspaceRoles

LEMMA NoRequestType == NoRequest \in Request
BY DEF NoRequest, Request, OrgRoles, WorkspaceRoles, ProjectRoles

\* What a form of the catalogue stores is a row of a workspace.
LEMMA RowTypes ==
    ASSUME NEW a \in Request
    PROVE  /\ StoredIn(a) \in Workspaces
           /\ \A c \in Customers, private \in BOOLEAN :
                [ws |-> StoredIn(a), customer |-> c, private |-> private] \in ProjectRow
           /\ \A x \in Projects \cup {NoProject} : [ws |-> StoredIn(a), project |-> x] \in WorkRow
<1>1. StoredIn(a) \in Workspaces
  BY WorkspacesPositive DEF StoredIn, Request
<1> QED
  BY <1>1 DEF ProjectRow, WorkRow

\* What the second statement of AccessForUserWorkspace returns: a workspace with the role
\* the user has there, the first one for an administrator of the organization, or none.
LEMMA WorkspaceRead ==
    ASSUME TypeOK, NEW u \in Users, NEW asked, NEW o
    PROVE  \/ \E w \in Workspaces :
                /\ WorkspaceOf(u, asked, o) = [ws |-> w, role |-> member[w][u]]
                /\ OrgAdmin(o) \/ member[w][u] # "none"
           \/ OrgAdmin(o) /\ WorkspaceOf(u, asked, o) = [ws |-> First, role |-> "admin"]
           \/ ~OrgAdmin(o) /\ WorkspaceOf(u, asked, o) = [ws |-> 0, role |-> "none"]
<1>1. \A w \in AskedOrOwn(u, asked, o) : w \in Workspaces /\ (OrgAdmin(o) \/ member[w][u] # "none")
  BY DEF AskedOrOwn, Lowest, MemberOf
<1>2. CASE AskedOrOwn(u, asked, o) # {}
  <2> DEFINE w == CHOOSE w \in AskedOrOwn(u, asked, o) : TRUE
  <2>1. w \in AskedOrOwn(u, asked, o)
    BY <1>2
  <2>2. WorkspaceOf(u, asked, o) = [ws |-> w, role |-> member[w][u]]
    BY <1>2 DEF WorkspaceOf
  <2> HIDE DEF w
  <2> QED
    BY <1>1, <2>1, <2>2
<1>3. CASE AskedOrOwn(u, asked, o) = {}
  BY <1>3 DEF WorkspaceOf
<1> QED
  BY <1>2, <1>3

LEMMA WorkspaceFields ==
    ASSUME TypeOK, NEW u \in Users, NEW asked, NEW o
    PROVE  LET r == WorkspaceOf(u, asked, o)
           IN  \/ \E w \in Workspaces : /\ r.ws = w /\ r.role = member[w][u]
                                        /\ OrgAdmin(o) \/ member[w][u] # "none"
               \/ OrgAdmin(o) /\ r.ws = First /\ r.role = "admin"
               \/ ~OrgAdmin(o) /\ r.ws = 0 /\ r.role = "none"
<1> DEFINE r == WorkspaceOf(u, asked, o)
<1>1. ASSUME NEW w \in Workspaces, NEW m, r = [ws |-> w, role |-> m]
      PROVE  r.ws = w /\ r.role = m
  BY <1>1
<1>2. CASE OrgAdmin(o) /\ r = [ws |-> First, role |-> "admin"]
  BY <1>2
<1>3. CASE ~OrgAdmin(o) /\ r = [ws |-> 0, role |-> "none"]
  BY <1>3
<1> HIDE DEF r
<1>4. CASE \E w \in Workspaces : /\ r = [ws |-> w, role |-> member[w][u]]
                                 /\ OrgAdmin(o) \/ member[w][u] # "none"
  <2>1. PICK w \in Workspaces : /\ r = [ws |-> w, role |-> member[w][u]]
                                /\ OrgAdmin(o) \/ member[w][u] # "none"
    BY <1>4
  <2>2. r.ws = w /\ r.role = member[w][u]
    BY <2>1, <1>1
  <2> QED
    BY <2>1, <2>2 DEF r
<1> QED
  BY <1>2, <1>3, <1>4, WorkspaceRead DEF r

LEMMA WorkspaceReadType ==
    ASSUME TypeOK, NEW u \in Users, NEW asked, NEW o
    PROVE  /\ WorkspaceOf(u, asked, o).ws \in Workspaces \cup {0}
           /\ WorkspaceOf(u, asked, o).role \in WorkspaceRoles
<1>1. \A w \in Workspaces : member[w][u] \in WorkspaceRoles
  BY DEF TypeOK
<1>2. ASSUME NEW w \in Workspaces, WorkspaceOf(u, asked, o) = [ws |-> w, role |-> member[w][u]]
      PROVE  /\ WorkspaceOf(u, asked, o).ws \in Workspaces \cup {0}
             /\ WorkspaceOf(u, asked, o).role \in WorkspaceRoles
  BY <1>1, <1>2
<1>3. CASE WorkspaceOf(u, asked, o) = [ws |-> First, role |-> "admin"]
  BY <1>3, WorkspacesPositive DEF WorkspaceRoles
<1>4. CASE WorkspaceOf(u, asked, o) = [ws |-> 0, role |-> "none"]
  <2>1. WorkspaceOf(u, asked, o).ws = 0
    BY <1>4
  <2>2. WorkspaceOf(u, asked, o).role = "none"
    BY <1>4
  <2> QED
    BY <2>1, <2>2 DEF WorkspaceRoles
<1> QED
  BY <1>2, <1>3, <1>4, WorkspaceRead

-----------------------------------------------------------------------------
(* Type correctness.                                                       *)

\* A request that is in progress is one of a user (sessionMiddleware).
Served == \A p \in Handlers : pc[p] # "idle" => req[p].user \in Users

LEMMA FinishType ==
    ASSUME TypeOK, NEW p \in Handlers, Finish(p)
    PROVE  /\ pc' \in [Handlers -> Stages] /\ req' \in [Handlers -> Request]
           /\ \A q \in Handlers : pc'[q] = IF q = p THEN "idle" ELSE pc[q]
           /\ \A q \in Handlers : q # p => req'[q] = req[q]
BY NoRequestType DEF Finish, Goto, TypeOK, Stages, Reading

LEMMA GotoType ==
    ASSUME TypeOK, NEW p \in Handlers, NEW stage \in Stages, Goto(p, stage)
    PROVE  /\ pc' \in [Handlers -> Stages]
           /\ \A q \in Handlers : pc'[q] = IF q = p THEN stage ELSE pc[q]
BY DEF Goto, TypeOK

LEMMA StageNames == {"idle", "organization", "workspace", "projects", "groups", "ready",
                     "switch", "check", "add", "save"} = Stages
BY DEF Stages, Reading

LEMMA TypeInit == Init => TypeOK /\ Served
<1> SUFFICES ASSUME Init PROVE TypeOK /\ Served
  OBVIOUS
<1>1. member \in [Workspaces -> [Users -> WorkspaceRoles]]
  BY RoleTypes DEF Init, WorkspaceRoles
<1>2. session \in [Users -> Workspaces \cup {0}]
  BY WorkspacesPositive DEF Init
<1>3. /\ org \in [Users -> OrgRoles] /\ grouped \in [Groups -> SUBSET Users]
      /\ projectRole \in [Projects -> [Users -> ProjectRoles]]
  BY RoleTypes, AccountAssumption DEF Init, ProjectRoles
<1>4. pc \in [Handlers -> Stages] /\ req \in [Handlers -> Request] /\ Served
  BY NoRequestType, StageNames DEF Init, Served
<1>5. invited \subseteq Workspaces \X Users
  <2>1. invited = {<<w, Owner>> : w \in Workspaces \ {First}} /\ Owner \in Users
    BY AccountAssumption DEF Init
  <2> QED
    BY <2>1
<1>6. role \in [Users -> LegacyRoles \cup {"none"}]
  BY AccountAssumption DEF Init
<1>7. archived \subseteq Workspaces
  BY DEF Init
<1>8. /\ projectGroups \in [Projects -> SUBSET Groups] /\ project \in [Projects -> ProjectRow]
      /\ customerWorkspace \in [Customers -> Workspaces] /\ work \in [Work -> WorkRow]
  BY CatalogueAssumption DEF Init
<1>9. writes \in 0..MaxWrites
  <2>1. writes = 0
    BY DEF Init
  <2> QED
    BY <2>1, MaxWritesNat
<1> QED
  BY <1>1, <1>2, <1>3, <1>4, <1>5, <1>6, <1>7, <1>8, <1>9 DEF TypeOK

LEMMA WritesType ==
    ASSUME TypeOK, Writing \/ NotWriting
    PROVE  writes' \in 0..MaxWrites
BY MaxWritesNat DEF TypeOK, Writing, NotWriting

\* Every step of a request keeps the types and the user of the request.
LEMMA TypeSession ==
    ASSUME TypeOK, Served, NEW u \in Users, CreateSession(u) \/ DeleteSession(u)
    PROVE  TypeOK' /\ Served'
<1>1. session' \in [Users -> Workspaces \cup {0}]
  <2>1. CASE DeleteSession(u)
    BY <2>1 DEF DeleteSession, TypeOK
  <2>2. CASE CreateSession(u)
    BY <2>2, WorkspacesPositive DEF CreateSession, DefaultWorkspace, Lowest, MemberOf, TypeOK
  <2> QED
    BY <2>1, <2>2
<1> QED
  BY <1>1, WritesType DEF CreateSession, DeleteSession, TypeOK, Served, accounts, teams, catalogue

\* The statements that only read: a stage and a record of the request.
LEMMA TypeRead ==
    ASSUME TypeOK, Served, NEW p \in Handlers, NEW stage \in Stages, NEW r \in Request,
           r.user \in Users, Goto(p, stage), req' = [req EXCEPT ![p] = r],
           NotWriting, UNCHANGED session
    PROVE  TypeOK' /\ Served'
<1>1. pc' \in [Handlers -> Stages] /\ \A q \in Handlers : pc'[q] = IF q = p THEN stage ELSE pc[q]
  BY GotoType
<1>2. req' \in [Handlers -> Request] /\ \A q \in Handlers : req'[q] = IF q = p THEN r ELSE req[q]
  BY DEF TypeOK
<1>3. Served'
  BY <1>1, <1>2 DEF Served
<1> QED
  BY <1>1, <1>2, <1>3 DEF NotWriting, accounts, teams, catalogue, TypeOK

\* The four statements that read an access, and how a form begins.
LEMMA TypeReads ==
    ASSUME TypeOK, Served, NEW p \in Handlers,
           \/ ReadOrganization(p) \/ ReadWorkspace(p)
           \/ ReadProjectMembers(p) \/ ReadProjectGroups(p)
    PROVE  TypeOK' /\ Served'
<1> DEFINE u == req[p].user
<1>1. req[p] \in Request /\ (pc[p] # "idle" => u \in Users)
  BY DEF TypeOK, Served
<1>2. CASE ReadOrganization(p)
  <2> DEFINE r == [req[p] EXCEPT !.org = org[u]]
  <2>1. r \in Request /\ r.user \in Users
    BY <1>1, <1>2 DEF ReadOrganization, Request, TypeOK
  <2>2. req' = [req EXCEPT ![p] = r] /\ Goto(p, "workspace") /\ NotWriting /\ UNCHANGED session
    BY <1>2 DEF ReadOrganization, TypeOK
  <2> QED
    BY <2>1, <2>2, TypeRead, StageNames
<1>3. CASE ReadWorkspace(p)
  <2> DEFINE w == WorkspaceOf(u, req[p].to, req[p].org)
             r == [req[p] EXCEPT !.ws = w.ws, !.role = w.role, !.to = 0]
  <2>1. u \in Users
    BY <1>1, <1>3 DEF ReadWorkspace
  <2>2. w.ws \in Workspaces \cup {0} /\ w.role \in WorkspaceRoles
    BY <2>1, WorkspaceReadType
  <2>3. r \in Request /\ r.user \in Users
    BY <1>1, <2>1, <2>2 DEF Request
  <2>4. req' = [req EXCEPT ![p] = r] /\ Goto(p, "projects") /\ NotWriting /\ UNCHANGED session
    BY <1>3 DEF ReadWorkspace, TypeOK
  <2> QED
    BY <2>3, <2>4, TypeRead, StageNames
<1>4. CASE ReadProjectMembers(p)
  <2> DEFINE r == [req[p] EXCEPT !.managed = ManagedBy(u, req[p].ws), !.members = MembersOf(u, req[p].ws)]
  <2>1. r \in Request /\ r.user \in Users
    BY <1>1, <1>4 DEF ReadProjectMembers, Request, ManagedBy, MembersOf
  <2>2. req' = [req EXCEPT ![p] = r] /\ Goto(p, "groups") /\ NotWriting /\ UNCHANGED session
    BY <1>4 DEF ReadProjectMembers, TypeOK
  <2> QED
    BY <2>1, <2>2, TypeRead, StageNames
<1>5. CASE ReadProjectGroups(p)
  <2> DEFINE r == [req[p] EXCEPT !.members = @ \cup GroupedInto(u, req[p].ws)]
  <2>1. r \in Request /\ r.user \in Users
    BY <1>1, <1>5 DEF ReadProjectGroups, Request, GroupedInto
  <2>2. req' = [req EXCEPT ![p] = r] /\ Goto(p, "ready") /\ NotWriting /\ UNCHANGED session
    BY <1>5 DEF ReadProjectGroups, TypeOK
  <2> QED
    BY <2>1, <2>2, TypeRead, StageNames
<1> QED
  BY <1>2, <1>3, <1>4, <1>5

\* The steps of forms that change only the request.
LEMMA TypeForms ==
    ASSUME TypeOK, Served, NEW p \in Handlers,
           \/ \E g \in Groups, us \in SUBSET Accounts \ {{}} : BeginGroupMembers(p, g, us)
           \/ \E x \in Projects, us \in SUBSET Accounts \ {{}}, r \in ProjectRoles \ {"none"} :
                 BeginProjectMembers(p, x, us, r)
           \/ \E x \in Projects, gs \in SUBSET Groups \ {{}} : BeginProjectMembers(p, x, gs, "none")
           \/ \E w \in Workspaces : UserCanAccessWorkspace(p, w)
           \/ \E x \in Projects, c \in Customers, private \in BOOLEAN : BeginSaveProject(p, x, c, private)
           \/ \E y \in Work, x \in Projects \cup {NoProject} : BeginSaveWork(p, y, x)
    PROVE  TypeOK' /\ Served'
<1>1. req[p] \in Request /\ (pc[p] # "idle" => req[p].user \in Users)
  BY DEF TypeOK, Served
<1>2. ASSUME NEW g \in Groups, NEW us \in SUBSET Accounts, BeginGroupMembers(p, g, us)
      PROVE  TypeOK' /\ Served'
  <2> DEFINE r == [req[p] EXCEPT !.rest = us, !.target = g]
  <2>1. r \in Request /\ r.user \in Users
    BY <1>1, <1>2 DEF BeginGroupMembers, Request, Accounts
  <2>2. req' = [req EXCEPT ![p] = r] /\ Goto(p, "check") /\ NotWriting /\ UNCHANGED session
    BY <1>2 DEF BeginGroupMembers, TypeOK
  <2> QED
    BY <2>1, <2>2, TypeRead, StageNames
<1>3. ASSUME NEW x \in Projects, NEW who \in SUBSET (Users \cup Groups), NEW as \in ProjectRoles,
             BeginProjectMembers(p, x, who, as)
      PROVE  TypeOK' /\ Served'
  <2> DEFINE r == [req[p] EXCEPT !.rest = who, !.target = x, !.as = as]
  <2>1. r \in Request /\ r.user \in Users
    BY <1>1, <1>3 DEF BeginProjectMembers, Request
  <2>2. req' = [req EXCEPT ![p] = r] /\ Goto(p, "check") /\ NotWriting /\ UNCHANGED session
    BY <1>3 DEF BeginProjectMembers, TypeOK
  <2> QED
    BY <2>1, <2>2, TypeRead, StageNames
<1>4. ASSUME NEW w \in Workspaces, UserCanAccessWorkspace(p, w)
      PROVE  TypeOK' /\ Served'
  <2> DEFINE r == [req[p] EXCEPT !.to = w]
  <2>1. r \in Request /\ r.user \in Users
    BY <1>1, <1>4 DEF UserCanAccessWorkspace, Request
  <2>2. req' = [req EXCEPT ![p] = r] /\ Goto(p, "switch") /\ NotWriting /\ UNCHANGED session
    BY <1>4 DEF UserCanAccessWorkspace, TypeOK
  <2> QED
    BY <2>1, <2>2, TypeRead, StageNames
<1>5. "none" \in ProjectRoles
  BY DEF ProjectRoles
<1>6. Accounts \subseteq Users
  BY DEF Accounts
<1>7. ASSUME NEW x \in Projects, NEW c \in Customers, NEW private \in BOOLEAN,
             BeginSaveProject(p, x, c, private)
      PROVE  TypeOK' /\ Served'
  <2> DEFINE row == [ws |-> StoredIn(req[p]), customer |-> c, private |-> private]
             r == [req[p] EXCEPT !.target = x, !.row = row]
  <2>1. row \in ProjectRow
    BY <1>1, RowTypes
  <2>2. req' = [req EXCEPT ![p] = r] /\ Goto(p, "save") /\ NotWriting /\ UNCHANGED session
    BY <1>7 DEF BeginSaveProject, TypeOK
  <2>3. r.user = req[p].user /\ req[p].user \in Users
    BY <1>1, <1>7 DEF BeginSaveProject, Request
  <2> HIDE DEF row
  <2>4. r \in Request
    BY <1>1, <2>1 DEF Request
  <2> QED
    BY <2>2, <2>3, <2>4, TypeRead, StageNames
<1>8. ASSUME NEW y \in Work, NEW x \in Projects \cup {NoProject}, BeginSaveWork(p, y, x)
      PROVE  TypeOK' /\ Served'
  <2> DEFINE row == [ws |-> StoredIn(req[p]), project |-> x]
             r == [req[p] EXCEPT !.target = y, !.row = row]
  <2>1. row \in WorkRow
    BY <1>1, RowTypes
  <2>2. req' = [req EXCEPT ![p] = r] /\ Goto(p, "save") /\ NotWriting /\ UNCHANGED session
    BY <1>8 DEF BeginSaveWork, TypeOK
  <2>3. r.user = req[p].user /\ req[p].user \in Users
    BY <1>1, <1>8 DEF BeginSaveWork, Request
  <2> HIDE DEF row
  <2>4. r \in Request
    BY <1>1, <2>1 DEF Request
  <2> QED
    BY <2>2, <2>3, <2>4, TypeRead, StageNames
<1> QED
  BY <1>2, <1>3, <1>4, <1>5, <1>6, <1>7, <1>8

LEMMA FinishServed ==
    ASSUME TypeOK, Served, NEW p \in Handlers, Finish(p)
    PROVE  Served'
<1>1. \A q \in Handlers : q # p => pc'[q] = pc[q] /\ req'[q] = req[q]
  BY FinishType
<1>2. pc'[p] = "idle"
  BY FinishType
<1> QED
  BY <1>1, <1>2 DEF Served

\* The forms of administrators: the tables of accounts and members.
LEMMA TypeAdministration ==
    ASSUME TypeOK, Served, NEW p \in Handlers,
           \/ Answer(p)
           \/ \E u \in Users, r \in FormRoles : CreateUser(p, u, r) \/ UpdateUser(p, u, r)
           \/ \E w \in Workspaces, archive \in BOOLEAN : SaveWorkspace(p, w, archive)
           \/ \E w \in Workspaces, u \in Users, r \in FormMemberRoles : SetWorkspaceMember(p, w, u, r)
           \/ \E w \in Workspaces, u \in Users : RemoveWorkspaceMember(p, w, u)
    PROVE  TypeOK' /\ Served'
<1> USE DEF accounts, teams, catalogue
<1>1. CASE Answer(p)
  <2>1. Finish(p) /\ NotWriting /\ UNCHANGED session
    BY <1>1 DEF Answer
  <2> QED
    BY <2>1, FinishType, FinishServed DEF NotWriting, TypeOK
<1>2. ASSUME NEW u \in Users, NEW r \in FormRoles, CreateUser(p, u, r)
      PROVE  TypeOK' /\ Served'
  <2>1. role' \in [Users -> LegacyRoles \cup {"none"}]
    BY <1>2, AccountAssumption DEF CreateUser, NewAccount, TypeOK
  <2>2. org' \in [Users -> OrgRoles]
    BY <1>2, RoleTypes DEF CreateUser, NewAccount, TypeOK
  <2>3. member' \in [Workspaces -> [Users -> WorkspaceRoles]]
    BY <1>2, RoleTypes DEF CreateUser, NewAccount, TypeOK
  <2>4. Finish(p) /\ Writing /\ UNCHANGED <<archived, invited, teams, session>>
    BY <1>2 DEF CreateUser
  <2> QED
    BY <2>1, <2>2, <2>3, <2>4, FinishType, FinishServed, WritesType DEF TypeOK
<1>3. ASSUME NEW u \in Users, NEW r \in FormRoles, UpdateUser(p, u, r)
      PROVE  TypeOK' /\ Served'
  <2>1. role' \in [Users -> LegacyRoles \cup {"none"}]
    BY <1>3, AccountAssumption DEF UpdateUser, ChangedAccount, TypeOK
  <2>2. org' \in [Users -> OrgRoles]
    BY <1>3, RoleTypes DEF UpdateUser, ChangedAccount, OrgRow, TypeOK
  <2>3. \A w \in Workspaces : [member[w] EXCEPT ![u] = workspaceRoleFromLegacy(r)] \in [Users -> WorkspaceRoles]
    BY RoleTypes DEF TypeOK
  <2>4. member' \in [Workspaces -> [Users -> WorkspaceRoles]]
    BY <1>3, <2>3 DEF UpdateUser, ChangedAccount, TypeOK
  <2>5. Finish(p) /\ Writing /\ UNCHANGED <<archived, invited, teams, session>>
    BY <1>3 DEF UpdateUser
  <2> QED
    BY <2>1, <2>2, <2>4, <2>5, FinishType, FinishServed, WritesType DEF TypeOK
<1>4. ASSUME NEW w \in Workspaces, NEW archive \in BOOLEAN, SaveWorkspace(p, w, archive)
      PROVE  TypeOK' /\ Served'
  <2>1. archived' \subseteq Workspaces
    BY <1>4 DEF SaveWorkspace, UpsertWorkspace, TypeOK
  <2>2. pc[p] = "ready" /\ req[p].user \in Users
    BY <1>4 DEF SaveWorkspace, Served
  <2>3. member' \in [Workspaces -> [Users -> WorkspaceRoles]]
    <3>1. member \in [Workspaces -> [Users -> WorkspaceRoles]] /\ "admin" \in WorkspaceRoles
      BY DEF TypeOK, WorkspaceRoles
    <3>2. member' = member \/ member' = [member EXCEPT ![w][req[p].user] = "admin"]
      BY <1>4 DEF SaveWorkspace
    <3> QED
      BY <3>1, <3>2
  <2>4. invited' \subseteq Workspaces \X Users
    BY <1>4, <2>2 DEF SaveWorkspace, TypeOK
  <2>5. Finish(p) /\ Writing /\ UNCHANGED <<role, org, teams, session>>
    BY <1>4 DEF SaveWorkspace
  <2> QED
    BY <2>1, <2>3, <2>4, <2>5, FinishType, FinishServed, WritesType DEF TypeOK
<1>5. ASSUME NEW w \in Workspaces, NEW u \in Users, NEW r \in FormMemberRoles, SetWorkspaceMember(p, w, u, r)
      PROVE  TypeOK' /\ Served'
  <2>1. member' \in [Workspaces -> [Users -> WorkspaceRoles]]
    BY <1>5, RoleTypes DEF SetWorkspaceMember, TypeOK
  <2>2. invited' \subseteq Workspaces \X Users
    BY <1>5 DEF SetWorkspaceMember, TypeOK
  <2>3. Finish(p) /\ Writing /\ UNCHANGED <<role, org, archived, teams, session>>
    BY <1>5 DEF SetWorkspaceMember
  <2> QED
    BY <2>1, <2>2, <2>3, FinishType, FinishServed, WritesType DEF TypeOK
<1>6. ASSUME NEW w \in Workspaces, NEW u \in Users, RemoveWorkspaceMember(p, w, u)
      PROVE  TypeOK' /\ Served'
  <2>1. member' \in [Workspaces -> [Users -> WorkspaceRoles]]
    BY <1>6 DEF RemoveWorkspaceMember, TypeOK, WorkspaceRoles
  <2>2. invited' \subseteq Workspaces \X Users
    BY <1>6 DEF RemoveWorkspaceMember, TypeOK
  <2>3. Finish(p) /\ Writing /\ UNCHANGED <<role, org, archived, teams, session>>
    BY <1>6 DEF RemoveWorkspaceMember
  <2> QED
    BY <2>1, <2>2, <2>3, FinishType, FinishServed, WritesType DEF TypeOK
<1> QED
  BY <1>1, <1>2, <1>3, <1>4, <1>5, <1>6

\* The forms of groups and projects.
LEMMA TypeTeams ==
    ASSUME TypeOK, Served, NEW p \in Handlers,
           \/ Check(p) \/ Add(p)
           \/ \E g \in Groups, u \in Users : RemoveUserFromGroup(p, g, u)
           \/ \E x \in Projects, u \in Users : RemoveProjectMember(p, x, u)
           \/ \E x \in Projects, g \in Groups : RemoveGroupFromProject(p, x, g)
    PROVE  TypeOK' /\ Served'
<1> USE DEF accounts, teams, catalogue
<1>1. req[p] \in Request /\ (pc[p] # "idle" => req[p].user \in Users)
  BY DEF TypeOK, Served
<1>2. CASE Check(p)
  <2>1. PICK one \in req[p].rest :
          IF InWorkspace(one, req[p].ws)
          THEN Goto(p, "add") /\ req' = [req EXCEPT ![p].one = one]
          ELSE Finish(p)
    BY <1>2 DEF Check
  <2>2. NotWriting /\ UNCHANGED session
    BY <1>2 DEF Check
  <2>3. CASE InWorkspace(one, req[p].ws)
    <3> DEFINE r == [req[p] EXCEPT !.one = one]
    <3>1. r \in Request /\ r.user \in Users
      BY <1>1, <1>2, <2>1 DEF Check, Request
    <3>2. req' = [req EXCEPT ![p] = r] /\ Goto(p, "add")
      BY <2>1, <2>3 DEF TypeOK
    <3> QED
      BY <2>2, <3>1, <3>2, TypeRead, StageNames
  <2>4. CASE ~InWorkspace(one, req[p].ws)
    BY <2>1, <2>2, <2>4, FinishType, FinishServed DEF NotWriting, TypeOK
  <2> QED
    BY <2>3, <2>4
<1>3. CASE Add(p)
  <2>1. /\ grouped' \in [Groups -> SUBSET Users]
        /\ projectRole' \in [Projects -> [Users -> ProjectRoles]]
        /\ projectGroups' \in [Projects -> SUBSET Groups]
        /\ UNCHANGED catalogue
    <3>1. CASE AddUserToGroup(p)
      BY <3>1 DEF AddUserToGroup, TypeOK
    <3>2. CASE AddGroupToProject(p)
      BY <3>2 DEF AddGroupToProject, TypeOK
    <3>3. CASE AddProjectMember(p)
      <4>1. req[p].as \in ProjectRoles
        BY <1>1 DEF Request
      <4> QED
        BY <3>3, <4>1 DEF AddProjectMember, TypeOK
    <3> QED
      BY <1>3, <3>1, <3>2, <3>3 DEF Add
  <2> DEFINE left == req[p].rest \ {req[p].one}
             r == [req[p] EXCEPT !.rest = left, !.one = NoUser]
  <2>2. pc' \in [Handlers -> Stages] /\ req' \in [Handlers -> Request] /\ Served'
    <3>1. CASE Finish(p)
      BY <3>1, FinishType, FinishServed
    <3>2. CASE Goto(p, "check") /\ req' = [req EXCEPT ![p].rest = left, ![p].one = NoUser]
      <4>1. r \in Request /\ r.user \in Users
        BY <1>1, <1>3 DEF Add, Request
      <4>2. req' = [req EXCEPT ![p] = r]
        BY <3>2 DEF TypeOK
      <4>3. /\ pc' \in [Handlers -> Stages]
            /\ \A q \in Handlers : pc'[q] = IF q = p THEN "check" ELSE pc[q]
        BY <3>2, GotoType, StageNames
      <4>4. req' \in [Handlers -> Request] /\ \A q \in Handlers : req'[q] = IF q = p THEN r ELSE req[q]
        BY <4>1, <4>2 DEF TypeOK
      <4> QED
        BY <4>1, <4>3, <4>4 DEF Served
    <3> QED
      BY <1>3, <3>1, <3>2 DEF Add
  <2>3. Writing /\ UNCHANGED <<accounts, session>>
    BY <1>3 DEF Add
  <2> QED
    BY <2>1, <2>2, <2>3, WritesType DEF TypeOK
<1>4. ASSUME NEW g \in Groups, NEW u \in Users, RemoveUserFromGroup(p, g, u)
      PROVE  TypeOK' /\ Served'
  <2>1. grouped' \in [Groups -> SUBSET Users]
    BY <1>4 DEF RemoveUserFromGroup, TypeOK
  <2> QED
    BY <1>4, <2>1, FinishType, FinishServed, WritesType DEF RemoveUserFromGroup, TypeOK
<1>5. ASSUME NEW x \in Projects, NEW u \in Users, RemoveProjectMember(p, x, u)
      PROVE  TypeOK' /\ Served'
  <2>1. projectRole' \in [Projects -> [Users -> ProjectRoles]]
    BY <1>5 DEF RemoveProjectMember, TypeOK, ProjectRoles
  <2> QED
    BY <1>5, <2>1, FinishType, FinishServed, WritesType DEF RemoveProjectMember, TypeOK
<1>6. ASSUME NEW x \in Projects, NEW g \in Groups, RemoveGroupFromProject(p, x, g)
      PROVE  TypeOK' /\ Served'
  <2>1. projectGroups' \in [Projects -> SUBSET Groups]
    BY <1>6 DEF RemoveGroupFromProject, TypeOK
  <2> QED
    BY <1>6, <2>1, FinishType, FinishServed, WritesType DEF RemoveGroupFromProject, TypeOK
<1> QED
  BY <1>2, <1>3, <1>4, <1>5, <1>6

\* The forms of the catalogue.
LEMMA TypeCatalogue ==
    ASSUME TypeOK, Served, NEW p \in Handlers,
           Save(p) \/ \E c \in Customers : SaveCustomer(p, c)
    PROVE  TypeOK' /\ Served'
<1> USE DEF accounts, teams, catalogue
<1>1. CASE Save(p)
  <2>1. /\ project' \in [Projects -> ProjectRow] /\ work' \in [Work -> WorkRow]
        /\ customerWorkspace' \in [Customers -> Workspaces]
    BY <1>1 DEF Save, UpsertProject, UpsertWork, TypeOK
  <2> QED
    BY <1>1, <2>1, FinishType, FinishServed, WritesType DEF Save, TypeOK
<1>2. ASSUME NEW c \in Customers, SaveCustomer(p, c)
      PROVE  TypeOK' /\ Served'
  <2>1. StoredIn(req[p]) \in Workspaces
    BY RowTypes DEF TypeOK
  <2>2. customerWorkspace' \in [Customers -> Workspaces]
    BY <1>2, <2>1 DEF SaveCustomer, TypeOK
  <2> QED
    BY <1>2, <2>2, FinishType, FinishServed, WritesType DEF SaveCustomer, TypeOK
<1> QED
  BY <1>1, <1>2

\* A request that begins, one that switches its session, and the backfills of a start.
LEMMA TypeOthers ==
    ASSUME TypeOK, Served,
           \/ \E p \in Handlers, u \in Users : FindSession(p, u)
           \/ \E p \in Handlers : SwitchSessionWorkspace(p)
           \/ Restart
    PROVE  TypeOK' /\ Served'
<1> USE DEF accounts, teams, catalogue
<1>1. ASSUME NEW p \in Handlers, NEW u \in Users, FindSession(p, u)
      PROVE  TypeOK' /\ Served'
  <2> DEFINE r == [NoRequest EXCEPT !.user = u, !.to = session[u]]
  <2>1. session[u] \in Workspaces \cup {0}
    BY DEF TypeOK
  <2>2. r \in Request /\ r.user \in Users
    BY <2>1, NoRequestType DEF Request
  <2>3. req' = [req EXCEPT ![p] = r] /\ Goto(p, "organization") /\ NotWriting /\ UNCHANGED session
    BY <1>1 DEF FindSession
  <2> QED
    BY <2>2, <2>3, TypeRead, StageNames
<1>2. ASSUME NEW p \in Handlers, SwitchSessionWorkspace(p)
      PROVE  TypeOK' /\ Served'
  <2>1. req[p].to \in Workspaces \cup {0}
    BY DEF TypeOK, Request
  <2>2. session' \in [Users -> Workspaces \cup {0}]
    BY <1>2, <2>1 DEF SwitchSessionWorkspace, TypeOK
  <2> QED
    BY <1>2, <2>2, FinishType, FinishServed, WritesType DEF SwitchSessionWorkspace, TypeOK
<1>3. CASE Restart
  <2>1. org' \in [Users -> OrgRoles]
    BY <1>3, RoleTypes DEF Restart, TypeOK
  <2>2. BackfilledIn(First) \in [Users -> WorkspaceRoles]
    BY RoleTypes, WorkspacesPositive DEF BackfilledIn, TypeOK
  <2>3. member' \in [Workspaces -> [Users -> WorkspaceRoles]]
    BY <1>3, <2>2 DEF Restart, Backfilled, TypeOK
  <2>4. pc' \in [Handlers -> Stages] /\ req' \in [Handlers -> Request] /\ Served'
    BY <1>3, NoRequestType, StageNames DEF Restart, Served
  <2>5. Writing /\ UNCHANGED <<role, archived, invited, teams, session>>
    BY <1>3 DEF Restart
  <2> QED
    BY <2>1, <2>3, <2>4, <2>5, WritesType DEF TypeOK
<1> QED
  BY <1>1, <1>2, <1>3

LEMMA TypeStep == TypeOK /\ Served /\ [Next]_vars => TypeOK' /\ Served'
<1> SUFFICES ASSUME TypeOK, Served, [Next]_vars PROVE TypeOK' /\ Served'
  OBVIOUS
<1>1. CASE UNCHANGED vars
  BY <1>1 DEF vars, accounts, teams, catalogue, TypeOK, Served
<1>2. CASE Step
  BY <1>2, TypeSession, TypeReads, TypeForms, TypeAdministration, TypeTeams, TypeCatalogue, TypeOthers
  DEF Step, Handle
<1> QED
  BY <1>1, <1>2 DEF Next

\* Every table, session and request holds values of its type, for any number of users,
\* workspaces, projects and requests: a role a form makes up is never stored, and every
\* request in progress is that of an account.
THEOREM TypeCorrect == Spec => [](TypeOK /\ Served)
<1>1. Init => TypeOK /\ Served
  BY TypeInit
<1>2. (TypeOK /\ Served) /\ [Next]_vars => (TypeOK /\ Served)'
  BY TypeStep
<1> QED
  BY <1>1, <1>2, PTL DEF Spec

-----------------------------------------------------------------------------
(* Roles and memberships.                                                  *)

\* The steps that change accounts or memberships.
LEMMA AccountSteps ==
    ASSUME [Next]_vars
    PROVE  \/ UNCHANGED <<role, org, member, invited>>
           \/ Restart
           \/ \E p \in Handlers :
                \/ \E u \in Users, r \in FormRoles : CreateUser(p, u, r) \/ UpdateUser(p, u, r)
                \/ \E w \in Workspaces, archive \in BOOLEAN : SaveWorkspace(p, w, archive)
                \/ \E w \in Workspaces, u \in Users, r \in FormMemberRoles : SetWorkspaceMember(p, w, u, r)
                \/ \E w \in Workspaces, u \in Users : RemoveWorkspaceMember(p, w, u)
<1> USE DEF accounts, teams, catalogue
<1>1. CASE UNCHANGED vars
  BY <1>1 DEF vars
<1>2. ASSUME NEW p \in Handlers,
             \/ Answer(p) \/ Check(p) \/ Add(p) \/ SwitchSessionWorkspace(p)
             \/ \E g \in Groups, us \in SUBSET Accounts : BeginGroupMembers(p, g, us)
             \/ \E x \in Projects : \E who, r : BeginProjectMembers(p, x, who, r)
             \/ \E g \in Groups, u \in Users : RemoveUserFromGroup(p, g, u)
             \/ \E x \in Projects, u \in Users : RemoveProjectMember(p, x, u)
             \/ \E x \in Projects, g \in Groups : RemoveGroupFromProject(p, x, g)
             \/ \E w \in Workspaces : UserCanAccessWorkspace(p, w)
             \/ \E x, c, private : BeginSaveProject(p, x, c, private)
             \/ \E y, x : BeginSaveWork(p, y, x)
             \/ Save(p) \/ \E c \in Customers : SaveCustomer(p, c)
      PROVE  UNCHANGED <<role, org, member, invited>>
  BY <1>2 DEF BeginSaveProject, BeginSaveWork, Save, SaveCustomer,
       Answer, BeginGroupMembers, BeginProjectMembers, Check, Add, RemoveUserFromGroup,
       RemoveProjectMember, RemoveGroupFromProject, UserCanAccessWorkspace,
       SwitchSessionWorkspace, NotWriting
<1>3. ASSUME NEW p \in Handlers,
             \/ \E u \in Users : FindSession(p, u)
             \/ ReadOrganization(p) \/ ReadWorkspace(p) \/ ReadProjectMembers(p) \/ ReadProjectGroups(p)
      PROVE  UNCHANGED <<role, org, member, invited>>
  BY <1>3 DEF FindSession, ReadOrganization, ReadWorkspace, ReadProjectMembers,
       ReadProjectGroups, NotWriting
<1>4. ASSUME NEW u \in Users, CreateSession(u) \/ DeleteSession(u)
      PROVE  UNCHANGED <<role, org, member, invited>>
  BY <1>4 DEF CreateSession, DeleteSession
<1> QED
  BY <1>1, <1>2, <1>3, <1>4 DEF Next, Step, Handle

LEMMA RolesStep == TypeOK /\ OrgRoleFollowsRole /\ [Next]_vars => OrgRoleFollowsRole'
<1> SUFFICES ASSUME TypeOK, OrgRoleFollowsRole, [Next]_vars PROVE OrgRoleFollowsRole'
  OBVIOUS
<1>1. CASE UNCHANGED <<role, org>>
  BY <1>1 DEF OrgRoleFollowsRole, organizationRoleFromLegacy
<1>2. ASSUME NEW p \in Handlers, NEW u \in Users, NEW r \in FormRoles, CreateUser(p, u, r)
      PROVE  OrgRoleFollowsRole'
  <2>1. /\ role' = [role EXCEPT ![u] = r]
        /\ org' = [org EXCEPT ![u] = organizationRoleFromLegacy(r)]
    BY <1>2 DEF CreateUser, NewAccount
  <2> QED
    BY <2>1 DEF OrgRoleFollowsRole, TypeOK
<1>3. ASSUME NEW p \in Handlers, NEW u \in Users, NEW r \in FormRoles, UpdateUser(p, u, r)
      PROVE  OrgRoleFollowsRole'
  <2>1. /\ role' = [role EXCEPT ![u] = r]
        /\ org' = [org EXCEPT ![u] = organizationRoleFromLegacy(r)]
    BY <1>3 DEF UpdateUser, ChangedAccount, OrgRow
  <2> QED
    BY <2>1 DEF OrgRoleFollowsRole, TypeOK
<1>4. CASE Restart
  <2>1. role' = role /\ \A u \in Users : org'[u] = IF org[u] # "none" THEN org[u]
                                                   ELSE organizationRoleFromLegacy(role[u])
    BY <1>4 DEF Restart
  <2> QED
    BY <2>1 DEF OrgRoleFollowsRole
<1>5. \/ UNCHANGED <<role, org>> \/ Restart
      \/ \E p \in Handlers, u \in Users, r \in FormRoles : CreateUser(p, u, r) \/ UpdateUser(p, u, r)
  BY AccountSteps DEF SaveWorkspace, SetWorkspaceMember, RemoveWorkspaceMember
<1> QED
  BY <1>1, <1>2, <1>3, <1>4, <1>5

\* organization_members agrees with user_roles for every account: nobody keeps a role in
\* the organization that the account no longer has (CreateUser, UpdateUser, ensureHierarchy).
THEOREM RolesAgree == Spec => []OrgRoleFollowsRole
<1>1. Init => OrgRoleFollowsRole
  BY DEF Init, OrgRoleFollowsRole
<1>2. TypeOK /\ OrgRoleFollowsRole /\ [Next]_vars => OrgRoleFollowsRole'
  BY RolesStep
<1> QED
  BY <1>1, <1>2, TypeCorrect, PTL DEF Spec

\* An update of one membership: the others stay.
LEMMA OneMember ==
    ASSUME TypeOK, NEW w \in Workspaces, NEW u, NEW r, member' = [member EXCEPT ![w][u] = r]
    PROVE  \A v \in Workspaces, x \in Users :
             member'[v][x] = IF v = w /\ x = u THEN r ELSE member[v][x]
BY DEF TypeOK

LEMMA MembersStep == TypeOK /\ MembersWereInvited /\ [Next]_vars => MembersWereInvited'
<1> SUFFICES ASSUME TypeOK, MembersWereInvited, [Next]_vars,
                    NEW v \in Workspaces \ {First}, NEW x \in Users, member'[v][x] # "none"
             PROVE  <<v, x>> \in invited'
  BY DEF MembersWereInvited
<1>1. member[v][x] # "none" => <<v, x>> \in invited
  BY DEF MembersWereInvited
<1>2. CASE UNCHANGED <<role, org, member, invited>>
  BY <1>1, <1>2
<1>3. ASSUME NEW p \in Handlers, NEW u \in Users, NEW r \in FormRoles, CreateUser(p, u, r)
      PROVE  <<v, x>> \in invited'
  <2>1. member'[v][x] = member[v][x]
    BY <1>3, OneMember, WorkspacesPositive DEF CreateUser, NewAccount
  <2> QED
    BY <1>1, <1>3, <2>1 DEF CreateUser
<1>4. ASSUME NEW p \in Handlers, NEW u \in Users, NEW r \in FormRoles, UpdateUser(p, u, r)
      PROVE  <<v, x>> \in invited'
  <2>1. CASE MemberOf(u) = {}
    BY <1>1, <1>4, <2>1 DEF UpdateUser, ChangedAccount
  <2>2. CASE MemberOf(u) # {} /\ (v \notin MemberOf(u) \/ x # u)
    BY <1>1, <1>4, <2>2 DEF UpdateUser, ChangedAccount, TypeOK
  <2>3. CASE v \in MemberOf(u) /\ x = u
    BY <1>1, <1>4, <2>3 DEF UpdateUser, MemberOf
  <2> QED
    BY <2>1, <2>2, <2>3
<1>5. ASSUME NEW p \in Handlers, NEW w \in Workspaces, NEW archive \in BOOLEAN, SaveWorkspace(p, w, archive)
      PROVE  <<v, x>> \in invited'
  <2>1. CASE UNCHANGED <<member, invited>>
    BY <1>1, <2>1
  <2>2. CASE /\ member' = [member EXCEPT ![w][req[p].user] = "admin"]
             /\ invited' = invited \cup {<<w, req[p].user>>}
    BY <1>1, <2>2, OneMember
  <2> QED
    BY <1>5, <2>1, <2>2 DEF SaveWorkspace
<1>6. ASSUME NEW p \in Handlers, NEW w \in Workspaces, NEW u \in Users, NEW r \in FormMemberRoles,
             SetWorkspaceMember(p, w, u, r)
      PROVE  <<v, x>> \in invited'
  <2>1. member' = [member EXCEPT ![w][u] = NormalRole(r)] /\ invited' = invited \cup {<<w, u>>}
    BY <1>6 DEF SetWorkspaceMember
  <2> QED
    BY <1>1, <2>1, OneMember
<1>7. ASSUME NEW p \in Handlers, NEW w \in Workspaces, NEW u \in Users, RemoveWorkspaceMember(p, w, u)
      PROVE  <<v, x>> \in invited'
  <2>1. member' = [member EXCEPT ![w][u] = "none"] /\ invited' = invited \ {<<w, u>>}
    BY <1>7 DEF RemoveWorkspaceMember
  <2>2. member'[v][x] = IF v = w /\ x = u THEN "none" ELSE member[v][x]
    BY <2>1 DEF TypeOK
  <2>3. ~(v = w /\ x = u) /\ member'[v][x] = member[v][x]
    BY <2>2
  <2> QED
    BY <1>1, <2>1, <2>3
<1>8. CASE Restart
  <2>1. member'[v] = member[v] /\ invited' = invited
    BY <1>8 DEF Restart, Backfilled, TypeOK
  <2> QED
    BY <1>1, <2>1
<1> QED
  BY AccountSteps, <1>2, <1>3, <1>4, <1>5, <1>6, <1>7, <1>8

\* Outside the first workspace nobody is a member whom no administrator made one since the
\* last removal: restarts, new accounts and changes of roles bring no membership back.
THEOREM NoMembershipComesBack == Spec => []MembersWereInvited
<1>1. Init => MembersWereInvited
  BY AccountAssumption DEF Init, MembersWereInvited
<1>2. TypeOK /\ MembersWereInvited /\ [Next]_vars => MembersWereInvited'
  BY MembersStep
<1> QED
  BY <1>1, <1>2, TypeCorrect, PTL DEF Spec

-----------------------------------------------------------------------------
(* What a request may do.                                                  *)

Watched(p) == pc[p] # "idle" => Rights(req[p].user) \subseteq held[p]

\* What the first statement returned, ...
AdministersAll(S) ==
    /\ <<"organization", First>> \in S
    /\ \A w \in Workspaces : {<<"administer", w>>, <<"report", w>>, <<"track", w>>} \subseteq S
OrganizationHeld(p) == pc[p] # "idle" /\ OrgAdmin(req[p].org) => AdministersAll(held[p])

\* ... the second, which gives an administrator of the organization a workspace always, ...
WorkspaceHeld(p) ==
    pc[p] \notin {"idle", "organization", "workspace"} =>
        LET a == req[p]
        IN  /\ OrgAdmin(a.org) => a.ws \in Workspaces
            /\ a.role = "admin" => {<<"administer", a.ws>>, <<"report", a.ws>>} \subseteq held[p]
            /\ a.role = "analyst" => <<"report", a.ws>> \in held[p]
            /\ a.ws \in Workspaces => <<"track", a.ws>> \in held[p]

\* ... and the third and fourth: projects that were of that workspace then.
ProjectsHeld(p) ==
    pc[p] \notin {"idle", "organization", "workspace", "projects"} =>
        LET a == req[p]
        IN  /\ \A x \in a.managed : <<"manage", x, a.ws>> \in held[p]
            /\ \A x \in a.members : <<"join", x, a.ws>> \in held[p]

Held == \A p \in Handlers : Watched(p) /\ OrganizationHeld(p) /\ WorkspaceHeld(p) /\ ProjectsHeld(p)

\* What a user is entitled to, one right at a time.
LEMMA RightsOf ==
    ASSUME NEW u
    PROVE  /\ OrgAdmin(org[u]) => AdministersAll(Rights(u))
           /\ \A w \in Workspaces :
                /\ member[w][u] = "admin" => {<<"administer", w>>, <<"report", w>>} \subseteq Rights(u)
                /\ member[w][u] = "analyst" => <<"report", w>> \in Rights(u)
                /\ member[w][u] # "none" => <<"track", w>> \in Rights(u)
           /\ \A x \in Projects :
                /\ projectRole[x][u] = "manager" => <<"manage", x, project[x].ws>> \in Rights(u)
                /\ InProject(u, x) => <<"join", x, project[x].ws>> \in Rights(u)
<1>1. OrgAdmin(org[u]) => <<"organization", First>> \in Rights(u)
  BY DEF Rights
<1>2. \A w \in Workspaces : OrgAdmin(org[u]) \/ member[w][u] = "admin" => <<"administer", w>> \in Rights(u)
  BY DEF Rights
<1>3. \A w \in Workspaces :
        OrgAdmin(org[u]) \/ member[w][u] \in {"admin", "analyst"} => <<"report", w>> \in Rights(u)
  BY DEF Rights
<1>4. \A w \in Workspaces : OrgAdmin(org[u]) \/ member[w][u] # "none" => <<"track", w>> \in Rights(u)
  BY DEF Rights
<1>5. \A x \in Projects : projectRole[x][u] = "manager" => <<"manage", x, project[x].ws>> \in Rights(u)
  BY DEF Rights
<1>6. \A x \in Projects : InProject(u, x) => <<"join", x, project[x].ws>> \in Rights(u)
  BY DEF Rights
<1> HIDE DEF Rights
<1> QED
  BY <1>1, <1>2, <1>3, <1>4, <1>5, <1>6 DEF AdministersAll

\* The access of a request is used within what was held.
LEMMA HeldClaims ==
    ASSUME TypeOK, Held, NEW p \in Handlers, pc[p] \notin Reading \cup {"idle"}
    PROVE  Claims(req[p]) \subseteq held[p]
<1> DEFINE a == req[p]
<1>1. /\ OrgAdmin(a.org) => AdministersAll(held[p]) /\ a.ws \in Workspaces
      /\ a.role = "admin" => {<<"administer", a.ws>>, <<"report", a.ws>>} \subseteq held[p]
      /\ a.role = "analyst" => <<"report", a.ws>> \in held[p]
      /\ a.ws \in Workspaces => <<"track", a.ws>> \in held[p]
  BY DEF Held, OrganizationHeld, WorkspaceHeld, Reading
<1>2. /\ \A x \in a.managed : <<"manage", x, a.ws>> \in held[p]
      /\ \A x \in a.members : <<"join", x, a.ws>> \in held[p]
  BY DEF Held, ProjectsHeld, Reading
<1>3. /\ a.ws \in Workspaces \cup {0} /\ a.managed \subseteq Projects /\ a.members \subseteq Projects
  BY DEF TypeOK, Request
<1>4. ASSUME NEW c \in Claims(a) PROVE c \in held[p]
  <2> HIDE DEF a
  <2>1. \/ c = <<"organization", First>> /\ IsOrgAdmin(a)
        \/ c = <<"administer", a.ws>> /\ IsWorkspaceAdmin(a)
        \/ c = <<"report", a.ws>> /\ CanViewWorkspaceReports(a)
        \/ c = <<"track", a.ws>> /\ a.ws > 0
        \/ \E x \in a.managed : c = <<"manage", x, a.ws>>
        \/ \E x \in a.members : c = <<"join", x, a.ws>>
    BY <1>4 DEF Claims
  <2>2. a.ws > 0 => a.ws \in Workspaces
    BY <1>3
  <2>3. CASE c = <<"organization", First>> /\ IsOrgAdmin(a)
    BY <1>1, <2>3 DEF IsOrgAdmin, AdministersAll
  <2>4. CASE c = <<"administer", a.ws>> /\ IsWorkspaceAdmin(a)
    BY <1>1, <2>4 DEF IsOrgAdmin, IsWorkspaceAdmin, AdministersAll
  <2>5. CASE c = <<"report", a.ws>> /\ CanViewWorkspaceReports(a)
    BY <1>1, <2>5 DEF IsOrgAdmin, IsWorkspaceAdmin, CanViewWorkspaceReports, AdministersAll
  <2>6. CASE c = <<"track", a.ws>> /\ a.ws > 0
    BY <1>1, <2>2, <2>6
  <2>7. CASE \/ \E x \in a.managed : c = <<"manage", x, a.ws>>
             \/ \E x \in a.members : c = <<"join", x, a.ws>>
    BY <1>2, <2>7
  <2> QED
    BY <2>1, <2>3, <2>4, <2>5, <2>6, <2>7
<1> QED
  BY <1>4

\* What a step does to a request that is in progress after it: nothing, one of the reads,
\* or the begin or next item of a form, which keeps the access.
SameAccess(p) ==
    /\ pc[p] \in {"ready", "check", "add"} /\ pc'[p] \in {"check", "add", "switch", "save"}
    /\ req'[p].user = req[p].user /\ req'[p].org = req[p].org
    /\ req'[p].ws = req[p].ws /\ req'[p].role = req[p].role
    /\ req'[p].managed = req[p].managed /\ req'[p].members = req[p].members

LEMMA RequestSteps ==
    ASSUME TypeOK, Step, NEW p \in Handlers, pc'[p] # "idle"
    PROVE  \/ pc'[p] = pc[p] /\ req'[p] = req[p]
           \/ \E u \in Users : FindSession(p, u)
           \/ ReadOrganization(p) \/ ReadWorkspace(p) \/ ReadProjectMembers(p) \/ ReadProjectGroups(p)
           \/ SameAccess(p)
<1> DEFINE Unchanged == pc'[p] = pc[p] /\ req'[p] = req[p]
<1>1. ASSUME NEW u \in Users, CreateSession(u) \/ DeleteSession(u) PROVE Unchanged
  BY <1>1 DEF CreateSession, DeleteSession
<1>2. ~Restart
  BY DEF Restart
<1>3. ASSUME NEW q \in Handlers, NEW u \in Users, FindSession(q, u) PROVE Unchanged \/ q = p
  BY <1>3 DEF FindSession, Goto, TypeOK
<1>4. ASSUME NEW q \in Handlers,
             \/ ReadOrganization(q) \/ ReadWorkspace(q) \/ ReadProjectMembers(q) \/ ReadProjectGroups(q)
      PROVE  Unchanged \/ q = p
  BY <1>4 DEF ReadOrganization, ReadWorkspace, ReadProjectMembers, ReadProjectGroups, Goto, TypeOK
<1>5. ASSUME NEW q \in Handlers, Finish(q) PROVE Unchanged
  BY <1>5, FinishType
<1>6. ASSUME NEW q \in Handlers, NEW r, NEW stage \in {"check", "add", "switch", "save"},
             pc[q] \in {"ready", "check", "add"}, Goto(q, stage), req' = [req EXCEPT ![q] = r],
             r.user = req[q].user, r.org = req[q].org, r.ws = req[q].ws, r.role = req[q].role,
             r.managed = req[q].managed, r.members = req[q].members
      PROVE  Unchanged \/ SameAccess(p)
  BY <1>6 DEF SameAccess, Goto, TypeOK
<1>7. \A q \in Handlers : req[q] \in Request
  BY DEF TypeOK
<1>8. ASSUME NEW q \in Handlers, NEW g, NEW us, BeginGroupMembers(q, g, us)
      PROVE  Unchanged \/ SameAccess(p)
  <2> DEFINE r == [req[q] EXCEPT !.rest = us, !.target = g]
  <2>1. req' = [req EXCEPT ![q] = r] /\ Goto(q, "check") /\ pc[q] = "ready"
    BY <1>8 DEF BeginGroupMembers, TypeOK
  <2> QED
    BY <2>1, <1>6, <1>7 DEF Request
<1>9. ASSUME NEW q \in Handlers, NEW x, NEW who, NEW as, BeginProjectMembers(q, x, who, as)
      PROVE  Unchanged \/ SameAccess(p)
  <2> DEFINE r == [req[q] EXCEPT !.rest = who, !.target = x, !.as = as]
  <2>1. req' = [req EXCEPT ![q] = r] /\ Goto(q, "check") /\ pc[q] = "ready"
    BY <1>9 DEF BeginProjectMembers, TypeOK
  <2> QED
    BY <2>1, <1>6, <1>7 DEF Request
<1>10. ASSUME NEW q \in Handlers, NEW w, UserCanAccessWorkspace(q, w)
       PROVE  Unchanged \/ SameAccess(p)
  <2> DEFINE r == [req[q] EXCEPT !.to = w]
  <2>1. req' = [req EXCEPT ![q] = r] /\ Goto(q, "switch") /\ pc[q] = "ready"
    BY <1>10 DEF UserCanAccessWorkspace, TypeOK
  <2> QED
    BY <2>1, <1>6, <1>7 DEF Request
<1>11. ASSUME NEW q \in Handlers, Check(q)
       PROVE  Unchanged \/ SameAccess(p)
  <2>1. CASE Finish(q)
    BY <2>1, <1>5
  <2>2. ASSUME NEW one, Goto(q, "add"), req' = [req EXCEPT ![q].one = one]
        PROVE  Unchanged \/ SameAccess(p)
    <3> DEFINE r == [req[q] EXCEPT !.one = one]
    <3>1. req' = [req EXCEPT ![q] = r] /\ pc[q] = "check"
      BY <1>11, <2>2 DEF Check, TypeOK
    <3> QED
      BY <2>2, <3>1, <1>6, <1>7 DEF Request
  <2> QED
    BY <1>11, <2>1, <2>2 DEF Check
<1>12. ASSUME NEW q \in Handlers, Add(q)
       PROVE  Unchanged \/ SameAccess(p)
  <2> DEFINE left == req[q].rest \ {req[q].one}
             r == [req[q] EXCEPT !.rest = left, !.one = NoUser]
  <2>1. CASE Finish(q)
    BY <2>1, <1>5
  <2>2. CASE Goto(q, "check") /\ req' = [req EXCEPT ![q].rest = left, ![q].one = NoUser]
    <3>1. req' = [req EXCEPT ![q] = r] /\ pc[q] = "add"
      BY <1>12, <2>2 DEF Add, TypeOK
    <3> QED
      BY <2>2, <3>1, <1>6, <1>7 DEF Request
  <2> QED
    BY <1>12, <2>1, <2>2 DEF Add
<1>13. ASSUME NEW q \in Handlers, NEW x, NEW c, NEW private, BeginSaveProject(q, x, c, private)
       PROVE  Unchanged \/ SameAccess(p)
  <2> DEFINE row == [ws |-> StoredIn(req[q]), customer |-> c, private |-> private]
             r == [req[q] EXCEPT !.target = x, !.row = row]
  <2>1. req' = [req EXCEPT ![q] = r] /\ Goto(q, "save") /\ pc[q] = "ready"
    BY <1>13 DEF BeginSaveProject, TypeOK
  <2> HIDE DEF row
  <2> QED
    BY <2>1, <1>6, <1>7 DEF Request
<1>14. ASSUME NEW q \in Handlers, NEW y, NEW x, BeginSaveWork(q, y, x)
       PROVE  Unchanged \/ SameAccess(p)
  <2> DEFINE row == [ws |-> StoredIn(req[q]), project |-> x]
             r == [req[q] EXCEPT !.target = y, !.row = row]
  <2>1. req' = [req EXCEPT ![q] = r] /\ Goto(q, "save") /\ pc[q] = "ready"
    BY <1>14 DEF BeginSaveWork, TypeOK
  <2> HIDE DEF row
  <2> QED
    BY <2>1, <1>6, <1>7 DEF Request
<1>15. ASSUME NEW q \in Handlers, Handle(q)
       PROVE  Unchanged \/ SameAccess(p)
  <2>1. \/ Finish(q) \/ Check(q) \/ Add(q)
        \/ \E g, us : BeginGroupMembers(q, g, us)
        \/ \E x, who, r : BeginProjectMembers(q, x, who, r)
        \/ \E x, c, private : BeginSaveProject(q, x, c, private)
        \/ \E y, x : BeginSaveWork(q, y, x)
        \/ \E w : UserCanAccessWorkspace(q, w)
    BY <1>15 DEF Handle, Answer, CreateUser, UpdateUser, SaveWorkspace, SetWorkspaceMember,
         RemoveWorkspaceMember, RemoveUserFromGroup, RemoveProjectMember, RemoveGroupFromProject,
         SaveCustomer, Save, SwitchSessionWorkspace
  <2> QED
    BY <2>1, <1>5, <1>8, <1>9, <1>10, <1>11, <1>12, <1>13, <1>14
<1> QED
  BY <1>1, <1>2, <1>3, <1>4, <1>15 DEF Step

LEMMA AdministersMore ==
    ASSUME NEW S, NEW T, S \subseteq T, AdministersAll(S)
    PROVE  AdministersAll(T)
BY DEF AdministersAll

\* One request through one step. Its rights only grow, see Watch.
LEMMA HeldRequest ==
    ASSUME TypeOK, Served, TypeOK', Held, Next, NEW p \in Handlers, pc'[p] # "idle"
    PROVE  Watched(p)' /\ OrganizationHeld(p)' /\ WorkspaceHeld(p)' /\ ProjectsHeld(p)'
<1> DEFINE u == req[p].user
<1>1. held'[p] = held[p] \cup Rights(req[p].user)'
  BY DEF Next, Watch, Entitled
<1>2. Watched(p)'
  BY <1>1 DEF Watched
<1>3. held[p] \subseteq held'[p]
  BY <1>1
<1>4. pc[p] # "idle" => Rights(u) \subseteq held'[p] /\ u \in Users
  BY <1>3 DEF Held, Watched, Served
<1>5. OrganizationHeld(p) /\ WorkspaceHeld(p) /\ ProjectsHeld(p)
  BY DEF Held
<1>6. AdministersAll(held[p]) => AdministersAll(held'[p])
  BY <1>3, AdministersMore
<1>7. CASE pc'[p] = pc[p] /\ req'[p] = req[p]
  <2>1. OrganizationHeld(p)'
    BY <1>5, <1>6, <1>7 DEF OrganizationHeld, AdministersAll
  <2>2. WorkspaceHeld(p)'
    BY <1>3, <1>5, <1>7 DEF WorkspaceHeld
  <2>3. ProjectsHeld(p)'
    BY <1>3, <1>5, <1>7 DEF ProjectsHeld
  <2> QED
    BY <1>2, <2>1, <2>2, <2>3
<1>8. ASSUME NEW v \in Users, FindSession(p, v)
      PROVE  OrganizationHeld(p)' /\ WorkspaceHeld(p)' /\ ProjectsHeld(p)'
  <2>1. pc'[p] = "organization" /\ req'[p].org = "none"
    BY <1>8 DEF FindSession, Goto, TypeOK, NoRequest
  <2> QED
    BY <2>1 DEF OrganizationHeld, WorkspaceHeld, ProjectsHeld, OrgAdmin
<1>9. CASE ReadOrganization(p)
  <2>1. pc[p] = "organization" /\ pc'[p] = "workspace" /\ req'[p].org = org[u]
    BY <1>9 DEF ReadOrganization, Goto, TypeOK, Request
  <2>2. OrgAdmin(org[u]) => AdministersAll(Rights(u))
    BY RightsOf
  <2>3. OrgAdmin(org[u]) => AdministersAll(held'[p])
    BY <1>4, <2>1, <2>2, AdministersMore
  <2>4. OrganizationHeld(p)'
    BY <2>1, <2>3 DEF OrganizationHeld, OrgAdmin, AdministersAll
  <2> QED
    BY <1>2, <2>1, <2>4 DEF WorkspaceHeld, ProjectsHeld
<1>10. CASE ReadWorkspace(p)
  <2> DEFINE w == WorkspaceOf(u, req[p].to, req[p].org)
  <2>1. /\ pc[p] = "workspace" /\ pc'[p] = "projects" /\ req'[p].org = req[p].org
        /\ req'[p].ws = w.ws /\ req'[p].role = w.role
    BY <1>10 DEF ReadWorkspace, Goto, TypeOK, Request
  <2>2. u \in Users /\ Rights(u) \subseteq held'[p]
    BY <1>4, <2>1
  <2>3. OrgAdmin(req[p].org) => AdministersAll(held'[p])
    BY <1>5, <1>6, <2>1 DEF OrganizationHeld
  <2>4. OrganizationHeld(p)'
    BY <2>1, <2>3 DEF OrganizationHeld, OrgAdmin, AdministersAll
  <2>5. /\ OrgAdmin(req[p].org) => w.ws \in Workspaces
        /\ w.role = "admin" => {<<"administer", w.ws>>, <<"report", w.ws>>} \subseteq held'[p]
        /\ w.role = "analyst" => <<"report", w.ws>> \in held'[p]
        /\ w.ws \in Workspaces => <<"track", w.ws>> \in held'[p]
    <3>1. ASSUME NEW v \in Workspaces, NEW r, w.ws = v, w.role = r, r = member[v][u],
                 OrgAdmin(req[p].org) \/ r # "none"
          PROVE  /\ OrgAdmin(req[p].org) => w.ws \in Workspaces
                 /\ w.role = "admin" => {<<"administer", w.ws>>, <<"report", w.ws>>} \subseteq held'[p]
                 /\ w.role = "analyst" => <<"report", w.ws>> \in held'[p]
                 /\ w.ws \in Workspaces => <<"track", w.ws>> \in held'[p]
      <4>2. /\ r = "admin" => {<<"administer", v>>, <<"report", v>>} \subseteq held'[p]
            /\ r = "analyst" => <<"report", v>> \in held'[p]
            /\ r # "none" => <<"track", v>> \in held'[p]
        BY <2>2, <3>1, RightsOf
      <4>3. OrgAdmin(req[p].org) => <<"track", v>> \in held'[p]
        BY <2>3 DEF AdministersAll
      <4> HIDE DEF w, u
      <4> QED
        BY <3>1, <4>2, <4>3
    <3>2. CASE OrgAdmin(req[p].org) /\ w.ws = First /\ w.role = "admin"
      <4>1. {<<"administer", First>>, <<"report", First>>, <<"track", First>>} \subseteq held'[p]
        BY <2>3, <3>2, WorkspacesPositive DEF AdministersAll
      <4> QED
        BY <3>2, <4>1, WorkspacesPositive
    <3>3. CASE ~OrgAdmin(req[p].org) /\ w.ws = 0 /\ w.role = "none"
      <4>1. 0 \notin Workspaces
        BY WorkspacesPositive
      <4>2. w.role # "admin" /\ w.role # "analyst" /\ w.ws \notin Workspaces
        BY <3>3, <4>1
      <4> QED
        BY <3>3, <4>2
    <3> QED
      BY <2>2, <3>1, <3>2, <3>3, WorkspaceFields
  <2>6. WorkspaceHeld(p)'
    <3> HIDE DEF w
    <3> QED
      BY <2>1, <2>5 DEF WorkspaceHeld, OrgAdmin
  <2> QED
    BY <1>2, <2>1, <2>4, <2>6 DEF ProjectsHeld
<1>11. CASE ReadProjectMembers(p)
  <2>1. /\ pc[p] = "projects" /\ pc'[p] = "groups" /\ req'[p].org = req[p].org
        /\ req'[p].ws = req[p].ws /\ req'[p].role = req[p].role
        /\ req'[p].managed = ManagedBy(u, req[p].ws) /\ req'[p].members = MembersOf(u, req[p].ws)
    BY <1>11 DEF ReadProjectMembers, Goto, TypeOK, Request
  <2>2. OrganizationHeld(p)'
    BY <1>5, <1>6, <2>1 DEF OrganizationHeld, OrgAdmin, AdministersAll
  <2>3. WorkspaceHeld(p)'
    BY <1>3, <1>5, <2>1 DEF WorkspaceHeld, OrgAdmin
  <2>4. /\ \A x \in ManagedBy(u, req[p].ws) : <<"manage", x, req[p].ws>> \in held'[p]
        /\ \A x \in MembersOf(u, req[p].ws) : <<"join", x, req[p].ws>> \in held'[p]
    BY <1>4, <2>1, RightsOf DEF ManagedBy, MembersOf, InProject
  <2>5. ProjectsHeld(p)'
    BY <2>1, <2>4 DEF ProjectsHeld
  <2> QED
    BY <1>2, <2>2, <2>3, <2>5
<1>12. CASE ReadProjectGroups(p)
  <2>1. /\ pc[p] = "groups" /\ pc'[p] = "ready" /\ req'[p].org = req[p].org
        /\ req'[p].ws = req[p].ws /\ req'[p].role = req[p].role
        /\ req'[p].managed = req[p].managed
        /\ req'[p].members = req[p].members \cup GroupedInto(u, req[p].ws)
    BY <1>12 DEF ReadProjectGroups, Goto, TypeOK, Request
  <2>2. OrganizationHeld(p)'
    BY <1>5, <1>6, <2>1 DEF OrganizationHeld, OrgAdmin, AdministersAll
  <2>3. WorkspaceHeld(p)'
    BY <1>3, <1>5, <2>1 DEF WorkspaceHeld, OrgAdmin
  <2>4. \A x \in GroupedInto(u, req[p].ws) : <<"join", x, req[p].ws>> \in held'[p]
    BY <1>4, <2>1, RightsOf DEF GroupedInto, InProject
  <2>5. ProjectsHeld(p)'
    BY <1>3, <1>5, <2>1, <2>4 DEF ProjectsHeld
  <2> QED
    BY <1>2, <2>2, <2>3, <2>5
<1>13. CASE SameAccess(p)
  <2>1. OrganizationHeld(p)'
    BY <1>5, <1>6, <1>13 DEF SameAccess, OrganizationHeld, OrgAdmin, AdministersAll
  <2>2. WorkspaceHeld(p)'
    BY <1>3, <1>5, <1>13 DEF SameAccess, WorkspaceHeld, OrgAdmin
  <2>3. ProjectsHeld(p)'
    BY <1>3, <1>5, <1>13 DEF SameAccess, ProjectsHeld
  <2> QED
    BY <1>2, <2>1, <2>2, <2>3
<1> QED
  BY <1>2, <1>7, <1>8, <1>9, <1>10, <1>11, <1>12, <1>13, RequestSteps DEF Next

LEMMA HeldStep == TypeOK /\ Served /\ Held /\ [Next]_vars => Held'
<1> SUFFICES ASSUME TypeOK, Served, Held, [Next]_vars PROVE Held'
  OBVIOUS
<1>1. CASE UNCHANGED vars
  BY <1>1 DEF vars, accounts, teams, catalogue, Held, Watched, OrganizationHeld, WorkspaceHeld, ProjectsHeld,
       Rights, InProject, InGroupOf
<1>2. CASE Next
  <2>1. TypeOK'
    BY TypeStep
  <2>2. ASSUME NEW p \in Handlers, pc'[p] # "idle"
        PROVE  Watched(p)' /\ OrganizationHeld(p)' /\ WorkspaceHeld(p)' /\ ProjectsHeld(p)'
    BY <1>2, <2>1, <2>2, HeldRequest
  <2>3. ASSUME NEW p \in Handlers, pc'[p] = "idle"
        PROVE  Watched(p)' /\ OrganizationHeld(p)' /\ WorkspaceHeld(p)' /\ ProjectsHeld(p)'
    BY <2>3 DEF Watched, OrganizationHeld, WorkspaceHeld, ProjectsHeld
  <2> QED
    BY <2>2, <2>3 DEF Held
<1> QED
  BY <1>1, <1>2

\* An access that is read in four statements and used later, while other requests change
\* every table it rests on, allows nothing its user was not entitled to at some time since
\* the request began: the projects it carries were projects of its workspace then.
THEOREM AccessWasHeld == Spec => []NoMoreThanHeld
<1>1. Init => Held
  BY DEF Init, Held, Watched, OrganizationHeld, WorkspaceHeld, ProjectsHeld
<1>2. TypeOK /\ Served /\ Held /\ [Next]_vars => Held'
  BY HeldStep
<1>3. TypeOK /\ Held => NoMoreThanHeld
  BY HeldClaims DEF NoMoreThanHeld
<1> QED
  BY <1>1, <1>2, <1>3, TypeCorrect, PTL DEF Spec

-----------------------------------------------------------------------------
(* What lists offer.                                                       *)

LEMMA ProjectFields ==
    ASSUME TypeOK, NEW x \in Projects
    PROVE  project[x].private \in BOOLEAN /\ project[x].customer \in Customers
<1>1. project[x] \in ProjectRow
  BY DEF TypeOK
<1> QED
  BY ONLY <1>1 DEF ProjectRow

LEMMA WorkFields ==
    ASSUME TypeOK, NEW y \in Work
    PROVE  work[y].project \in Projects \cup {NoProject}
<1>1. work[y] \in WorkRow
  BY DEF TypeOK
<1> QED
  BY ONLY <1>1 DEF WorkRow

\* In every state, whatever rows forms have moved between workspaces, the projects that
\* lists offer are those that handlers accept (ListProjects, canTrackProject), and the
\* customers, activities and tasks offered go with them, but for the work that a moved
\* project left behind.
THEOREM ListsAgreeWithHandlers == Spec => []OfferedIsAccepted
<1>1. ASSUME TypeOK PROVE OfferedIsAccepted
  <2>1. ASSUME NEW u \in Users, NEW a, a.user = u, a.managed = ManagedBy(u, a.ws),
               a.members = MembersOf(u, a.ws) \cup GroupedInto(u, a.ws)
        PROVE  LET tracked == {x \in Projects : CanTrackProject(a, x)}
                   offered == ListActivities(a) \cup ListTasks(a)
                   served  == {project[x].customer : x \in tracked}
               IN  /\ ListProjects(a) = tracked
                   /\ \A y \in Work : work[y].ws = a.ws /\ work[y].project \in tracked => y \in offered
                   /\ \A y \in offered : \/ work[y].project \in tracked \cup {NoProject}
                                         \/ /\ project[work[y].project].ws # a.ws
                                            /\ \/ IsWorkspaceAdmin(a)
                                               \/ y \in Activities /\ InProject(u, work[y].project)
                   /\ {c \in served : customerWorkspace[c] = a.ws} \subseteq ListCustomers(a)
                   /\ ListCustomers(a) \subseteq IF IsWorkspaceAdmin(a) THEN Customers ELSE served
    <3> DEFINE tracked == {x \in Projects : CanTrackProject(a, x)}
               served  == {project[x].customer : x \in tracked}
    <3>1. \A x \in Projects : project[x].private \in BOOLEAN /\ project[x].customer \in Customers
      BY <1>1, ProjectFields
    <3>2. ASSUME NEW x \in Projects, project[x].ws = a.ws
          PROVE  CanTrackProject(a, x) <=> IsWorkspaceAdmin(a) \/ OpenTo(u, x)
      BY <2>1, <3>1, <3>2 DEF OpenTo, InProject, CanTrackProject, CanAccessProject, ManagedBy,
           MembersOf, GroupedInto
    <3>3. \A x \in Projects :
            x \in tracked <=> project[x].ws = a.ws /\ (IsWorkspaceAdmin(a) \/ OpenTo(u, x))
      BY <3>2 DEF CanTrackProject
    <3>4. ListProjects(a) = tracked
      BY <2>1, <3>3 DEF ListProjects
    <3>5. \A y \in Work : work[y].project \in Projects \cup {NoProject}
      BY <1>1, WorkFields
    <3> HIDE DEF tracked
    <3>6. ASSUME NEW y \in Work, work[y].ws = a.ws, work[y].project \in tracked
          PROVE  y \in ListActivities(a) \cup ListTasks(a)
      <4>1. work[y].project \in Projects
        BY <3>6 DEF tracked
      <4>2. /\ project[work[y].project].ws = a.ws
            /\ IsWorkspaceAdmin(a) \/ OpenTo(u, work[y].project)
        BY <3>3, <3>6, <4>1
      <4>3. CASE y \in Activities
        BY <2>1, <3>6, <4>2, <4>3 DEF ListActivities, OpenTo
      <4>4. CASE y \in Tasks
        BY <2>1, <3>6, <4>1, <4>2, <4>4 DEF ListTasks
      <4> QED
        BY <4>3, <4>4 DEF Work
    <3>7. ASSUME NEW y \in ListActivities(a) \cup ListTasks(a)
          PROVE  \/ work[y].project \in tracked \cup {NoProject}
                 \/ /\ project[work[y].project].ws # a.ws
                    /\ \/ IsWorkspaceAdmin(a)
                       \/ y \in Activities /\ InProject(u, work[y].project)
      <4>1. y \in Work
        BY DEF ListActivities, ListTasks, Work
      <4>2. CASE work[y].project \in Projects
        <5>1. CASE project[work[y].project].ws = a.ws
          <6>1. IsWorkspaceAdmin(a) \/ OpenTo(u, work[y].project)
            BY <2>1, <3>7, <4>2, NoProjectApart DEF ListActivities, ListTasks, OpenTo
          <6> QED
            BY <3>3, <4>2, <5>1, <6>1
        <5>2. CASE project[work[y].project].ws # a.ws
          BY <2>1, <3>7, <4>2, <5>2, NoProjectApart DEF ListActivities, ListTasks
        <5> QED
          BY <5>1, <5>2
      <4> QED
        BY <3>5, <4>1, <4>2
    <3>8. \A c \in Customers : c \in served <=> \E x \in tracked : project[x].customer = c
      OBVIOUS
    <3>9. served \subseteq Customers
      BY <3>1 DEF tracked
    <3> HIDE DEF served
    <3>10. ASSUME NEW c \in served, customerWorkspace[c] = a.ws PROVE c \in ListCustomers(a)
      <4>1. PICK x \in tracked : project[x].customer = c
        BY <3>8, <3>9
      <4>2. x \in Projects
        BY DEF tracked
      <4>3. project[x].ws = a.ws /\ (IsWorkspaceAdmin(a) \/ OpenTo(u, x))
        BY <3>3, <4>1, <4>2
      <4> QED
        BY <2>1, <3>9, <3>10, <4>1, <4>2, <4>3 DEF ListCustomers, Shows, ShowsAnywhere
    <3>11. ASSUME NEW c \in ListCustomers(a), ~IsWorkspaceAdmin(a) PROVE c \in served
      <4>1. c \in Customers /\ customerWorkspace[c] = a.ws /\ \E x \in Projects : Shows(u, x, c)
        BY <2>1, <3>11 DEF ListCustomers
      <4>2. PICK x \in Projects : Shows(u, x, c)
        BY <4>1
      <4>3. project[x].ws = a.ws /\ OpenTo(u, x) /\ project[x].customer = c
        BY <4>1, <4>2 DEF Shows, ShowsAnywhere
      <4>4. x \in tracked
        BY <3>3, <4>3
      <4> QED
        BY <3>8, <4>1, <4>3, <4>4
    <3>12. ListCustomers(a) \subseteq Customers
      BY DEF ListCustomers
    <3> QED
      BY <3>4, <3>6, <3>7, <3>10, <3>11, <3>12 DEF tracked, served
  <2>2. ASSUME NEW u \in Users, NEW w \in Workspaces
        PROVE  LET a == AccessForUserWorkspace(u, w)
               IN  /\ a.user = u /\ a.managed = ManagedBy(u, a.ws)
                   /\ a.members = MembersOf(u, a.ws) \cup GroupedInto(u, a.ws)
    BY DEF AccessForUserWorkspace, NoRequest
  <2> QED
    BY <2>1, <2>2 DEF OfferedIsAccepted
<1> QED
  BY <1>1, TypeCorrect, PTL
=============================================================================
