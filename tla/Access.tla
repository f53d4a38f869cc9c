--------------------------------- MODULE Access ---------------------------------
(***************************************************************************)
(* Who may do what: accounts and their roles, the organization, workspaces *)
(* and their members, groups, project members, the customers, projects and *)
(* work that forms move from one workspace to another, the workspace a     *)
(* session has chosen, and the access a request works with                 *)
(* (internal/db/sqlite/store.go, internal/platform/http/server.go,         *)
(* internal/auth/permissions.go).                                          *)
(*                                                                         *)
(* A request reads its session and then its access in four statements;     *)
(* what it does with them comes later, while other requests change the     *)
(* tables. There is one organization, as in a database that Migrate set up.*)
(***************************************************************************)
EXTENDS Integers, FiniteSets

CONSTANTS
    Users,              \* accounts there can be
    NoUser,
    Handlers,           \* requests that can be in progress together
    Workspaces,         \* workspaces there can be, by their ids
    Projects, NoProject,
    Customers, Activities, Tasks,
    FirstProject,       \* the row each project has at first
    FirstCustomer,      \* the workspace each customer is of at first
    FirstWork,          \* the row each activity and task has at first
    Groups,
    GroupWorkspace,     \* the workspace of each group, which no form changes
    FirstRole,          \* the role each account has at first, "none" for no account
    FirstGrouped,       \* the users in each group at first
    FirstProjectGroups, \* the groups in each project at first
    Owner,              \* who set the other workspaces up
    FormRoles,          \* bound: the roles that forms give to accounts
    FormMemberRoles,    \* bound: the roles that forms give to members of workspaces
    MaxWrites           \* bound: changes of the tables

First == 1              \* the workspace that Migrate creates
\* "none" stands for a row that is not there.
LegacyRoles    == {"superadmin", "admin", "teamlead", "user"}
OrgRoles       == {"owner", "admin", "none"}
WorkspaceRoles == {"admin", "analyst", "member", "none"}
ProjectRoles   == {"manager", "member", "none"}

ASSUME WorkspaceAssumption ==
    /\ Workspaces \subseteq Nat \ {0} /\ First \in Workspaces
    /\ \A w \in Workspaces : First <= w
    /\ GroupWorkspace \in [Groups -> Workspaces]

\* The row of a project, and that of an activity or a task; a global activity has no
\* project. The workspace and the project of a row are whatever the last form said.
ProjectRow == [ws : Workspaces, customer : Customers, private : BOOLEAN]
WorkRow    == [ws : Workspaces, project : Projects \cup {NoProject}]
NoRow      == [ws |-> 0, project |-> NoProject]
Work       == Activities \cup Tasks

ASSUME CatalogueAssumption ==
    /\ FirstProject \in [Projects -> ProjectRow]
    /\ FirstCustomer \in [Customers -> Workspaces]
    /\ FirstWork \in [Work -> WorkRow]
    /\ FirstProjectGroups \in [Projects -> SUBSET Groups]
ASSUME AccountAssumption ==
    /\ FirstRole \in [Users -> LegacyRoles \cup {"none"}]
    /\ Owner \in Users /\ FirstRole[Owner] = "superadmin"
    /\ FirstGrouped \in [Groups -> SUBSET {u \in Users : FirstRole[u] # "none"}]
    /\ NoUser \notin Users /\ NoProject \notin Projects
    /\ FormRoles \subseteq LegacyRoles /\ FormMemberRoles \subseteq STRING
    /\ MaxWrites \in Nat

VARIABLES
    role,           \* the row of user_roles of each account
    org,            \* table organization_members
    member,         \* table workspace_members
    archived,       \* the workspaces that are archived
    grouped,        \* table group_members
    projectRole,    \* table project_members
    projectGroups,  \* table project_groups
    project,        \* table projects
    customerWorkspace, \* the workspace of each row of customers
    work,           \* tables activities and tasks
    session,        \* the workspace of each user's session, 0 when signed out
    pc, req,        \* where each request is and what it has read
    held,           \* what the user of each request was entitled to since it began
    invited,        \* whom an administrator made a member and did not remove since
    writes          \* changes of the tables so far

accounts == <<role, org, member, archived, invited>>
catalogue == <<project, customerWorkspace, work>>
teams    == <<grouped, projectRole, projectGroups, catalogue>>
vars     == <<accounts, teams, session, pc, req, held, writes>>

\* What a request has read, and what is left to do of a form: several users or groups to
\* add to the project or group "target", or a row to store for the project, activity or
\* task "target".
Request == [user : Users \cup {NoUser}, org : OrgRoles, ws : Workspaces \cup {0},
            role : WorkspaceRoles, managed : SUBSET Projects, members : SUBSET Projects,
            rest : SUBSET (Users \cup Groups), one : Users \cup Groups \cup {NoUser},
            target : Projects \cup Groups \cup Work \cup {NoProject},
            as : ProjectRoles, row : ProjectRow \cup WorkRow \cup {NoRow},
            to : Workspaces \cup {0}]

NoRequest == [user |-> NoUser, org |-> "none", ws |-> 0, role |-> "none", managed |-> {},
              members |-> {}, rest |-> {}, one |-> NoUser, target |-> NoProject, as |-> "none",
              row |-> NoRow, to |-> 0]

Reading == {"organization", "workspace", "projects", "groups"}
Stages  == Reading \cup {"idle", "ready", "switch", "check", "add", "save"}

-----------------------------------------------------------------------------
(* Roles and the tables they are kept in.                                  *)

organizationRoleFromLegacy(r) ==
    IF r = "superadmin" THEN "owner" ELSE IF r = "admin" THEN "admin" ELSE "none"

workspaceRoleFromLegacy(r) ==
    IF r \in {"superadmin", "admin"} THEN "admin"
    ELSE IF r = "teamlead" THEN "analyst" ELSE "member"

Accounts == {u \in Users : role[u] # "none"}

\* An organization role counts for every workspace.
OrgAdmin(orgRole) == orgRole \in {"owner", "admin"}

\* The database after Migrate and SeedAdmin, when the accounts of FirstRole have been
\* created, put in groups and have signed in, and the owner has saved the other workspaces
\* and the catalogue.
Init ==
    /\ role = FirstRole
    /\ org = [u \in Users |-> organizationRoleFromLegacy(FirstRole[u])]
    /\ member = [w \in Workspaces |-> [u \in Users |->
                    IF FirstRole[u] = "none" THEN "none"
                    ELSE IF w = First THEN workspaceRoleFromLegacy(FirstRole[u])
                    ELSE IF u = Owner THEN "admin" ELSE "none"]]
    /\ archived = {}
    /\ invited = {<<w, Owner>> : w \in Workspaces \ {First}}
    /\ grouped = FirstGrouped
    /\ projectRole = [x \in Projects |-> [u \in Users |-> "none"]]
    /\ projectGroups = FirstProjectGroups
    /\ project = FirstProject /\ customerWorkspace = FirstCustomer /\ work = FirstWork
    /\ session = [u \in Users |-> IF FirstRole[u] = "none" THEN 0 ELSE First]
    /\ pc = [p \in Handlers |-> "idle"] /\ req = [p \in Handlers |-> NoRequest]
    /\ held = [p \in Handlers |-> {}]
    /\ writes = 0

-----------------------------------------------------------------------------
(* The four statements of AccessForUserWorkspace.                          *)

Lowest(S) == {w \in S : \A v \in S : w <= v}
MemberOf(u) == {w \in Workspaces : member[w][u] # "none"}

\* The workspace asked for, or without one the first that u is a member of. Who is
\* neither a member nor an administrator of the organization gets none; ...
AskedOrAny(u, asked, orgRole) == IF asked # 0 THEN {asked} ELSE MemberOf(u)
AskedOrOwn(u, asked, orgRole) ==
    IF asked = 0 THEN Lowest(MemberOf(u))
    ELSE {asked} \cap (IF OrgAdmin(orgRole) THEN Workspaces ELSE MemberOf(u))

\* ... such an administrator gets the first one instead of none.
WorkspaceOf(u, asked, orgRole) ==
    IF AskedOrOwn(u, asked, orgRole) # {}
    THEN LET w == CHOOSE w \in AskedOrOwn(u, asked, orgRole) : TRUE
         IN  [ws |-> w, role |-> member[w][u]]
    ELSE IF OrgAdmin(orgRole) THEN [ws |-> First, role |-> "admin"]
    ELSE [ws |-> 0, role |-> "none"]

ManagedBy(u, ws) ==
    {x \in Projects : project[x].ws = ws /\ projectRole[x][u] = "manager"}
MembersAnywhere(u, ws) == {x \in Projects : projectRole[x][u] # "none"}
MembersOf(u, ws) == {x \in Projects : project[x].ws = ws /\ projectRole[x][u] # "none"}

InGroupOf(u, x) == \E g \in projectGroups[x] : u \in grouped[g]
GroupedInto(u, ws) == {x \in Projects : project[x].ws = ws /\ InGroupOf(u, x)}

\* All four together, when nothing changes between them.
AccessForUserWorkspace(u, asked) ==
    LET w == WorkspaceOf(u, asked, org[u])
    IN  [NoRequest EXCEPT !.user = u, !.org = org[u], !.ws = w.ws, !.role = w.role,
                          !.managed = ManagedBy(u, w.ws),
                          !.members = MembersOf(u, w.ws) \cup GroupedInto(u, w.ws)]

-----------------------------------------------------------------------------
(* What handlers ask of an access a.                                       *)

IsOrgAdmin(a)       == OrgAdmin(a.org)
IsWorkspaceAdmin(a) == IsOrgAdmin(a) \/ a.role = "admin"
CanViewWorkspaceReports(a) == IsWorkspaceAdmin(a) \/ a.role = "analyst"
ManagesProject(a, x)   == IsWorkspaceAdmin(a) \/ x \in a.managed
CanAccessProject(a, x) == IsWorkspaceAdmin(a) \/ x \in a.managed \cup a.members

\* The rule of canTrackProject and of ProjectDashboard for a project ...
CanTrackProject(a, x) ==
    /\ project[x].ws = a.ws
    /\ project[x].private => CanAccessProject(a, x)

\* ... and the rule of the lists, which look at the tables again, each in its own way:
\* at the workspace of the row, of its project or of its customer, or of several of them.
InProject(u, x) == projectRole[x][u] # "none" \/ InGroupOf(u, x)
OpenTo(u, x) == ~project[x].private \/ InProject(u, x)

ListProjects(a) ==
    {x \in Projects : project[x].ws = a.ws /\ (IsWorkspaceAdmin(a) \/ OpenTo(a.user, x))}
ShowsAnywhere(u, x, c) == project[x].customer = c /\ OpenTo(u, x)
Shows(u, x, c) == ShowsAnywhere(u, x, c) /\ project[x].ws = customerWorkspace[c]
ListCustomers(a) ==
    {c \in Customers :
        /\ customerWorkspace[c] = a.ws
        /\ IsWorkspaceAdmin(a) \/ \E x \in Projects : Shows(a.user, x, c)}
ListActivities(a) ==
    {y \in Activities :
        /\ work[y].ws = a.ws
        /\ \/ IsWorkspaceAdmin(a) \/ work[y].project = NoProject
           \/ ~project[work[y].project].private /\ project[work[y].project].ws = a.ws
           \/ InProject(a.user, work[y].project)}
ListTasks(a) ==
    {t \in Tasks :
        /\ work[t].ws = a.ws
        /\ \/ IsWorkspaceAdmin(a)
           \/ work[t].project \in {x \in Projects : project[x].ws = a.ws /\ OpenTo(a.user, x)}}

-----------------------------------------------------------------------------
(* Requests.                                                               *)

Goto(p, stage) == pc' = [pc EXCEPT ![p] = stage]
Finish(p) == Goto(p, "idle") /\ req' = [req EXCEPT ![p] = NoRequest]

Writing == writes < MaxWrites /\ writes' = writes + 1
NotWriting == UNCHANGED <<accounts, teams, writes>>

\* CreateSession in the default workspace of the user, and Logout.
DefaultWorkspace(u) == IF MemberOf(u) = {} THEN {First} ELSE Lowest(MemberOf(u))
CreateSession(u) ==
    /\ u \in Accounts /\ session[u] = 0
    /\ \E w \in DefaultWorkspace(u) : session' = [session EXCEPT ![u] = w]
    /\ Writing /\ UNCHANGED <<accounts, teams, pc, req>>
DeleteSession(u) ==
    /\ session[u] # 0 /\ session' = [session EXCEPT ![u] = 0]
    /\ Writing /\ UNCHANGED <<accounts, teams, pc, req>>

\* sessionMiddleware finds the session and its user ...
FindSession(p, u) ==
    /\ pc[p] = "idle" /\ session[u] # 0
    /\ req' = [req EXCEPT ![p] = [NoRequest EXCEPT !.user = u, !.to = session[u]]]
    /\ Goto(p, "organization")
    /\ NotWriting /\ UNCHANGED session

\* ... and reads the access, one statement after the other.
ReadOrganization(p) ==
    /\ pc[p] = "organization"
    /\ req' = [req EXCEPT ![p].org = org[req[p].user]]
    /\ Goto(p, "workspace")
    /\ NotWriting /\ UNCHANGED session

ReadWorkspace(p) ==
    /\ pc[p] = "workspace"
    /\ LET w == WorkspaceOf(req[p].user, req[p].to, req[p].org)
       IN  req' = [req EXCEPT ![p].ws = w.ws, ![p].role = w.role, ![p].to = 0]
    /\ Goto(p, "projects")
    /\ NotWriting /\ UNCHANGED session

ReadProjectMembers(p) ==
    /\ pc[p] = "projects"
    /\ req' = [req EXCEPT ![p].managed = ManagedBy(req[p].user, req[p].ws),
                          ![p].members = MembersOf(req[p].user, req[p].ws)]
    /\ Goto(p, "groups")
    /\ NotWriting /\ UNCHANGED session

ReadProjectGroups(p) ==
    /\ pc[p] = "groups"
    /\ req' = [req EXCEPT ![p].members = @ \cup GroupedInto(req[p].user, req[p].ws)]
    /\ Goto(p, "ready")
    /\ NotWriting /\ UNCHANGED session

\* A page, or a form that is refused.
Answer(p) ==
    /\ pc[p] = "ready" /\ Finish(p)
    /\ NotWriting /\ UNCHANGED session

-----------------------------------------------------------------------------
(* Handlers of administrators.                                             *)

\* The transaction of CreateUser: the account, its organization role and the first
\* workspace.
NewAccount(u, r) ==
    /\ role[u] = "none"
    /\ role' = [role EXCEPT ![u] = r]
    /\ org' = [org EXCEPT ![u] = organizationRoleFromLegacy(r)]
    /\ member' = [member EXCEPT ![First][u] = workspaceRoleFromLegacy(r)]

CreateUser(p, u, r) ==
    /\ pc[p] = "ready" /\ IsWorkspaceAdmin(req[p])
    /\ NewAccount(u, r)
    /\ Writing /\ Finish(p)
    /\ UNCHANGED <<archived, invited, teams, session>>

\* The organization role after an update: the row is written or deleted.
OrgRowKept(u, r) == IF organizationRoleFromLegacy(r) = "none" THEN org[u]
                    ELSE organizationRoleFromLegacy(r)
OrgRow(u, r) == organizationRoleFromLegacy(r)

\* The transaction of UpdateUser: the role replaces the roles in every workspace of the
\* user, and a user of none gets the first.
ChangedAccount(u, r) ==
    /\ u \in Accounts
    /\ role' = [role EXCEPT ![u] = r]
    /\ org' = [org EXCEPT ![u] = OrgRow(u, r)]
    /\ LET in == IF MemberOf(u) = {} THEN {First} ELSE MemberOf(u)
       IN  member' = [w \in Workspaces |->
                        IF w \in in THEN [member[w] EXCEPT ![u] = workspaceRoleFromLegacy(r)]
                        ELSE member[w]]

UpdateUser(p, u, r) ==
    /\ pc[p] = "ready" /\ IsWorkspaceAdmin(req[p])
    /\ ChangedAccount(u, r)
    /\ Writing /\ Finish(p)
    /\ UNCHANGED <<archived, invited, teams, session>>

UpsertWorkspace(w, archive) == IF archive THEN archived \cup {w} ELSE archived \ {w}

\* saveWorkspace of an existing workspace: the row, then its mail settings, which may
\* be refused, then the membership of whoever saves it, unless it is archived.
SaveWorkspace(p, w, archive) ==
    /\ pc[p] = "ready" /\ IsOrgAdmin(req[p])
    /\ archived' = UpsertWorkspace(w, archive)
    /\ \/ UNCHANGED <<member, invited>>
       \/ /\ ~archive
          /\ member' = [member EXCEPT ![w][req[p].user] = "admin"]
          /\ invited' = invited \cup {<<w, req[p].user>>}
    /\ Writing /\ Finish(p)
    /\ UNCHANGED <<role, org, teams, session>>

\* A role the form does not offer is stored as member.
AsSent(r) == r
NormalRole(r) == IF r \in {"admin", "analyst"} THEN r ELSE "member"
SetWorkspaceMember(p, w, u, r) ==
    /\ pc[p] = "ready" /\ IsOrgAdmin(req[p])
    /\ u \in Accounts
    /\ member' = [member EXCEPT ![w][u] = NormalRole(r)]
    /\ invited' = invited \cup {<<w, u>>}
    /\ Writing /\ Finish(p)
    /\ UNCHANGED <<role, org, archived, teams, session>>

\* The rows of groups and projects of the workspace stay.
RemoveWorkspaceMember(p, w, u) ==
    /\ pc[p] = "ready" /\ IsOrgAdmin(req[p])
    /\ member' = [member EXCEPT ![w][u] = "none"]
    /\ invited' = invited \ {<<w, u>>}
    /\ Writing /\ Finish(p)
    /\ UNCHANGED <<role, org, archived, teams, session>>

-----------------------------------------------------------------------------
(* Handlers of groups and projects. A form names several users or groups;  *)
(* each is checked and then added, and the first that fails ends the       *)
(* request with the others already added.                                  *)

\* A group of the workspace, and a project of it that the user manages.
currentWorkspaceGroup(a, g) == IsWorkspaceAdmin(a) /\ GroupWorkspace[g] = a.ws
authorizedProjectManagement(a, x) == project[x].ws = a.ws /\ ManagesProject(a, x)

BeginGroupMembers(p, g, us) ==
    /\ pc[p] = "ready" /\ currentWorkspaceGroup(req[p], g)
    /\ req' = [req EXCEPT ![p].rest = us, ![p].target = g]
    /\ Goto(p, "check")
    /\ NotWriting /\ UNCHANGED session

\* Users with a role in the project, or groups.
BeginProjectMembers(p, x, who, r) ==
    /\ pc[p] = "ready" /\ authorizedProjectManagement(req[p], x)
    /\ req' = [req EXCEPT ![p].rest = who, ![p].target = x, ![p].as = r]
    /\ Goto(p, "check")
    /\ NotWriting /\ UNCHANGED session

InWorkspace(one, ws) ==
    IF one \in Groups THEN GroupWorkspace[one] = ws ELSE member[ws][one] # "none"

\* userInWorkspace, or the workspace of the group.
Check(p) ==
    /\ pc[p] = "check"
    /\ \E one \in req[p].rest :
         IF InWorkspace(one, req[p].ws)
         THEN Goto(p, "add") /\ req' = [req EXCEPT ![p].one = one]
         ELSE Finish(p)
    /\ NotWriting /\ UNCHANGED session

\* What the insert adds to each table; nothing is removed with a row.
AddUserToGroup(p) ==
    /\ req[p].target \in Groups /\ req[p].one \in Users
    /\ grouped' = [grouped EXCEPT ![req[p].target] = @ \cup {req[p].one}]
    /\ UNCHANGED <<projectRole, projectGroups, catalogue>>
AddGroupToProject(p) ==
    /\ req[p].target \in Projects /\ req[p].one \in Groups
    /\ projectGroups' = [projectGroups EXCEPT ![req[p].target] = @ \cup {req[p].one}]
    /\ UNCHANGED <<grouped, projectRole, catalogue>>
AddProjectMember(p) ==
    /\ req[p].target \in Projects /\ req[p].one \in Users
    /\ projectRole' = [projectRole EXCEPT ![req[p].target][req[p].one] = req[p].as]
    /\ UNCHANGED <<grouped, projectGroups, catalogue>>

Add(p) ==
    /\ pc[p] = "add"
    /\ AddUserToGroup(p) \/ AddGroupToProject(p) \/ AddProjectMember(p)
    /\ LET left == req[p].rest \ {req[p].one}
       IN  IF left = {} THEN Finish(p)
           ELSE Goto(p, "check") /\ req' = [req EXCEPT ![p].rest = left, ![p].one = NoUser]
    /\ Writing
    /\ UNCHANGED <<accounts, session>>

RemoveUserFromGroup(p, g, u) ==
    /\ pc[p] = "ready" /\ currentWorkspaceGroup(req[p], g)
    /\ grouped' = [grouped EXCEPT ![g] = @ \ {u}]
    /\ Writing /\ Finish(p)
    /\ UNCHANGED <<accounts, projectRole, projectGroups, catalogue, session>>

RemoveProjectMember(p, x, u) ==
    /\ pc[p] = "ready" /\ authorizedProjectManagement(req[p], x)
    /\ projectRole' = [projectRole EXCEPT ![x][u] = "none"]
    /\ Writing /\ Finish(p)
    /\ UNCHANGED <<accounts, grouped, projectGroups, catalogue, session>>

RemoveGroupFromProject(p, x, g) ==
    /\ pc[p] = "ready" /\ authorizedProjectManagement(req[p], x)
    /\ projectGroups' = [projectGroups EXCEPT ![x] = @ \ {g}]
    /\ Writing /\ Finish(p)
    /\ UNCHANGED <<accounts, grouped, projectRole, catalogue, session>>

-----------------------------------------------------------------------------
(* Forms of the catalogue. The update names its row by id alone, whatever  *)
(* workspace the row is of, and stores the workspace of the request.       *)

\* A request without a workspace stores the first one.
StoredIn(a) == IF a.ws = 0 THEN First ELSE a.ws

SaveCustomer(p, c) ==
    /\ pc[p] = "ready" /\ IsWorkspaceAdmin(req[p])
    /\ customerWorkspace' = [customerWorkspace EXCEPT ![c] = StoredIn(req[p])]
    /\ Writing /\ Finish(p)
    /\ UNCHANGED <<accounts, grouped, projectRole, projectGroups, project, work, session>>

\* saveProject looks at the customer, saveActivity and saveTask at the project, ...
customerInScope(a, c) == customerWorkspace[c] = a.ws
BeginSaveProject(p, x, c, private) ==
    /\ pc[p] = "ready" /\ IsWorkspaceAdmin(req[p])
    /\ customerInScope(req[p], c)
    /\ req' = [req EXCEPT ![p].target = x,
                          ![p].row = [ws |-> StoredIn(req[p]), customer |-> c, private |-> private]]
    /\ Goto(p, "save")
    /\ NotWriting /\ UNCHANGED session

BeginSaveWork(p, y, x) ==
    /\ pc[p] = "ready" /\ IsWorkspaceAdmin(req[p])
    /\ IF x = NoProject THEN y \in Activities ELSE CanTrackProject(req[p], x)
    /\ req' = [req EXCEPT ![p].target = y, ![p].row = [ws |-> StoredIn(req[p]), project |-> x]]
    /\ Goto(p, "save")
    /\ NotWriting /\ UNCHANGED session

\* ... and store the row later.
UpsertProject(p) ==
    /\ req[p].row \in ProjectRow
    /\ project' = [project EXCEPT ![req[p].target] = req[p].row]
    /\ UNCHANGED <<customerWorkspace, work>>
UpsertWork(p) ==
    /\ req[p].row \in WorkRow
    /\ work' = [work EXCEPT ![req[p].target] = req[p].row]
    /\ UNCHANGED <<project, customerWorkspace>>
Save(p) ==
    /\ pc[p] = "save"
    /\ UpsertProject(p) \/ UpsertWork(p)
    /\ Writing /\ Finish(p)
    /\ UNCHANGED <<accounts, grouped, projectRole, projectGroups, session>>

-----------------------------------------------------------------------------
(* Switching the workspace of a session, and restarts.                     *)

\* Administrators of the organization see every workspace, members theirs while they
\* are not archived.
ListUserWorkspaces(u) ==
    IF OrgAdmin(org[u]) THEN Workspaces ELSE MemberOf(u) \ archived

UserCanAccessWorkspace(p, w) ==
    /\ pc[p] = "ready" /\ w \in ListUserWorkspaces(req[p].user)
    /\ req' = [req EXCEPT ![p].to = w]
    /\ Goto(p, "switch")
    /\ NotWriting /\ UNCHANGED session

\* A session that has been deleted since is not updated.
SwitchSessionWorkspace(p) ==
    /\ pc[p] = "switch"
    /\ session' = [session EXCEPT ![req[p].user] = IF @ = 0 THEN 0 ELSE req[p].to]
    /\ Writing /\ Finish(p)
    /\ UNCHANGED <<accounts, teams>>

\* The backfills of ensureHierarchy at every start: an organization role for the
\* administrators and the first workspace for everyone, where there is no row.
BackfilledIn(w) ==
    [u \in Users |-> IF u \notin Accounts \/ member[w][u] # "none" THEN member[w][u]
                     ELSE workspaceRoleFromLegacy(role[u])]
BackfilledEverywhere == [w \in Workspaces |-> BackfilledIn(w)]
Backfilled == [member EXCEPT ![First] = BackfilledIn(First)]

Restart ==
    /\ org' = [u \in Users |-> IF org[u] # "none" THEN org[u] ELSE organizationRoleFromLegacy(role[u])]
    /\ member' = Backfilled
    /\ pc' = [p \in Handlers |-> "idle"] /\ req' = [p \in Handlers |-> NoRequest]
    /\ Writing
    /\ UNCHANGED <<role, archived, invited, teams, session>>

-----------------------------------------------------------------------------
(* The specification.                                                      *)

\* What u is entitled to: the organization, each workspace as administrator, for
\* reports or for time, and the rows of projects and groups, in the workspace the project is of.
Rights(u) ==
    UNION {
        {<<"organization", First>> : o \in {o \in {org[u]} : OrgAdmin(o)}},
        {<<"administer", w>> : w \in {w \in Workspaces : OrgAdmin(org[u]) \/ member[w][u] = "admin"}},
        {<<"report", w>> : w \in {w \in Workspaces : OrgAdmin(org[u]) \/ member[w][u] \in {"admin", "analyst"}}},
        {<<"track", w>> : w \in {w \in Workspaces : OrgAdmin(org[u]) \/ member[w][u] # "none"}},
        {<<"manage", x, project[x].ws>> : x \in {x \in Projects : projectRole[x][u] = "manager"}},
        {<<"join", x, project[x].ws>> : x \in {x \in Projects : InProject(u, x)}}}

\* What an access is used for: the permissions, and the projects it carries as projects of
\* its workspace.
Claims(a) ==
    UNION {
        {<<"organization", First>> : o \in {o \in {a} : IsOrgAdmin(o)}},
        {<<"administer", w>> : w \in {w \in {a.ws} : IsWorkspaceAdmin(a)}},
        {<<"report", w>> : w \in {w \in {a.ws} : CanViewWorkspaceReports(a)}},
        {<<"track", w>> : w \in {w \in {a.ws} : w > 0}},
        {<<"manage", x, a.ws>> : x \in a.managed}, {<<"join", x, a.ws>> : x \in a.members}}

Handle(p) ==
    \/ Answer(p)
    \/ \E u \in Users, r \in FormRoles : CreateUser(p, u, r) \/ UpdateUser(p, u, r)
    \/ \E w \in Workspaces, archive \in BOOLEAN : SaveWorkspace(p, w, archive)
    \/ \E w \in Workspaces, u \in Users, r \in FormMemberRoles : SetWorkspaceMember(p, w, u, r)
    \/ \E w \in Workspaces, u \in Users : RemoveWorkspaceMember(p, w, u)
    \/ \E g \in Groups, us \in SUBSET Accounts \ {{}} : BeginGroupMembers(p, g, us)
    \/ \E x \in Projects, us \in SUBSET Accounts \ {{}}, r \in ProjectRoles \ {"none"} :
         BeginProjectMembers(p, x, us, r)
    \/ \E x \in Projects, gs \in SUBSET Groups \ {{}} : BeginProjectMembers(p, x, gs, "none")
    \/ Check(p) \/ Add(p)
    \/ \E g \in Groups, u \in Users : RemoveUserFromGroup(p, g, u)
    \/ \E x \in Projects, u \in Users : RemoveProjectMember(p, x, u)
    \/ \E x \in Projects, g \in Groups : RemoveGroupFromProject(p, x, g)
    \/ \E c \in Customers : SaveCustomer(p, c)
    \/ \E x \in Projects, c \in Customers, private \in BOOLEAN : BeginSaveProject(p, x, c, private)
    \/ \E y \in Work, x \in Projects \cup {NoProject} : BeginSaveWork(p, y, x)
    \/ Save(p)
    \/ \E w \in Workspaces : UserCanAccessWorkspace(p, w)
    \/ SwitchSessionWorkspace(p)

Step ==
    \/ \E u \in Users : CreateSession(u) \/ DeleteSession(u)
    \/ \E p \in Handlers, u \in Users : FindSession(p, u)
    \/ \E p \in Handlers : \/ ReadOrganization(p) \/ ReadWorkspace(p)
                           \/ ReadProjectMembers(p) \/ ReadProjectGroups(p)
                           \/ Handle(p)
    \/ Restart

\* Every step adds what the users of the requests in progress are entitled to then.
Entitled(p) == IF pc[p] = "idle" THEN {} ELSE Rights(req[p].user)
Watch ==
    held' = [p \in Handlers |-> IF pc'[p] = "idle" THEN {} ELSE held[p] \cup Entitled(p)']

Next == Step /\ Watch

Spec == Init /\ [][Next]_vars

-----------------------------------------------------------------------------
(* Properties.                                                             *)

TypeOK ==
    /\ role \in [Users -> LegacyRoles \cup {"none"}]
    /\ org \in [Users -> OrgRoles]
    /\ member \in [Workspaces -> [Users -> WorkspaceRoles]]
    /\ archived \subseteq Workspaces
    /\ grouped \in [Groups -> SUBSET Users]
    /\ projectRole \in [Projects -> [Users -> ProjectRoles]]
    /\ projectGroups \in [Projects -> SUBSET Groups]
    /\ project \in [Projects -> ProjectRow]
    /\ customerWorkspace \in [Customers -> Workspaces]
    /\ work \in [Work -> WorkRow]
    /\ session \in [Users -> Workspaces \cup {0}]
    /\ pc \in [Handlers -> Stages]
    /\ req \in [Handlers -> Request]
    /\ invited \subseteq Workspaces \X Users
    /\ writes \in 0..MaxWrites

\* organization_members says the same as user_roles for every account, through the
\* creation and every change of accounts and the backfills of every start: nobody keeps
\* a role in the organization that the account no longer has.
OrgRoleFollowsRole ==
    \A u \in Users : org[u] = organizationRoleFromLegacy(role[u])

\* An access that is read in four statements, and used after other requests changed the
\* tables, never allows what its user was not entitled to at some time since the request
\* began. That goes for the projects it carries too: they were projects of its workspace
\* then, whatever rows of other workspaces the user has left behind and wherever a form
\* moves the project.
NoMoreThanHeld ==
    \A p \in Handlers : pc[p] \notin Reading \cup {"idle"} => Claims(req[p]) \subseteq held[p]

\* Whoever is a member of a workspace other than the first was made one by an
\* administrator since the last removal: no restart, new account or change of roles brings
\* a membership back. (The first workspace is different: backfills and UpdateUser add it.)
MembersWereInvited ==
    \A w \in Workspaces \ {First}, u \in Users : member[w][u] # "none" => <<w, u>> \in invited

\* Every user in every workspace: the projects the lists offer are those that the handlers
\* of time and the project dashboards accept. The work of such a project is offered, and
\* what else is offered belongs to no project, or to one that a form moved out of the
\* workspace: then administrators still see it, and the project's members its activities,
\* though not its tasks. A customer of the workspace with such a project is offered, and to members no
\* other customer. Four queries, one function and AccessForUserWorkspace each spell the
\* rule out, over rows that are moved one at a time.
OfferedIsAccepted ==
    \A u \in Users, w \in Workspaces :
      LET a == AccessForUserWorkspace(u, w)
          tracked == {x \in Projects : CanTrackProject(a, x)}
          offered == ListActivities(a) \cup ListTasks(a)
          served  == {project[x].customer : x \in tracked}
      IN  a.ws # 0 =>
          /\ ListProjects(a) = tracked
          /\ \A y \in Work : work[y].ws = a.ws /\ work[y].project \in tracked => y \in offered
          /\ \A y \in offered : \/ work[y].project \in tracked \cup {NoProject}
                                \/ /\ project[work[y].project].ws # a.ws
                                   /\ \/ IsWorkspaceAdmin(a)
                                      \/ y \in Activities /\ InProject(u, work[y].project)
          /\ {c \in served : customerWorkspace[c] = a.ws} \subseteq ListCustomers(a)
          /\ ListCustomers(a) \subseteq IF IsWorkspaceAdmin(a) THEN Customers ELSE served
=============================================================================
