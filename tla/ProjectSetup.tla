------------------------------- MODULE ProjectSetup -------------------------------
(***************************************************************************)
(* Projects that are made at once: from the draft of the project wizard    *)
(* (internal/platform/http/project_wizard.go, CreateProjectFromDraft) and  *)
(* from a project template, while the forms of module Catalogue change     *)
(* what they refer to.                                                     *)
(*                                                                         *)
(* The draft lives in a cookie of the browser: every step of the wizard is *)
(* a request that reads the cookie and answers with a new one, so requests *)
(* of two tabs overwrite each other, and a step may repeat an old draft.   *)
(***************************************************************************)
EXTENDS Catalogue

CONSTANTS
    Users,
    WorkspaceUsers,     \* the users of each workspace
    FirstDrafts,        \* drafts that earlier steps may have left in the cookie
    FirstTemplates,     \* the templates stored at first
    FormTemplates,      \* bound: what the form of a template may store
    MaxParts            \* bound: tasks or activities of a template

VARIABLES
    cookie,         \* the draft in the browser
    draft,          \* the draft each request works with
    members,        \* table project_members: the role of each user in each project
    templates,      \* tables project_templates, project_template_tasks and _activities
    copy            \* the template each request has read so far

setupVars == <<cookie, draft, members, templates, copy>>
allVars   == <<vars, setupVars>>

Roles == {"member", "manager"}

\* An activity 0 is a new one. Names of workstreams are new ones.
Draft == [customer : Ids, workstreams : SUBSET (Ids \cup Names), activities : SUBSET Ids,
          members : [Users -> Roles \cup {"none"}]]
NoDraft == [customer |-> 0, workstreams |-> {}, activities |-> {},
            members |-> [u \in Users |-> "none"]]

Template == [ws : Workspaces, archived : BOOLEAN, tasks : 0..MaxParts, activities : 0..MaxParts]
Copy     == [ws : Workspaces \cup {0}, customer : Ids, tasks : 0..MaxParts,
             activities : 0..MaxParts, id : Nat]
NoCopy   == [ws |-> 0, customer |-> 0, tasks |-> 0, activities |-> 0, id |-> 0]

ASSUME SetupAssumption ==
    /\ FirstDrafts \subseteq Draft /\ MaxParts \in Nat
    /\ FirstTemplates \in Seq(Template) /\ FormTemplates \subseteq Template

SetupStages == {"respond", "create", "template tasks", "template activities",
                "template customer", "copy"}

SetupInit ==
    /\ Init
    /\ cookie \in FirstDrafts
    /\ draft = [p \in Handlers |-> NoDraft]
    /\ members = [i \in DOMAIN Projects |-> [u \in Users |-> "none"]]
    /\ templates = FirstTemplates
    /\ copy = [p \in Handlers |-> NoCopy]

-----------------------------------------------------------------------------
(* Steps of the wizard.                                                    *)

\* Every step answers with the draft, changed or not; an error shows the same step again.
Step(p, d) ==
    /\ Begin(p)
    /\ draft' = [draft EXCEPT ![p] = d]
    /\ Goto(p, "respond")
    /\ Reading /\ UNCHANGED <<req, cookie, members, templates, copy>>

persistProjectCreateDraft(p) ==
    /\ Continue(p, "respond")
    /\ cookie' = draft[p]
    /\ draft' = [draft EXCEPT ![p] = NoDraft]
    /\ Goto(p, "idle")
    /\ Reading /\ UNCHANGED <<req, members, templates, copy>>

\* The cookie expires after two hours.
ForgetDraft ==
    /\ cookie # NoDraft /\ cookie' = NoDraft
    /\ requests < MaxRequests /\ requests' = requests + 1
    /\ Reading /\ UNCHANGED <<pc, req, draft, members, templates, copy>>

\* What selectorData offers in workspace w.
OfferedCustomers(w)   == {i \in DOMAIN Customers : Customers[i].ws = w}
OfferedWorkstreams(w) == {i \in DOMAIN Workstreams : Workstreams[i].ws = w}
GlobalActivities(w)   == {i \in DOMAIN Activities : Activities[i].ws = w /\ Activities[i].of = 0}

\* The details are kept as they were sent.
readProjectDraftDetails(p, customer) == Step(p, [cookie EXCEPT !.customer = customer])

addDraftWorkstream(p, w, new) ==
    /\ new \in OfferedWorkstreams(w) \cup Names
    /\ Step(p, [cookie EXCEPT !.workstreams = @ \cup {new}])
removeDraftWorkstream(p, old) == Step(p, [cookie EXCEPT !.workstreams = @ \ {old}])

addDraftActivity(p, w, new) ==
    /\ new \in GlobalActivities(w) \cup {0}
    /\ Step(p, [cookie EXCEPT !.activities = @ \cup {new}])
removeDraftActivity(p, old) == Step(p, [cookie EXCEPT !.activities = @ \ {old}])

addDraftUsers(p, w, us, role) ==
    /\ us \subseteq WorkspaceUsers[w]
    /\ Step(p, [cookie EXCEPT !.members = [u \in Users |-> IF u \in us THEN role ELSE @[u]]])
removeDraftUser(p, user) == Step(p, [cookie EXCEPT !.members[user] = "none"])

-----------------------------------------------------------------------------
(* Submission.                                                             *)

validateProjectDraftDetails(d, w)     == d.customer \in OfferedCustomers(w)
validateProjectDraftWorkstreams(d, w) == d.workstreams # {} /\ d.workstreams \cap Ids \subseteq OfferedWorkstreams(w)
validateProjectDraftActivities(d, w)  == d.activities \ {0} \subseteq GlobalActivities(w)
validateProjectDraftMembers(d, w)     == {u \in Users : d.members[u] # "none"} \subseteq WorkspaceUsers[w]

validateProjectDraftAll(d, w) ==
    /\ validateProjectDraftDetails(d, w) /\ validateProjectDraftWorkstreams(d, w)
    /\ validateProjectDraftActivities(d, w) /\ validateProjectDraftMembers(d, w)

Submit(p, w) ==
    IF validateProjectDraftAll(cookie, w)
    THEN /\ Begin(p)
         /\ draft' = [draft EXCEPT ![p] = cookie]
         /\ req' = [req EXCEPT ![p] = FormOf("projects", w, 0, cookie.customer, "none")]
         /\ Goto(p, "create")
         /\ Reading /\ UNCHANGED <<cookie, members, templates, copy>>
    ELSE Step(p, cookie)

\* Whether every statement of the transaction succeeds: a stored workstream must still be
\* there, a new one needs a new name, and only global activities of the workspace are copied.
DraftHolds(d, w) ==
    /\ \A item \in d.workstreams \cap Names : ~NameTaken(Workstreams, w, item)
    /\ \A item \in d.workstreams \cap Ids : Referable(item)
    /\ d.activities \ {0} \subseteq GlobalActivities(w)

\* The tables as they become: the project, numbered or as the form has it, its new
\* workstreams, an activity of its own for every item, and the workstreams assigned to it.
\* Codes and numbers typed in for items are left out: Insert has them.
FromDraft(d, w, numbered) ==
    LET id         == Len(Projects) + 1
        project    == <<Unnumbered(w, d.customer, "none")>>
        names      == SetToSeq(d.workstreams \cap Names)
        new        == [i \in DOMAIN names |-> Unnumbered(w, 0, names[i])]
        activities == [i \in 1..Cardinality(d.activities) |-> Unnumbered(w, id, "none")]
        stored     == (d.workstreams \cap Ids) \cup {Len(Workstreams) + i : i \in DOMAIN names}
    IN  [rows |-> [rows EXCEPT !["projects"]    = IF numbered THEN StoreNumbered(@, project)
                                                  ELSE @ \o project,
                               !["workstreams"] = StoreNumbered(@, new),
                               !["activities"]  = StoreNumbered(@, activities)],
         assigned |-> assigned \cup {<<id, i>> : i \in stored}]

\* What the tables are in the end: a transaction that fails leaves them as they were.
KeptSoFar(holds, new) == new
RolledBack(holds, new) == IF holds THEN new ELSE [rows |-> rows, assigned |-> assigned]

CreateProjectFromDraft(p) ==
    /\ Continue(p, "create")
    /\ LET d     == draft[p]
           w     == req[p].ws
           holds == DraftHolds(d, w)
       IN  /\ \E numbered \in BOOLEAN :
                LET t == RolledBack(holds, FromDraft(d, w, numbered))
                IN  rows' = t.rows /\ assigned' = t.assigned
           /\ members' = IF Len(Projects') = Len(Projects) THEN members
                         ELSE Append(members, d.members)
           /\ Goto(p, IF holds THEN "respond" ELSE "idle")
    /\ \A k \in Kinds : Len(rows'[k]) <= MaxRows
    /\ draft' = [draft EXCEPT ![p] = NoDraft]
    /\ req' = [req EXCEPT ![p] = NoRequest]
    /\ UNCHANGED <<entries, ghosts, cookie, templates, copy>>

-----------------------------------------------------------------------------
(* Templates.                                                              *)

\* UpsertProjectTemplate replaces the row and all its parts in one transaction.
UpsertProjectTemplate(p, w, id, template) ==
    /\ Begin(p) /\ template.ws = w /\ templates[id].ws = w
    /\ templates' = [templates EXCEPT ![id] = template]
    /\ UNCHANGED <<tables, ghosts, pc, req, cookie, draft, members, copy>>

\* CreateProjectFromTemplate reads the template, its tasks and its activities in three
\* statements before its transaction, and then whether the customer is in the workspace.
ReadTemplate(p, w, id, customer) ==
    /\ Begin(p) /\ templates[id].ws = w /\ ~templates[id].archived
    /\ copy' = [copy EXCEPT ![p] = [NoCopy EXCEPT !.ws = w, !.customer = customer, !.id = id]]
    /\ Goto(p, "template tasks")
    /\ Reading /\ UNCHANGED <<req, cookie, draft, members, templates>>

ReadTemplateTasks(p) ==
    /\ Continue(p, "template tasks")
    /\ copy' = [copy EXCEPT ![p].tasks = templates[copy[p].id].tasks]
    /\ Goto(p, "template activities")
    /\ Reading /\ UNCHANGED <<req, cookie, draft, members, templates>>

ReadTemplateActivities(p) ==
    /\ Continue(p, "template activities")
    /\ copy' = [copy EXCEPT ![p].activities = templates[copy[p].id].activities]
    /\ Goto(p, "template customer")
    /\ Reading /\ UNCHANGED <<req, cookie, draft, members, templates>>

ReadTemplateCustomer(p) ==
    /\ Continue(p, "template customer")
    /\ IF copy[p].customer \in OfferedCustomers(copy[p].ws)
       THEN Goto(p, "copy") /\ UNCHANGED copy
       ELSE Goto(p, "idle") /\ copy' = [copy EXCEPT ![p] = NoCopy]
    /\ Reading /\ UNCHANGED <<req, cookie, draft, members, templates>>

\* The numbers are those of the template: none is generated.
CreateProjectFromTemplate(p) ==
    /\ Continue(p, "copy")
    /\ LET c      == copy[p]
           id     == Len(Projects) + 1
           Parts(n) == [i \in 1..n |-> Unnumbered(c.ws, id, "none")]
       IN  rows' = [rows EXCEPT !["projects"]   = Append(@, Unnumbered(c.ws, c.customer, "none")),
                                !["tasks"]      = @ \o Parts(c.tasks),
                                !["activities"] = @ \o Parts(c.activities)]
    /\ \A k \in Kinds : Len(rows'[k]) <= MaxRows
    /\ members' = Append(members, [u \in Users |-> "none"])
    /\ copy' = [copy EXCEPT ![p] = NoCopy]
    /\ Goto(p, "idle")
    /\ UNCHANGED <<assigned, entries, ghosts, req, cookie, draft, templates>>

-----------------------------------------------------------------------------
(* The specification.                                                      *)

Wizard(p) ==
    \/ \E customer \in DOMAIN Customers \cup {0} : readProjectDraftDetails(p, customer)
    \/ \E w \in Workspaces :
         \/ \E item \in Ids \cup Names :
              addDraftWorkstream(p, w, item)
         \/ \E item \in Ids : addDraftActivity(p, w, item)
         \/ \E us \in SUBSET Users \ {{}}, role \in Roles : addDraftUsers(p, w, us, role)
         \/ Submit(p, w)
    \/ \E item \in cookie.workstreams : removeDraftWorkstream(p, item)
    \/ \E item \in cookie.activities : removeDraftActivity(p, item)
    \/ \E u \in Users : cookie.members[u] # "none" /\ removeDraftUser(p, u)
    \/ persistProjectCreateDraft(p) \/ CreateProjectFromDraft(p)

FromTemplate(p) ==
    \/ \E w \in Workspaces, id \in DOMAIN templates :
         \/ \E template \in FormTemplates : UpsertProjectTemplate(p, w, id, template)
         \/ \E customer \in DOMAIN Customers : ReadTemplate(p, w, id, customer)
    \/ ReadTemplateTasks(p) \/ ReadTemplateActivities(p) \/ ReadTemplateCustomer(p)
    \/ CreateProjectFromTemplate(p)

\* The other forms. A project they store has no members yet.
Others ==
    /\ Next
    /\ members' = IF Len(Projects') > Len(members) THEN Append(members, [u \in Users |-> "none"])
                  ELSE members
    /\ draft' = [p \in Handlers |-> IF pc'[p] = "idle" THEN NoDraft ELSE draft[p]]
    /\ copy' = [p \in Handlers |-> IF pc'[p] = "idle" THEN NoCopy ELSE copy[p]]
    /\ UNCHANGED <<cookie, templates>>

SetupNext == ForgetDraft \/ Others \/ \E p \in Handlers : Wizard(p) \/ FromTemplate(p)

SetupSpec == SetupInit /\ [][SetupNext]_allVars

-----------------------------------------------------------------------------
(* Properties.                                                             *)

\* The tables, the drafts and what requests know of them hold values of their types, and
\* each project has its row of members.
TypeOK ==
    /\ TypedWith(Stages \cup SetupStages)
    /\ cookie \in Draft /\ draft \in [Handlers -> Draft]
    /\ members \in Seq([Users -> Roles \cup {"none"}]) /\ Len(members) = Len(Projects)
    /\ templates \in Seq(Template)
    /\ copy \in [Handlers -> Copy]

\* What a step has stored in table k.
Added(k) == {i \in DOMAIN rows'[k] : i > Len(rows[k])}

\* What a step has stored when it stored the project of p. From a draft: a workstream for
\* every item, all of its workspace, an activity of its own for every item, and its members;
\* from a template: the tasks and activities that were read.
StoredWhole(p) ==
    LET id == Len(members) + 1
        w  == IF pc[p] = "create" THEN req[p].ws ELSE copy[p].ws
    IN  /\ \A k \in Kinds : IsPrefix(rows[k], rows'[k])
        /\ Added("projects") = {id} /\ Projects'[id].ws = w
        /\ Added("customers") = {}
        /\ \A k \in {"tasks", "activities"} : \A i \in Added(k) :
             rows'[k][i].ws = w /\ rows'[k][i].of = id
        /\ assigned \subseteq assigned'
        /\ \A pair \in assigned' \ assigned : pair[1] = id /\ Workstreams'[pair[2]].ws = w
        /\ IF pc[p] = "create"
           THEN /\ Cardinality(assigned' \ assigned) = Cardinality(draft[p].workstreams)
                /\ Cardinality(Added("activities")) = Cardinality(draft[p].activities)
                /\ members' = Append(members, draft[p].members)
           ELSE /\ Cardinality(Added("tasks")) = copy[p].tasks
                /\ Cardinality(Added("activities")) = copy[p].activities

\* A project that is made at once is there with everything that was asked for or not at
\* all, and nothing that was stored before is changed for it, whatever forms change the
\* tables between the checks and the transaction.
SetupIsWhole ==
    [][\A p \in Handlers : pc[p] \in {"create", "copy"} /\ pc'[p] # pc[p] /\ UNCHANGED requests =>
        UNCHANGED <<tables, members>> \/ StoredWhole(p)]_allVars
=============================================================================
