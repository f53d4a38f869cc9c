-------------------------------- MODULE Catalogue --------------------------------
(***************************************************************************)
(* Customers, projects, activities, tasks and workstreams, and the entries *)
(* that select them (internal/db/sqlite/store.go, platform/http/server.go).*)
(*                                                                         *)
(* A form is checked and stored in several statements with other requests  *)
(* in between, and an entry keeps the ids it selected while forms move,    *)
(* rename and delete what the ids stand for. Who may open a form is the    *)
(* matter of module Access: here the user may use every project.           *)
(***************************************************************************)
EXTENDS Integers, FiniteSets, Sequences, SequencesExt

CONSTANTS
    Handlers,           \* requests that can be in progress together
    Workspaces,
    Names,              \* names of workstreams, up to case
    ProjectManagement,  \* defaultProjectWorkstreamName
    DefaultNames,       \* the names in defaultWorkstreams
    FirstRows,          \* the tables at first, see Init
    FormKinds,          \* bound: the kinds of rows each request may send a form for
    MaxRows,            \* bound: rows of one table
    MaxRequests         \* bound: requests and restarts

Kinds == {"customers", "projects", "activities", "tasks", "workstreams"}

\* "of" is the customer of a project, or the project of an activity or task, 0 for none.
\* number is 0 unless it was generated; then "after" is the last id in the table when
\* the rows were counted. A row of workspace 0 has been deleted: ids are not used again.
Row == [ws : Workspaces \cup {0}, of : 0..MaxRows, name : Names \cup {"none"},
        number : 0..MaxRows + 1, after : 0..MaxRows]

ASSUME CatalogueAssumption ==
    /\ Workspaces \subseteq Nat \ {0} /\ IsFiniteSet(Workspaces)
    /\ ProjectManagement \in Names /\ DefaultNames \subseteq Names /\ IsFiniteSet(Names)
    /\ "none" \notin Names /\ Names \cap Nat = {}
    /\ MaxRows \in Nat /\ MaxRequests \in Nat /\ FormKinds \in [Handlers -> SUBSET (Kinds \cup {"entries"})]

\* The numbers of the first rows were generated one row after the other.
ASSUME FirstRowsAssumption ==
    /\ FirstRows \in [Kinds -> Seq(Row)]
    /\ \A k \in Kinds :
         /\ Len(FirstRows[k]) <= MaxRows
         /\ \A i \in DOMAIN FirstRows[k] :
              LET row  == FirstRows[k][i]
                  here == {j \in 1..i : FirstRows[k][j].ws = row.ws}
              IN  row.ws # 0 /\ row.after < i /\ row.number \in {0, Cardinality(here)}

VARIABLES
    rows,       \* the tables: a row by its id
    assigned,   \* table project_workstreams: pairs of a project and a workstream
    entries,    \* the selections that were stored in table timesheets
    pc, req,    \* where each request is and what it knows
    moved,      \* rows a form has given another workspace, customer or project
    dropped,    \* pairs that were in project_workstreams once
    left,       \* the tables and workspaces that a row has left
    requests    \* requests and restarts so far

tables == <<rows, assigned, entries>>
ghosts == <<moved, dropped, left>>
vars   == <<tables, pc, req, ghosts, requests>>

Ids == 0..MaxRows
Entry == [ws : Workspaces, customer : Ids, project : Ids, activity : Ids,
          workstream : Ids, task : Ids]
NoEntry == [ws |-> 0, customer |-> 0, project |-> 0, activity |-> 0, workstream |-> 0, task |-> 0]

\* The form of a request, then what it has read. id is 0 for a new row, "project" is what
\* a workstream will be assigned to.
Request == [kind : Kinds \cup {"assigned", "removed", "entries", "none"}, id : Ids,
            ws : Workspaces \cup {0}, of : Ids, name : Names \cup {"none"},
            number : 0..MaxRows + 1, after : Ids, project : Ids, entry : Entry \cup {NoEntry}]
NoRequest == [kind |-> "none", id |-> 0, ws |-> 0, of |-> 0, name |-> "none",
              number |-> 0, after |-> 0, project |-> 0, entry |-> NoEntry]

Stages == {"idle", "upsert", "insert", "list", "assign",
           "remove", "track", "activity", "workstreams", "task", "record"}

-----------------------------------------------------------------------------
(* The tables.                                                             *)

Customers   == rows["customers"]
Projects    == rows["projects"]
Activities  == rows["activities"]
Tasks       == rows["tasks"]
Workstreams == rows["workstreams"]

Init ==
    /\ rows = FirstRows
    /\ assigned = {} /\ entries = {}
    /\ pc = [p \in Handlers |-> "idle"] /\ req = [p \in Handlers |-> NoRequest]
    /\ moved = {} /\ dropped = {} /\ left = {}
    /\ requests = 0

CountIn(table, w) == Cardinality({i \in DOMAIN table : table[i].ws = w})

\* The next number is the count of the rows and one.
CountOnly(table, w) == CountIn(table, w)
generateEntityID(table, w) == CountIn(table, w) + 1

\* A row without a generated number.
Unnumbered(w, of, name) == [ws |-> w, of |-> of, name |-> name, number |-> 0, after |-> 0]

NameTaken(table, w, name) == \E i \in DOMAIN table : table[i].ws = w /\ table[i].name = name

\* The pairs of a project; a deleted workstream takes its pairs with it.
ListProjectWorkstreams(project) == {i \in Ids : <<project, i>> \in assigned}

-----------------------------------------------------------------------------
(* Requests.                                                               *)

Goto(p, stage) == pc' = [pc EXCEPT ![p] = stage]
Finish(p) == Goto(p, "idle") /\ req' = [req EXCEPT ![p] = NoRequest]

\* Whether a request arrives with the statement; what a statement that only reads leaves.
Begin(p) == pc[p] = "idle" /\ requests < MaxRequests /\ requests' = requests + 1
Continue(p, stage) == pc[p] = stage /\ UNCHANGED requests
Reading == UNCHANGED <<tables, ghosts>>

\* The next statement of p if what it reads is as the form needs it, or an error.
GuardedBy(p, holds, stage) ==
    /\ IF holds THEN Goto(p, stage) /\ UNCHANGED req ELSE Finish(p)
    /\ Reading

\* The first check of a form: one that is refused here changes nothing and is left out.
Arrive(p, form, holds, stage) ==
    /\ holds
    /\ req' = [req EXCEPT ![p] = form]
    /\ Goto(p, stage)
    /\ Reading

\* The first statement of UpsertCustomer, UpsertProject, UpsertActivity, UpsertTask and
\* UpsertWorkstream for a new row, unless the form gives a number. The form of a new
\* workstream has no field for it.
NextNumber(p, form) ==
    /\ \/ form.kind # "workstreams" /\ req' = [req EXCEPT ![p] = form]
       \/ req' = [req EXCEPT ![p] =
                    [form EXCEPT !.number = generateEntityID(rows[form.kind], form.ws),
                                 !.after = Len(rows[form.kind])]]
    /\ Goto(p, "insert")
    /\ Reading

\* ... and for a stored one: the whole row, the workspace too, and the number as the form
\* has it, as it was or blank. A workstream keeps its workspace, and only there is it found.
Update(p, form) ==
    /\ \E number \in {0, rows[form.kind][form.id].number} :
         LET k   == form.kind
             old == rows[k][form.id]
             new == [old EXCEPT !.ws = form.ws, !.of = form.of, !.name = form.name, !.number = number]
         IN  IF k = "workstreams" /\ (\/ old.ws # new.ws
                                      \/ old.name # new.name /\ NameTaken(rows[k], new.ws, new.name))
             THEN Reading
             ELSE /\ rows' = [rows EXCEPT ![k][form.id] = new]
                  /\ moved' = IF <<old.ws, old.of>> = <<new.ws, new.of>> THEN moved
                              ELSE moved \cup {<<k, form.id>>}
                  /\ left' = IF old.ws = new.ws THEN left ELSE left \cup {<<k, old.ws>>}
                  /\ UNCHANGED <<assigned, entries, dropped>>
    /\ Finish(p)

Upsert(p, form) == IF form.id = 0 THEN NextNumber(p, form) ELSE Update(p, form)
UpsertStatement(p) == Continue(p, "upsert") /\ Upsert(p, req[p])

customerInScope(w, customer) == Customers[customer].ws = w
canTrackProject(w, project)  == Projects[project].ws = w

\* The forms. An id may be of another workspace: the form was opened before the session
\* switched to this one.
FormOf(kind, w, id, of, name) ==
    [NoRequest EXCEPT !.kind = kind, !.ws = w, !.id = id, !.of = of, !.name = name]

saveCustomer(p, w, id) ==
    /\ Begin(p) /\ id \in 0..Len(Customers)
    /\ Upsert(p, FormOf("customers", w, id, 0, "none"))
saveProject(p, w, id, customer) ==
    /\ Begin(p) /\ id \in 0..Len(Projects) /\ customer \in DOMAIN Customers
    /\ Arrive(p, FormOf("projects", w, id, customer, "none"), customerInScope(w, customer), "upsert")
saveActivity(p, w, id, project) ==
    /\ Begin(p) /\ id \in 0..Len(Activities) /\ project \in 0..Len(Projects)
    /\ IF project = 0 THEN Upsert(p, FormOf("activities", w, id, 0, "none"))
       ELSE Arrive(p, FormOf("activities", w, id, project, "none"), canTrackProject(w, project), "upsert")
saveTask(p, w, id, project) ==
    /\ Begin(p) /\ id \in 0..Len(Tasks) /\ project \in DOMAIN Projects
    /\ Arrive(p, FormOf("tasks", w, id, project, "none"), canTrackProject(w, project), "upsert")
saveWorkstream(p, w, id, name) ==
    /\ Begin(p) /\ id \in 0..Len(Workstreams)
    /\ Upsert(p, FormOf("workstreams", w, id, 0, name))

NewRow(r) == [ws |-> r.ws, of |-> r.of, name |-> r.name, number |-> r.number, after |-> r.after]

\* A new project goes on to its default workstream, a workstream made for a project to
\* its assignment. A name that is taken is refused.
Insert(p) ==
    /\ Continue(p, "insert")
    /\ LET k  == req[p].kind
           id == Len(rows[k]) + 1
       IN  IF k = "workstreams" /\ NameTaken(rows[k], req[p].ws, req[p].name)
           THEN Finish(p) /\ Reading
           ELSE /\ id <= MaxRows
                /\ rows' = [rows EXCEPT ![k] = Append(@, NewRow(req[p]))]
                /\ IF k = "projects"
                   THEN Goto(p, "list") /\ req' = [req EXCEPT ![p].project = id]
                   ELSE IF req[p].project # 0
                   THEN Goto(p, "assign") /\ req' = [req EXCEPT ![p].id = id]
                   ELSE Finish(p)
                /\ UNCHANGED <<assigned, entries, ghosts>>

\* ensureDefaultProjectWorkstream looks for the default workstream, and stores it if
\* there is none.
ListWorkstreams(p) ==
    /\ Continue(p, "list")
    /\ LET found == {i \in DOMAIN Workstreams :
                        Workstreams[i].ws = req[p].ws /\ Workstreams[i].name = ProjectManagement}
           new == [FormOf("workstreams", req[p].ws, 0, 0, ProjectManagement)
                     EXCEPT !.project = req[p].project]
       IN  IF found = {} THEN Goto(p, "upsert") /\ req' = [req EXCEPT ![p] = new]
           ELSE \E i \in found : /\ Goto(p, "assign")
                                 /\ req' = [req EXCEPT ![p] = [new EXCEPT !.id = i]]
    /\ Reading

\* The forms of a project's workstreams: the workstream may be of any workspace.
saveProjectWorkstream(p, w, project, id) ==
    /\ Begin(p) /\ project \in DOMAIN Projects /\ id \in DOMAIN Workstreams
    /\ Arrive(p, [FormOf("assigned", w, id, 0, "none") EXCEPT !.project = project],
              Projects[project].ws = w, "assign")
removeProjectWorkstream(p, w, project, id) ==
    /\ Begin(p) /\ project \in DOMAIN Projects /\ <<project, id>> \in assigned
    /\ Arrive(p, [FormOf("removed", w, id, 0, "none") EXCEPT !.project = project],
              Projects[project].ws = w, "remove")

\* A workstream that has been deleted since is refused by the foreign key.
StillThere(id) == id \in DOMAIN Workstreams
Referable(id)  == id \in DOMAIN Workstreams /\ Workstreams[id].ws # 0
UpsertProjectWorkstream(p) ==
    /\ Continue(p, "assign")
    /\ IF ~Referable(req[p].id) THEN Reading
       ELSE /\ assigned' = assigned \cup {<<req[p].project, req[p].id>>}
            /\ UNCHANGED <<rows, entries, ghosts>>
    /\ Finish(p)

Drop(pairs) == assigned' = assigned \ pairs /\ dropped' = dropped \cup (assigned \cap pairs)

RemoveProjectWorkstream(p) ==
    /\ Continue(p, "remove")
    /\ Drop({<<req[p].project, req[p].id>>})
    /\ Finish(p)
    /\ UNCHANGED <<rows, entries, moved, left>>

\* deleteWorkstream: the pairs go with the row, the entries keep the id.
DeleteWorkstream(p, w, id) ==
    /\ Begin(p) /\ id \in DOMAIN Workstreams /\ Workstreams[id].ws = w
    /\ rows' = [rows EXCEPT !["workstreams"][id] = Unnumbered(0, 0, "none")]
    /\ Drop({<<project, id>> : project \in DOMAIN Projects})
    /\ left' = left \cup {<<"workstreams", w>>}
    /\ UNCHANGED <<entries, pc, req, moved>>

-----------------------------------------------------------------------------
(* Entries: the statements of validateWorkSelection, then the insert.      *)

ProjectFitsAnyCustomer(e) == Projects[e.project].ws = e.ws
ProjectFits(e) == Projects[e.project].ws = e.ws /\ Projects[e.project].of = e.customer

\* saveTimesheet, startTimer or updateTimesheet; the first check is the first statement's.
saveTimesheet(p, e) ==
    /\ Begin(p)
    /\ Arrive(p, [NoRequest EXCEPT !.kind = "entries", !.ws = e.ws, !.entry = e],
              ProjectFits(e), "track")

\* canTrackProject reads the project again.
TrackProject(p) ==
    /\ Continue(p, "track")
    /\ GuardedBy(p, canTrackProject(req[p].ws, req[p].entry.project), "activity")

\* An activity of the project, or a global one.
ActivityFits(e) ==
    Activities[e.activity].ws = e.ws /\ Activities[e.activity].of \in {0, e.project}
SelectActivity(p) ==
    /\ Continue(p, "activity") /\ GuardedBy(p, ActivityFits(req[p].entry), "workstreams")

\* One of the workstreams of the project; without any the one in the form is ignored.
SelectWorkstream(p) ==
    /\ Continue(p, "workstreams")
    /\ LET e  == req[p].entry
           ws == ListProjectWorkstreams(e.project)
       IN  IF ws = {}
           THEN req' = [req EXCEPT ![p].entry.workstream = 0] /\ Goto(p, "task")
           ELSE IF e.workstream \in ws THEN UNCHANGED req /\ Goto(p, "task")
           ELSE Finish(p)
    /\ Reading

TaskFits(e) == e.task # 0 => Tasks[e.task].ws = e.ws /\ Tasks[e.task].of = e.project
SelectTask(p) ==
    /\ Continue(p, "task") /\ GuardedBy(p, TaskFits(req[p].entry), "record")

CreateTimesheet(p) ==
    /\ Continue(p, "record")
    /\ entries' = entries \cup {req[p].entry}
    /\ Finish(p)
    /\ UNCHANGED <<rows, assigned, ghosts>>

-----------------------------------------------------------------------------
(* Restarts.                                                               *)

\* Rows that are stored one after the other, each with the number that is next then.
StoreNumbered(table, new) ==
    LET all == table \o new
    IN  [i \in DOMAIN all |->
           IF i <= Len(table) THEN table[i]
           ELSE [all[i] EXCEPT !.number = generateEntityID(SubSeq(all, 1, i - 1), all[i].ws),
                               !.after = i - 1]]

\* A default workstream is stored again where its name is missing.
ensureDefaultWorkstreams(table) ==
    LET missing == SetToSeq({wn \in Workspaces \X DefaultNames : ~NameTaken(table, wn[1], wn[2])})
    IN  StoreNumbered(table, [i \in DOMAIN missing |-> Unnumbered(missing[i][1], 0, missing[i][2])])

Restart ==
    /\ rows' = [rows EXCEPT !["workstreams"] = ensureDefaultWorkstreams(@)]
    /\ Len(rows'["workstreams"]) <= MaxRows
    /\ pc' = [p \in Handlers |-> "idle"] /\ req' = [p \in Handlers |-> NoRequest]
    /\ requests < MaxRequests /\ requests' = requests + 1
    /\ UNCHANGED <<assigned, entries, ghosts>>

-----------------------------------------------------------------------------
(* The specification.                                                      *)

Selections ==
    [ws : Workspaces, customer : DOMAIN Customers, project : DOMAIN Projects,
     activity : DOMAIN Activities, workstream : 0..Len(Workstreams), task : 0..Len(Tasks)]

Form(p) ==
    \E w \in Workspaces, id \in Ids :
      \/ "customers" \in FormKinds[p] /\ saveCustomer(p, w, id)
      \/ \E of \in Ids : \/ "projects"   \in FormKinds[p] /\ saveProject(p, w, id, of)
                         \/ "activities" \in FormKinds[p] /\ saveActivity(p, w, id, of)
                         \/ "tasks"      \in FormKinds[p] /\ saveTask(p, w, id, of)
      \/ /\ "workstreams" \in FormKinds[p]
         /\ \/ \E name \in Names : saveWorkstream(p, w, id, name)
            \/ DeleteWorkstream(p, w, id)
            \/ \E project \in Ids : \/ saveProjectWorkstream(p, w, project, id)
                                    \/ removeProjectWorkstream(p, w, project, id)
Serve(p) ==
    \/ UpsertStatement(p) \/ Insert(p)
    \/ ListWorkstreams(p) \/ UpsertProjectWorkstream(p) \/ RemoveProjectWorkstream(p)
    \/ TrackProject(p) \/ SelectActivity(p) \/ SelectWorkstream(p) \/ SelectTask(p)
    \/ CreateTimesheet(p)

Next ==
    \/ \E p \in Handlers :
         \/ Form(p)
         \/ "entries" \in FormKinds[p] /\ \E e \in Selections : saveTimesheet(p, e)
         \/ Serve(p)
    \/ Restart

Spec == Init /\ [][Next]_vars

-----------------------------------------------------------------------------
(* Properties.                                                             *)

\* Tables and requests hold values of their types, and the foreign keys of
\* project_workstreams hold, where "stages" are the stages of a request.
TypedWith(stages) ==
    /\ rows \in [Kinds -> Seq(Row)]
    /\ \A k \in Kinds : Len(rows[k]) <= MaxRows
    /\ assigned \subseteq Ids \X Ids
    /\ \A pair \in assigned : /\ pair[1] \in DOMAIN Projects
                               /\ pair[2] \in DOMAIN Workstreams /\ Workstreams[pair[2]].ws # 0
    /\ entries \subseteq Entry
    /\ pc \in [Handlers -> stages]
    /\ req \in [Handlers -> Request]
    /\ moved \subseteq Kinds \X Ids /\ dropped \subseteq Ids \X Ids
    /\ left \subseteq Kinds \X Workspaces
    /\ requests \in 0..MaxRequests

\* Two rows of a table and workspace have the same generated number only if the later one
\* was counted for before the earlier one was stored, if a row has left that workspace, or
\* if a form moved one of them there. Nothing else repeats a number: no number typed in, no
\* restart, no project set up in one transaction.
NumbersExplained ==
    \A k \in Kinds : \A i, j \in DOMAIN rows[k] :
        LET a == rows[k][i]  b == rows[k][j]
        IN  i < j /\ a.ws = b.ws /\ a.number = b.number /\ b.number > 0
            => b.after < i \/ <<k, b.ws>> \in left \/ {<<k, i>>, <<k, j>>} \cap moved # {}

\* What an entry selected stays together: its project has its customer, its activity is
\* of that project or global, its task is of that project, and its workstream is, or was,
\* one of the project, all in the workspace of the entry, unless a form has moved the
\* row. No other request, restart or deletion changes what the ids stand for.
EntriesFit ==
    \A e \in entries :
        /\ <<"projects", e.project>> \notin moved =>
               Projects[e.project].ws = e.ws /\ Projects[e.project].of = e.customer
        /\ <<"activities", e.activity>> \notin moved =>
               Activities[e.activity].ws = e.ws /\ Activities[e.activity].of \in {0, e.project}
        /\ e.task # 0 /\ <<"tasks", e.task>> \notin moved =>
               Tasks[e.task].ws = e.ws /\ Tasks[e.task].of = e.project
        /\ e.workstream # 0 => <<e.project, e.workstream>> \in assigned \cup dropped
=============================================================================
