--------------------------------- MODULE Reports ---------------------------------
(***************************************************************************)
(* What reports, dashboards and links to saved reports say of the entries  *)
(* of a workspace (internal/db/sqlite/store.go, platform/http/server.go).  *)
(*                                                                         *)
(* The same hours are added up by queries that were written apart from     *)
(* each other: ListReports, Dashboard, ProjectDashboard with its seven     *)
(* breakdowns, and UtilizationReport. Here they are operators over the     *)
(* tables, and requests of other modules change the tables below them.     *)
(*                                                                         *)
(* Times count half days: an even one is the midnight that begins a day,   *)
(* which is also what a date in a filter stands for.                       *)
(***************************************************************************)
EXTENDS Integers, FiniteSets, Sequences, FiniteSetsExt

CONSTANTS
    Users, Customers, Projects, Activities, Tasks, Workstreams,
    CustomerOf,     \* the customer of each project
    GroupMembers,   \* the members of each group of workspace 1
    Admins,         \* users with an administrator's row in workspace_members
    None,           \* NULL, or a filter that is not set
    Budgets,        \* of each project: estimate_seconds, budget_cents, budget_alert_percent
    Work,           \* what may be entered: an entry that has ended
    RateForms,      \* rates that may be saved: user, project, effective_from
    Filters,        \* filters a page may be asked for
    Viewers,        \* access contexts a page may be asked with
    ShareDays,      \* values of the form field "days"
    MaxTime, MaxReports, MaxRequests    \* bounds

VARIABLES
    entries,    \* table timesheets: an entry by its id
    place,      \* the workspace of each row of the catalogue, 0 for a deleted one
    rates,      \* table rates: those with a user and a project
    saved,      \* table saved_reports: a report by its id
    now,
    given,      \* by token: the report it was made for and the end it was promised
    dead,       \* tokens that were replaced, revoked or deleted with their report
    shown,      \* the token whose link was opened last, and when
    requests    \* requests so far

sharing == <<saved, given, dead, shown>>
vars == <<entries, place, rates, sharing, now, requests>>

Catalogue == Customers \cup Projects \cup Activities \cup Tasks \cup Workstreams
Home == 1       \* the workspace the pages are about
Time == 0..MaxTime

Entry == [ws : {1, 2}, user : Users, customer : Customers, project : Projects,
          activity : Activities, task : Tasks \cup {None}, workstream : Workstreams \cup {None},
          at : Time, seconds : Nat, rate : Nat, billable : BOOLEAN, exported : BOOLEAN,
          ended : BOOLEAN]
SavedReport == [owner : Users, shared : BOOLEAN, token : Nat, expires : Nat, deleted : BOOLEAN]

ASSUME ReportsAssumption ==
    /\ CustomerOf \in [Projects -> Customers] /\ Admins \subseteq Users
    /\ None \notin Tasks \cup Workstreams \cup Projects
    /\ Work \subseteq Entry /\ \A e \in Work : e.ended /\ ~e.exported /\ e.customer = CustomerOf[e.project]
    /\ MaxTime \in Nat /\ MaxReports \in Nat /\ MaxRequests \in Nat

\* Tables are finite, and their rows refer to users and projects that exist.
ASSUME TablesAssumption ==
    /\ \A table \in {Users, Customers, Projects, Activities} : IsFiniteSet(table)
    /\ \A g \in DOMAIN GroupMembers : GroupMembers[g] \subseteq Users
    /\ RateForms \subseteq [user : Users, project : Projects, from : Nat]
    /\ \A a \in Viewers : a.user \in Users

Init ==
    /\ entries = <<>> /\ rates = <<>> /\ saved = <<>>
    /\ place = [row \in Catalogue |-> Home]
    /\ now = 0
    /\ given = <<>> /\ dead = {} /\ shown = [token |-> 0, report |-> 0, at |-> 0]
    /\ requests = 0

-----------------------------------------------------------------------------
(* Requests that change the tables, see modules TimeEntries, Catalogue and *)
(* Rates for what they check.                                              *)

Request == requests < MaxRequests /\ requests' = requests + 1

\* An entry may select what is in its workspace.
Selectable(e) ==
    /\ \A row \in {e.customer, e.project, e.activity} : place[row] = e.ws
    /\ \A row \in {e.task, e.workstream} \ {None} : place[row] = e.ws

IsRunning(i) == ~entries[i].ended

CreateTimesheet(e) ==
    /\ Request /\ Selectable(e)
    /\ entries' = Append(entries, e)
    /\ UNCHANGED <<place, rates, sharing, now>>

StartedAsLogged(e) == [e EXCEPT !.at = now, !.ended = FALSE]
Started(e) == [e EXCEPT !.at = now, !.seconds = 0, !.ended = FALSE]
StartTimer(e) ==
    /\ Request /\ Selectable(e)
    /\ \A i \in DOMAIN entries : ~(IsRunning(i) /\ entries[i].user = e.user)
    /\ entries' = Append(entries, Started(e))
    /\ UNCHANGED <<place, rates, sharing, now>>

HalfDay == 43200
StopTimer(i) ==
    /\ Request /\ IsRunning(i)
    /\ entries' = [entries EXCEPT ![i].ended = TRUE, ![i].seconds = (now - entries[i].at) * HalfDay]
    /\ UNCHANGED <<place, rates, sharing, now>>

\* CreateInvoice marks what was billable for a customer and not exported, running or not.
CreateInvoice(c) ==
    /\ Request
    /\ entries' = [i \in DOMAIN entries |->
                     LET e == entries[i]
                     IN  IF e.ws = Home /\ e.customer = c /\ e.billable
                         THEN [e EXCEPT !.exported = TRUE] ELSE e]
    /\ UNCHANGED <<place, rates, sharing, now>>

\* A form that was opened in one workspace and sent in another takes its row there.
MoveRow(row, w) ==
    /\ Request /\ place[row] \notin {0, w}
    /\ place' = [place EXCEPT ![row] = w]
    /\ UNCHANGED <<entries, rates, sharing, now>>

DeleteWorkstream(row) ==
    /\ Request /\ place[row] = Home
    /\ place' = [place EXCEPT ![row] = 0]
    /\ UNCHANGED <<entries, rates, sharing, now>>

SaveRate(r) ==
    /\ Request
    /\ rates' = Append(rates, r)
    /\ UNCHANGED <<entries, place, sharing, now>>

-----------------------------------------------------------------------------
(* Saved reports and their links.                                          *)

\* What each statement on a saved report asks of the user.
MayChange(u, id) == ~saved[id].deleted /\ (saved[id].owner = u \/ u \in Admins)

TokensOf(id) == {t \in DOMAIN given : given[t].report = id}

CreateSavedReport(u, shared) ==
    /\ Request /\ Len(saved) < MaxReports
    /\ saved' = Append(saved, [owner |-> u, shared |-> shared, token |-> 0, expires |-> 0,
                               deleted |-> FALSE])
    /\ UNCHANGED <<entries, place, rates, given, dead, shown, now>>

\* The link stays.
UpdateSavedReport(u, id, shared) ==
    /\ Request /\ MayChange(u, id)
    /\ saved' = [saved EXCEPT ![id].shared = shared]
    /\ UNCHANGED <<entries, place, rates, given, dead, shown, now>>

DeleteSavedReport(u, id) ==
    /\ Request /\ MayChange(u, id)
    /\ saved' = [saved EXCEPT ![id].deleted = TRUE]
    /\ dead' = dead \cup TokensOf(id)
    /\ UNCHANGED <<entries, place, rates, given, shown, now>>

\* shareSavedReport: tokens are random and never repeat.
Days(n) == IF n \in 1..365 THEN n ELSE 30
SharedRow(row, token, until) == [row EXCEPT !.token = token, !.expires = until]
SetReportShareToken(u, id, n) ==
    /\ Request /\ MayChange(u, id)
    /\ LET token == Len(given) + 1  until == now + 2 * Days(n)
       IN  /\ saved' = [saved EXCEPT ![id] = SharedRow(@, token, until)]
           /\ given' = Append(given, [report |-> id, until |-> until])
    /\ dead' = dead \cup TokensOf(id)
    /\ UNCHANGED <<entries, place, rates, shown, now>>

UnsharedExpiry(row) == [row EXCEPT !.expires = 0]
Unshared(row) == [row EXCEPT !.token = 0, !.expires = 0]
RevokeReportShareToken(u, id) ==
    /\ Request /\ MayChange(u, id)
    /\ saved' = [saved EXCEPT ![id] = Unshared(@)]
    /\ dead' = dead \cup TokensOf(id)
    /\ UNCHANGED <<entries, place, rates, given, shown, now>>

\* The reports a token finds, and whether the page opens. An expiry that is not set never passes.
FindSharedReport(token) == {id \in DOMAIN saved : ~saved[id].deleted /\ saved[id].token = token}
HasExpired(id) == saved[id].expires # 0 /\ saved[id].expires < now

\* Whoever has the link opens it. The page is the report of an administrator, by user.
viewSharedReport(token) ==
    /\ Request
    /\ \E id \in FindSharedReport(token) :
         ~HasExpired(id) /\ shown' = [token |-> token, report |-> id, at |-> now]
    /\ UNCHANGED <<entries, place, rates, saved, given, dead, now>>

Tick ==
    /\ now < MaxTime /\ now' = now + 1
    /\ UNCHANGED <<entries, place, rates, sharing, requests>>

Next ==
    \/ \E e \in Work : CreateTimesheet(e) \/ StartTimer(e)
    \/ \E i \in DOMAIN entries : StopTimer(i)
    \/ \E c \in Customers : CreateInvoice(c)
    \/ \E row \in Catalogue, w \in {1, 2} : MoveRow(row, w)
    \/ \E row \in Workstreams : DeleteWorkstream(row)
    \/ \E r \in RateForms : SaveRate(r)
    \/ \E u \in Users :
         \/ \E shared \in BOOLEAN : CreateSavedReport(u, shared)
         \/ \E id \in DOMAIN saved :
              \/ \E shared \in BOOLEAN : UpdateSavedReport(u, id, shared)
              \/ DeleteSavedReport(u, id)
              \/ \E n \in ShareDays : SetReportShareToken(u, id, n)
              \/ RevokeReportShareToken(u, id)
    \/ \E token \in DOMAIN given : viewSharedReport(token)
    \/ Tick

Spec == Init /\ [][Next]_vars

-----------------------------------------------------------------------------
(* Queries.                                                                *)

Cents(e)      == (e.rate * e.seconds) \div 3600
SecondsOf(S)  == MapThenSumSet(LAMBDA i : entries[i].seconds, S)
CentsOf(S)    == MapThenSumSet(LAMBDA i : Cents(entries[i]), S)
BillableOf(S) == {i \in S : entries[i].billable}
UnbilledOf(S) == {i \in S : entries[i].billable /\ ~entries[i].exported}

SeesAll(a) == a.role \in {"admin", "analyst"}

\* reportScope: a member sees what is his or of a project he has access to.
ReportScope(a, e) == SeesAll(a) \/ e.user = a.user \/ e.project \in a.projects

\* reportFilterSQL: the last day ends at its midnight, when it has hardly begun.
ReportFilter(f, e) ==
    /\ f.begin # None => e.at >= f.begin
    /\ f.end # None => e.at <= f.end
    /\ f.project # None => e.project = f.project
    /\ f.task # None => e.task = f.task
    /\ f.user # None => e.user = f.user
    /\ f.billable # None => e.billable = f.billable

\* ListReports for one of these groupings: only that of users asks for the workspace of
\* the entry, the others rely on that of the row. A row without entries counts zero.
GroupRows == [user |-> Users, customer |-> Customers, project |-> Projects,
              activity |-> Activities, task |-> Tasks]
Reported(group, a, f) ==
    {i \in DOMAIN entries :
        /\ entries[i][group] \in GroupRows[group]
        /\ IF group = "user" THEN entries[i].ws = Home ELSE place[entries[i][group]] = Home
        /\ ReportScope(a, entries[i]) /\ ReportFilter(f, entries[i])}
ListReports(group, a, f) ==
    [row \in GroupRows[group] |->
        LET S == {i \in Reported(group, a, f) : entries[i][group] = row}
        IN  [count |-> Cardinality(S), seconds |-> SecondsOf(S), cents |-> CentsOf(S)]]

\* The grouping of groups takes neither a filter nor the scope of the user.
GroupReport(g) ==
    SecondsOf({i \in DOMAIN entries : entries[i].user \in GroupMembers[g] /\ entries[i].ws = Home})

DashboardScopeAll(a, e) == SeesAll(a) \/ a.projects = {} \/ e.user = a.user \/ e.project \in a.projects
\* Dashboard writes the scope once more, and takes no project for a scope of its own.
DashboardScope(a, e) ==
    SeesAll(a) \/ IF a.projects = {} THEN e.user = a.user
                  ELSE e.user = a.user \/ e.project \in a.projects
ActiveTimers(a) == {i \in DOMAIN entries : entries[i].ws = Home /\ IsRunning(i) /\ DashboardScope(a, entries[i])}
Unexported(a)   == {i \in UnbilledOf(DOMAIN entries) :
                      entries[i].ws = Home /\ ~IsRunning(i) /\ DashboardScope(a, entries[i])}

Percent(part, whole) == IF whole > 0 THEN (part * 100) \div whole ELSE 0
Threshold(p) == IF Budgets[p].alert = 0 THEN 80 ELSE Budgets[p].alert

\* A line of the watchlist of Dashboard, running entries included.
ProjectWatch(p) ==
    LET S == {i \in DOMAIN entries : entries[i].project = p /\ entries[i].ws = Home}
        estimate == Percent(SecondsOf(S), Budgets[p].estimate)
        budget   == Percent(CentsOf(BillableOf(S)), Budgets[p].budget)
    IN  [tracked |-> SecondsOf(S), billable |-> CentsOf(BillableOf(S)),
         unbilledSeconds |-> SecondsOf(UnbilledOf(S)), unbilledCents |-> CentsOf(UnbilledOf(S)),
         estimatePercent |-> estimate, budgetPercent |-> budget,
         estimateAlert |-> Budgets[p].estimate > 0 /\ estimate >= Threshold(p),
         budgetAlert   |-> Budgets[p].budget > 0 /\ budget >= Threshold(p)]

\* projectDashboardFilterSQL: the last day counts whole, and billable is no filter.
ProjectDashboardFilter(f, e) ==
    /\ f.begin # None => e.at >= f.begin
    /\ f.end # None => e.at < f.end + 2
    /\ f.task # None => e.task = f.task
    /\ f.user # None => e.user = f.user
Ended(p, f) ==
    {i \in DOMAIN entries : /\ entries[i].ws = Home /\ entries[i].project = p /\ ~IsRunning(i)
                            /\ ProjectDashboardFilter(f, entries[i])}
ProjectDashboard(p, f) ==
    LET S == Ended(p, f)
        estimate == Percent(SecondsOf(S), Budgets[p].estimate)
        budget   == Percent(CentsOf(BillableOf(S)), Budgets[p].budget)
    IN  [tracked |-> SecondsOf(S), billable |-> CentsOf(BillableOf(S)),
         unbilledSeconds |-> SecondsOf(UnbilledOf(S)), unbilledCents |-> CentsOf(UnbilledOf(S)),
         billableSeconds |-> SecondsOf(BillableOf(S)),
         nonBillableSeconds |-> SecondsOf(S \ BillableOf(S)),
         estimatePercent |-> estimate, budgetPercent |-> budget,
         alert |-> \/ Budgets[p].estimate > 0 /\ estimate >= Threshold(p)
                   \/ Budgets[p].budget > 0 /\ budget >= Threshold(p)]

\* Where an entry falls in the breakdown by a kind of row: not assigned, unknown because
\* the row is gone or elsewhere, or under its row.
JoinedOnly(kind, i) == entries[i][kind] # None /\ place[entries[i][kind]] = Home
Joined(kind, i) == TRUE
Bucket(kind, i) ==
    LET row == entries[i][kind]
    IN  IF row = None THEN <<"unassigned", None>>
        ELSE IF place[row] # entries[i].ws THEN <<"unknown", row>> ELSE <<"known", row>>
Breakdown(kind, p, f) ==
    LET S == {i \in Ended(p, f) : Joined(kind, i)}
        In(b) == {i \in S : Bucket(kind, i) = b}
    IN  [b \in {Bucket(kind, i) : i \in S} |->
            [tracked |-> SecondsOf(In(b)), unbilled |-> SecondsOf(UnbilledOf(In(b)))]]

\* The same by user and bucket, those with no time left out.
Contributors(kind, p, f) ==
    LET S == {i \in Ended(p, f) : Joined(kind, i)}
        In(ub) == {i \in S : entries[i].user = ub[1] /\ Bucket(kind, i) = ub[2]}
        Pairs == {<<entries[i].user, Bucket(kind, i)>> : i \in S}
    IN  [ub \in {x \in Pairs : SecondsOf(In(x)) > 0} |-> SecondsOf(In(ub))]

\* UtilizationReport: an entry is joined with every rate of its user and project that
\* begins with the last of them; its last day is left out; an analyst sees only his own.
LatestRates(e) ==
    LET R == {r \in DOMAIN rates : rates[r].user = e.user /\ rates[r].project = e.project}
    IN  {r \in R : \A other \in R : rates[other].from <= rates[r].from}
JoinedRows(e) == IF LatestRates(e) = {} THEN 1 ELSE Cardinality(LatestRates(e))
UtilizationFilter(f, e) ==
    (f.begin # None => e.at >= f.begin) /\ (f.end # None => e.at < f.end)
UtilizedUsers(a) == IF a.role = "admin" THEN Users ELSE {a.user}
Utilized(a, f, u) ==
    {i \in DOMAIN entries : /\ entries[i].ws = Home /\ ~IsRunning(i) /\ entries[i].user = u
                            /\ UtilizationFilter(f, entries[i]) /\ u \in UtilizedUsers(a)}
UtilizationReport(a, f) ==
    [u \in Users |->
        LET Sum(S) == MapThenSumSet(LAMBDA i : entries[i].seconds * JoinedRows(entries[i]), S)
            S == Utilized(a, f, u)
        IN  [total |-> Sum(S), billable |-> Sum(BillableOf(S)), other |-> Sum(S \ BillableOf(S))]]

-----------------------------------------------------------------------------
(* Properties.                                                             *)

\* The tables hold values of their types, and running entries have no time yet.
TypeOK ==
    /\ entries \in Seq(Entry) /\ \A i \in DOMAIN entries : IsRunning(i) => entries[i].seconds = 0
    /\ place \in [Catalogue -> 0..2]
    /\ rates \in Seq(RateForms)
    /\ saved \in Seq(SavedReport) /\ Len(saved) <= MaxReports
    /\ shown \in [token : Nat, report : Nat, at : Time]
    /\ now \in Time /\ requests \in 0..MaxRequests
    /\ given \in Seq([report : Nat, until : Nat]) /\ dead \subseteq DOMAIN given

NoFilter == [begin |-> None, end |-> None, project |-> None, task |-> None, user |-> None,
             billable |-> None]
Total(row, field(_), S) == MapThenSumSet(LAMBDA x : field(row[x]), S)

\* Every breakdown of a project's dashboard adds up to its totals, whatever rows were
\* archived, moved or deleted under the entries; and the watchlist, which is computed by
\* another query over more entries, shows the same totals and the same alert.
DashboardsAddUp ==
    \A p \in Projects :
        /\ \A f \in Filters \cup {NoFilter} :
             LET d == ProjectDashboard(p, f)
             IN  /\ d.billableSeconds + d.nonBillableSeconds = d.tracked
                 /\ \A kind \in {"workstream", "activity", "task"} :
                      LET b == Breakdown(kind, p, f)
                          c == Contributors(kind, p, f)
                      IN  /\ Total(b, LAMBDA x : x.tracked, DOMAIN b) = d.tracked
                          /\ Total(b, LAMBDA x : x.unbilled, DOMAIN b) = d.unbilledSeconds
                          /\ \A bucket \in DOMAIN b :
                               Total(c, LAMBDA x : x, {ub \in DOMAIN c : ub[2] = bucket})
                                 = b[bucket].tracked
        /\ LET d == ProjectDashboard(p, NoFilter)
               w == ProjectWatch(p)
           IN  /\ w.tracked = d.tracked /\ w.billable = d.billable
               /\ w.unbilledSeconds = d.unbilledSeconds /\ w.unbilledCents = d.unbilledCents
               /\ d.alert = (w.estimateAlert \/ w.budgetAlert)

\* The catalogue rows of the entries are where they were selected.
Settled == \A i \in DOMAIN entries :
    \A row \in {entries[i].customer, entries[i].project, entries[i].activity} : place[row] = entries[i].ws

Whole(group, a, f) ==
    LET r == ListReports(group, a, f)
    IN  FoldSet(LAMBDA row, t : <<t[1] + r[row].count, t[2] + r[row].seconds, t[3] + r[row].cents>>,
                <<0, 0, 0>>, DOMAIN r)

\* As long as no form has moved a row, a report shows the same count, time and amount
\* whether it is grouped by users, customers, projects or activities, for every filter and
\* whatever part of the entries the user may see. The report of projects agrees with their
\* dashboards, the dashboard counts no timer and no unexported entry outside the report's
\* scope, and the utilization agrees with the report of users if no two rates of a user and
\* project begin on the same day.
ReportsAgree ==
    /\ Settled => \A a \in Viewers, f \in Filters \cup {NoFilter} :
         LET whole == Whole("user", a, f)
         IN  \A group \in {"customer", "project", "activity"} : Whole(group, a, f) = whole
    /\ \A a \in Viewers :
         /\ ActiveTimers(a) \cup Unexported(a) \subseteq Reported("user", a, NoFilter)
         /\ SeesAll(a) =>
              LET users == ListReports("user", a, NoFilter)
              IN  /\ \A g \in DOMAIN GroupMembers :
                       GroupReport(g) = Total(users, LAMBDA x : x.seconds, GroupMembers[g])
                  /\ Settled => \A p \in Projects :
                       ListReports("project", a, NoFilter)[p].seconds = ProjectDashboard(p, NoFilter).tracked
         /\ (\A r, other \in DOMAIN rates : rates[r] = rates[other] => r = other)
              => \A u \in UtilizedUsers(a) :
                   LET t == UtilizationReport(a, NoFilter)[u]
                   IN  /\ t.total = t.billable + t.other
                       /\ t.total = ListReports("user", a, NoFilter)[u].seconds

\* "Captured: Total logged time" (web/templates/templates.go:2336): the time the utilization
\* page shows for a user is the time of his entries.
CapturedIsLogged ==
    \A a \in Viewers : \A u \in UtilizedUsers(a) :
        UtilizationReport(a, NoFilter)[u].total =
            SecondsOf({i \in DOMAIN entries :
                          entries[i].user = u /\ entries[i].ws = Home /\ ~IsRunning(i)})

\* A link opens the report it was made for, only until the end promised with it, and never
\* after its report was shared again, revoked or deleted, by whoever may do that.
LinkIsCurrent ==
    [][shown' # shown => LET t == shown'.token
                         IN  /\ t \notin dead /\ now <= given[t].until
                             /\ shown'.report = given[t].report]_vars
=============================================================================
