# A formal model of tockr

tockr is a time-tracking and invoicing server: one Go process, one SQLite file, an HTTP
server with a goroutine per request, and a webhook worker in the background. This directory
holds TLA+ modules translated from its code, the TLC configurations that check them on small
instances, and theorems that TLAPS checks for every value of the constants.

`PROJECT.json` names, for every definition, the lines it models; for every property, a mutant
that breaks it; and for every hazard of the code, the properties that watch it.

## The system

| Component | State | Operations | Hard because |
|---|---|---|---|
| Time entries | `timesheets` | start, stop, create, edit | check-then-act across statements, stale copies of rows, the export lock |
| Invoices | `invoices`, `invoice_items`, `timesheets.exported`, HTML files | create, list, download, meta | snapshot read before the transaction, file after the commit, truncation, reused numbers |
| Rates and recalculation | `rates`, `user_cost_rates`, `timesheets.rate_cents` | save, resolve at a time, preview, apply | precedence of nullable scopes, validity windows, two different queries for one idea |
| Webhooks | `webhook_endpoints`, `webhook_deliveries`, the connection pool | create, queue, drain, mark | retries, lost answers, crashes, one pooled connection held while another is needed |
| Sign-in, sessions, second factors | `sessions`, `login_otps`, `users.totp_*`, `password_reset_tokens` | login, code, recovery code, reset, logout | bounded attempts, single use, stale reads between statements |
| Account | `users`, `email_change_otps` | profile, email change, password | codes that are pending together, uniqueness checked early |
| Users, organizations, workspaces, memberships, groups | `user_roles`, `organization_members`, `workspace_members`, `group_members`, `project_members`, `project_groups`, `sessions.workspace_id` | create, edit, archive, add, remove, switch, backfills at every start | one role is kept in three tables, access is read in four statements and used later, the rule of private projects is written five times |
| Catalogue | `customers`, `projects`, `activities`, `tasks`, `workstreams`, `project_workstreams`, `tags` | save, assign, unassign, delete | numbers from a count, forms that move rows between workspaces, selections that must fit together |
| Project wizard | a cookie, then the catalogue | the steps of a draft, submission | two tabs, stale drafts, many rows in one transaction |
| Project templates | `project_templates` and their tasks and activities | save, create a project | read in four statements before the transaction |
| Reports, dashboards, saved and shared reports | `saved_reports` | report, dashboards, utilization, share, revoke, open a link | the same hours added up by a dozen queries, dates that mean different things, links that must end |
| Favourites, exchange rates, work schedule | a table each | save, delete | little |
| CSV exports | none | read | little |
| Email settings and secrets | `workspaces.smtp_*`, `settings` | save, test, send | creation of the key |
| Migrations, legacy import, demo data | the schema | at start, or by command | backfills run again at every start |
| Middleware | rate limit buckets | every request | fixed windows |

The components meet in the database. A handler calls methods of `Store`; each method is one
or more SQL statements, in a transaction only where the code opens one. `Open` limits the
pool to one connection, so statements never run at the same time, but the statements of two
requests interleave wherever no transaction is open, and an open result set keeps the
connection to itself. Handlers that change something call `queueEvent` after the commit;
the worker posts what they queued.

## Modules

| Module | Models |
|---|---|
| `TimeEntries` | entries and invoices of one customer's project, requests interleaved statement by statement |
| `TimeEntriesProofs` | theorems about `TimeEntries` |
| `Rates` | what rate work is priced at, and the recalculation |
| `RatesProofs` | theorems about `Rates` |
| `SignIn` | accounts, one-time codes, reset links, sessions, requests interleaved statement by statement |
| `SignInProofs` | theorems about `SignIn` |
| `WebhookDelivery` | endpoints, queue, worker, connection pool, restarts |
| `DeliveryContract` | what a persisted retry queue promises; `WebhookDelivery` implements it |
| `WebhookDeliveryProofs` | theorems about `WebhookDelivery`, that refinement among them |
| `Access` | accounts, roles, members of workspaces, groups and projects, and the access of a request, read statement by statement |
| `AccessProofs` | theorems about `Access` |
| `Catalogue` | customers, projects, activities, tasks, workstreams and the selection of an entry, requests interleaved statement by statement |
| `ProjectSetup` | composes `Catalogue` with the project wizard and the templates, and is what TLC checks of both |
| `ProjectSetupProofs` | theorems about `ProjectSetup` and `Catalogue` |
| `Reports` | the queries of reports and dashboards over tables that other requests change, saved reports and their links |
| `SumTheorems` | sums over finite sets: by element, by parts, by classes |
| `ReportsProofs` | theorems about `Reports`; the pages by `SumTheorems` |
| `MC...` | instances of a module for TLC |

The modules meet where the code does. `ProjectSetup` extends `Catalogue` and interleaves its
requests with the forms; `Reports` repeats, shorter, what `TimeEntries`, `Catalogue` and
`Rates` do to its tables, since it asks only what the queries say of them; `WebhookDelivery`
implements `DeliveryContract`. Who may send a request is the matter of `Access` alone; the
other modules let everyone send every form, so that what they show does not rest on it.

### TimeEntries

`entries`, `invoices`, `items` are the tables (the id of an entry is its index; entries are
never deleted), `files` the invoice files on disk. `pc` and `req` are where each handler is
and the locals it keeps across statements; `conn` is the handler whose transaction holds the
connection. One action is one statement, or one transaction whose statements nothing can
come between:

- start: `StartTimer` (arrival, which fixes the start), `CheckActive` (the refusal),
  `InsertTimer`; stop: `StopTimer` (arrival, which fixes the end), `FindActive`, `WriteStop`;
- `CreateTimesheet`: one insert; the forms it can carry are `AcceptedTimes`;
- edit: `EditTimesheet` (the export lock is read here), `UpdateTimesheet`;
- `ApplyRecalc`: one statement over all entries, exported or not;
- invoice: `ReadBillable` (the page of unexported entries, before the transaction),
  `BeginInvoice`, `BillLine` once per entry, `CommitInvoice`, `WriteInvoiceFile`;
- `Abort` ends a handler anywhere: a cancelled context, a failed statement or a crash; its
  transaction is rolled back.

`Next` is such a `Step` together with `Watch`, which keeps the ghost `missed`: the entries that
have changed since a request read them. Three properties need it, because the code reads a row
in one statement and acts on it in a later one: `DurationExact`, `ExportedFrozen` and
`BilledAsRecorded` say exactly which late write may break what they are about, and that
nothing else does.

`ActiveTimer` keeps the code's query: it looks at one entry, a latest-started one, and the
order of equal starts is open. What rate an entry gets is left open here (`Rates` says
which). The recalculation is restricted to entries of one workspace; which users have a rate
of their own is open.

### Rates

`rates`, `costs` and `entries` are tables; a rate stands for its amount by its index. A
`SaveRate` takes every scope that `validateOptionalRateScope` accepts. `Place` is the
position of the first of the ten queries of `ResolveRateAt` that finds a row of a scope, and
`ResolvedRate` the row it takes: the properties compare that with the independent
`InScope` and `Narrowness`. `RecalcPreview` and `ApplyRecalc` share the join
`UserProjectRates` and differ where the code does: `COALESCE` against `NULL` in a `NOT NULL`
column. Statements run one at a time here: the module is about what they compute.

### WebhookDelivery

`deliveries` is the table; `stage` and `todo` are the progress of each request that raises an
event; `worker`, `cursor` and `mark` are the locals of `drain` and `deliver`. `received` and
`lost` are ghosts that count what the endpoints saw. `Held < pool` is the rule of
`database/sql`: an open result set keeps its connection, and a further statement needs
another one. `Deliver` has the four outcomes of a post: no request can be built; taken and
answered; not taken; taken but the answer was lost or not a success. `Restart` and `FailMark`
are the faults, at most `MaxFaults`.

`DeliveryContract` has three actions: enqueue, take, settle. The mapping sends a row to its
status and attempts, and a delivery that an endpoint received to a taken one.

### SignIn

`users`, `otps`, `changes`, `tokens`, `sessions` are the tables (ids are indexes; a session
that is deleted or has expired is kept with `open` false, so that it can be counted). `pc` and
`req` are where each request is and what it remembers:

- sign-in: `Login` (the account is read, the password was right), then `MatchRecoveryCode`
  and `BurnRecoveryCode` (the two statements of `UseRecoveryCode`), or `CreateLoginOTP`, and
  `CreateSession`; `UseLoginOTP` is its transaction, and its session is a later statement;
- reset: `ForgotPassword`, `CreatePasswordResetToken`, `ResetPasswordWithToken`;
- with a session: `FindSession` is the middleware, then one of `Logout`, `RequestEmailChange`
  (the address is free) and `CreateEmailChangeOTP`, `UseEmailChangeOTP`, `EnableTOTP`,
  `DisableTOTP`, `SetEmailOTP`, or `UpdateUser` by an administrator;
- `Abort` ends a request anywhere, `Expire` lets time pass.

Passwords and codes are right or wrong, which decides between the alternatives of an action.
The counters `wrong` and `wins`, `born` and `era`, `by` and `spent` only record what happened.
`SignIn` is the mode `optional` of `TOCKR_TOTP_MODE`.

Any number of requests may stand between the two statements of `UseRecoveryCode`, so a code
can open the way in more than once: both requests read the list before either writes it. `spent`
counts for every code how often it was used and how often a request wrote back a list it had
read before the code was taken off (`late`); `CodesReusedOnlyByLateWrites` says that the
second number explains all there is of the first beyond once.

### Access

`role`, `org`, `member`, `archived`, `grouped`, `projectRole`, `projectGroups`, `project`,
`customerWorkspace`, `work` (activities and tasks) and `session` are the tables, each as a function of what its rows are keyed by; the value `"none"` stands
for a row that is not there. `req` is the `AccessContext` a request has read so far, with what
its form has left to do. `held` and `invited` are ghosts: what the user of a request was
entitled to since it began, and whom an administrator made a member. A right to a project
names the workspace the project was of.

- The middleware: `FindSession`, then `ReadOrganization`, `ReadWorkspace`,
  `ReadProjectMembers` and `ReadProjectGroups`, the four statements of
  `AccessForUserWorkspace`, with any other request in between. After them the request is
  `"ready"` and its handler acts on what was read.
- Accounts: `CreateUser` and `UpdateUser` are transactions. Workspaces: `SaveWorkspace`
  (with the membership of whoever saves it, which a refused mail setting skips),
  `SetWorkspaceMember`, `RemoveWorkspaceMember`.
- Groups and projects: a form names several users or groups; `BeginGroupMembers` or
  `BeginProjectMembers` is the permission check, and then `Check` and `Add` alternate, one
  pair for each name, and end with the first one refused. `RemoveUserFromGroup`,
  `RemoveProjectMember` and `RemoveGroupFromProject` are single statements.
- The catalogue: `SaveCustomer` is one statement; `BeginSaveProject` and `BeginSaveWork` are
  the checks of `saveProject`, `saveActivity` and `saveTask`, and `Save` the update that comes
  later. The update finds its row by the id alone and stores the workspace of the request, so
  each form moves its row, and only its row, to another workspace.
- Sessions: `CreateSession`, `DeleteSession`; `UserCanAccessWorkspace` and
  `SwitchSessionWorkspace` are the two statements of a switch.
- `Restart` ends every request and repeats the backfills of `ensureHierarchy`.

`WorkspaceOf` chooses the workspace as the queries do: the one asked for, else the lowest
membership. `ListProjects`, `ListCustomers`, `ListActivities` and
`ListTasks` are the visibility conditions of the lists, `CanTrackProject` the one in the
handlers: each looks at the workspace of the row, of its project or of its customer in its own
way, which matters once these differ. Which workspaces, groups, customers and projects there
are is constant; how new rows of the catalogue come about is the matter of `Catalogue`.

### Catalogue and ProjectSetup

`rows` holds the five tables of the catalogue (a row by its id; ids are not used again, a
deleted row stays with workspace 0), `assigned` the pairs of `project_workstreams`, `entries`
the selections that were stored. `moved`, `dropped` and `left` are ghosts that say what forms
did to the rows.

- A form is `saveCustomer`, `saveProject`, `saveActivity`, `saveTask` or `saveWorkstream`
  (its first check), then for a new row `UpsertStatement`, which counts for a number, and
  `Insert`. An update replaces the whole row, its workspace too. `ListWorkstreams`,
  `UpsertProjectWorkstream`, `RemoveProjectWorkstream` and `DeleteWorkstream` are the rest.
- An entry is `saveTimesheet`, then the checks of `validateWorkSelection` one statement at a
  time: `TrackProject`, `SelectActivity`, `SelectWorkstream`, `SelectTask`, and
  `CreateTimesheet`.
- The wizard (`ProjectSetup`): `cookie` is the draft in the browser. Every step of the wizard
  is a request that begins with the cookie it was sent and answers, later, with a new one
  (`persistProjectCreateDraft`), so two tabs overwrite each other. `Submit` validates the
  draft, `CreateProjectFromDraft` is its transaction: `DraftHolds` says whether
  all its statements succeed, `FromDraft` what they store, and all of it is rolled back when
  one of them fails. A failed statement ends the loop, so nothing depends on which one it was.
- Templates: `ReadTemplate`, `ReadTemplateTasks`, `ReadTemplateActivities` and
  `ReadTemplateCustomer` are the four reads, `CreateProjectFromTemplate` the transaction.
  `UpsertProjectTemplate` replaces a template in between.

What is abstracted: the reads of `selectorData` are one step; the parts of a template are
counts; a project's name, dates and budgets, and codes typed in for new rows of a draft, are
left out; names are compared up to case by being equal. The drafts and rows of the instance
are ones that earlier requests leave.

### Reports

Here one action is one whole request, because the question is what a query says of a state,
not how requests interleave. `entries`, `rates` and `saved` are tables, `place` the workspace
each catalogue row is in now (0 once it is deleted), which is what the queries join with.
The queries are operators: `ListReports` for five groupings, `GroupReport`, `ActiveTimers`
and `Unexported` (the two counts of `Dashboard`), `ProjectWatch` (its watchlist),
`ProjectDashboard` with `Breakdown` and `Contributors`, and `UtilizationReport`, which joins
each entry with the rates of `LatestRates`. They keep what differs between them: which
workspace is asked for, the entry's or the joined row's, whether running entries count, and
what the last day of a filter means. Time counts half days so that this shows: reports end at
the midnight that begins the last day, the project dashboard at the one after it, the
utilization before the first.

Saved reports: `CreateSavedReport`, `UpdateSavedReport`, `DeleteSavedReport`,
`SetReportShareToken`, `RevokeReportShareToken`, `viewSharedReport`. `given` and `dead`
remember what each token was made for and which tokens should no longer work.

## Runs

| Run | What it shows | Instance |
|---|---|---|
| `entries_concurrent` | locks and invoices agree, invoices add up, no double billing, no stale copy unlocks or restarts an entry | 1 user, 2 handlers of which one may invoice, 2 entries, clock 0..2 |
| `entries_overlap` | durations are exact, exported times frozen, invoices bill what is recorded, but where a request writes over a change it has missed | 1 user, 2 handlers of which one may invoice, 1 entry, 2 rates, breaks, clock 0..3 |
| `webhook` | attempts bounded, duplicates explained, contract kept, everything settles with a spare connection | 2 endpoints (one unusable), 2 events, pool of 1 or 2, 2 attempts, 1 fault |
| `rates` | narrowest and newest wins, history is stable, recalculation is whole | 16 scopes, 3 windows, 2 starts, 3 works, 3 rows |
| `sign_in` | codes and links have their effect once, recovery codes again only by late writes, wrong codes are bounded, one pending code wins, a reset ends sessions | 2 administrators, 2 requests, 3 addresses, 2 attempts, 3 rows of codes, links and sessions, 1 edit, 2 recovery codes |
| `access` | an access allows no more than its user held since the request began, roles agree in both tables, memberships come from an administrator, lists offer what handlers accept wherever forms move rows | 3 users, 2 requests, 2 workspaces with a project and a customer each (one project private, with a group), 1 activity, 1 task, 2 writes |
| `project_setup` | equal numbers have a cause, what an entry selected stays together, a project is set up whole or not at all | 2 requests, 2 workspaces, 3 requests or restarts, 4 rows to a table |
| `reports` | separately written queries agree for every viewer and filter, a link opens what it was made for while it is current | 2 users, 2 projects, 4 viewers, 4 filters, 4 requests, 3 half days, 1 saved report |
| `double_billing` | refuted: two handlers that invoice bill an entry twice | as `entries_concurrent`, both invoice |
| `one_active_timer` | refuted: a user gets two running timers, one request at a time | 3 entries, 1 handler |
| `webhook_one_connection` | refuted: with the pool that `Open` configures nothing is ever settled | pool of 1 |
| `utilization` | refuted: two rates that begin together double a user's hours | as `reports`, 3 requests |

Bounds. Two entries and two handlers are enough for every race in the module: a race is two
requests over one entry, and the second entry is what a page leaves over, what hides a
running timer, and what a second invoice bills. `entries_overlap` asks of single entries only,
each with the one line that bills it, so one entry does; its clock has one more value, for a
stop after an edit or an invoice after a start. Each of its exceptions is needed: without it
TLC finds the late write. The clock needs three values for a start, an
end and a later change. `Hour` is 2 and `TaxBase` 2 in the instances, so both truncations of
the code discard something. `NumberCycle` is 2, so numbers are used again within the run.
`PageLimit` 1 makes an invoice leave entries over. For webhooks, two attempts have one retry
and one final failure, and one fault is enough to separate a taken post from its mark. For
rates, three rows cover two competing rates and an entry, or a rate, a cost and an entry;
the windows are the three that matter around a boundary.

For sign-in, three rows are two pending email changes and the session they need, two login
codes and a session, or a session, a reset link and a session after it; an address that was
free when it was asked for is taken by an administrator in between. Two attempts have one
wrong code that leaves another try and one that is the last. The accounts differ in their
first addresses only and the requests in nothing, which is the symmetry the run uses.

For `access`, two requests are what a race needs: one reads while the other writes. Two
writes are a right that is taken away and one that is given between two reads, a removal
and a return, or a switch of the session and a form that takes a row to the new workspace;
three users are who acts, who is acted on, and an account that does not exist
yet. The user in the group, the private project and the two workspaces make each of the
rules of visibility differ from the others: with the private project moved away, its activity
is still offered to administrators and to the group, its task to administrators only. The owner starts as a member of both workspaces.

For `project_setup`, three requests are two that race and one that has changed what they refer
to, or two tabs and a submission. Four rows leave each table room for the rows of a
draft and of one form; the draft names an old and a new workstream and activity. The requests
are alike, which is the symmetry of both runs.

For `reports`, four requests are an entry, a change of what it refers to, a change of the
entry and a rate, or the life of a link. The amount 1800 seconds at 3 an hour is not whole,
so rounding entry by entry differs from rounding sums. One saved report with any number of
tokens is enough: no statement on a report looks at another one.

`CHECK_DEADLOCK FALSE` is set where the instance really ends: all events served and settled
(or the worker blocked, which the liveness properties look at), or all rows, writes or
requests used up.

Fairness is assumed of `WebhookDelivery` only: weak fairness of the worker's next step, of
each request's next step and of the passing of a backoff. The Go scheduler runs every
goroutine that can run, the worker's ticker fires every five seconds, the HTTP client has a
timeout of five seconds and the backoff is a finite time. `Abandon`, `FailMark` and `Restart`
are not fair: nothing must fail. `CommitChange` and `CreateWebhookEndpoint` are not fair
either: no one has to use the program.

## Findings

- The worker blocks on its first due delivery: `drain` keeps the pool's only connection while
  `deliver` waits for one. From then on no request gets a connection.
- Overlapping requests can bill an entry twice: the entries are read before the transaction.
- `ActiveTimer` sees only the latest-started entry: a second timer can run beside the first.
- The utilization page joins entries with rates and uses neither of them up: two rates of a
  user and project with the same first day count each of the user's entries twice.

Seen while modelling, where nothing in the repository says what should hold: a running timer
can be billed at zero hours and is then locked, and its later stop changes an exported entry
(`ExportedFrozen` is about entries that have ended); an edit that has passed the check of the
lock before an invoice, and a stop that has read a timer before an edit, write over what came
in between, and an invoice bills entries as they were when it read them, all of which the
properties of `entries_overlap` name; two sign-ins that overlap can use the same recovery code,
or bring a used one back; a project that a form moves to another workspace leaves its activities
and tasks behind, offered though time on them is refused (`OfferedIsAccepted` says to whom); a rate with two scope columns applies to work that
only one of them names (`NarrowestRateWins` says which of the rates that name the work wins,
not that no other rate prices it); a recalculation that
includes a user without a rate fails as a whole while its preview shows a price of zero; the
last day of a period means three things on three pages; removing a member from the first
workspace lasts until the next start, whose backfill adds him again.

## Proofs

### TimeEntries, proved

`TimeEntriesProofs` proves about `TimeEntries`, for every number of users, handlers, entries
and clock values, every set of rates, breaks and tax rates:

| Theorem | Property |
|---|---|
| `TypeCorrect` | `TypeOK` |
| `InductiveInvariant` | `IInv`, below |
| `LocksMatchInvoices` | `ExportedIffInvoiced` |
| `InvoicesAddUp` | `InvoiceTotals` |
| `FilesAreOfInvoices` | `FilesHaveInvoices` |
| `SingleBillerBillsOnce` | `NoDoubleBilling`, if `Billers` has at most one element |
| `ExportLockHolds` | `ExportedNeverReset` |
| `StoppedStaysStopped` | `EndedStaysEnded` |
| `DurationsAreExact` | `DurationExact` |
| `BilledTimesFrozen` | `ExportedFrozen` |
| `InvoicesBillRecords` | `BilledAsRecorded` |

They use the assumptions of the module on its constants: `NoHandler` is not a handler, there
is a user, amounts are natural numbers and divisors positive. No theorem assumes anything
about timing, and only `SingleBillerBillsOnce` about how many handlers do what.

`ExportedIffInvoiced` is not inductive: nothing in it says that the lines an open transaction
has written are lines of entries that exist, or that only one transaction is open. `IInv` adds
what handlers rely on between their statements: `ConnectionHeld` (exactly the handler between
`BEGIN` and `COMMIT` holds the connection), `CopiesKnown` (the rows a handler has read exist,
each at most once) and `TransactionKnown` (what the transaction has written are lines of the
rows read, under a number still free). The proof has one step per action: most leave the
tables alone, edits keep the column `exported`, and `CommitInvoice` adds lines and locks
together. `InvoiceTotals` needs besides that the sum of the lines written is the sum of the
rows read, which follows at the commit because the two sets are then equal, and that the
lines of other invoices carry other numbers. `SingleBillerBillsOnce` adds `RowsUnbilled`: the
rows the only biller has read stay unexported until it commits. The last
three hold for any number of handlers. Their proofs carry `Undisturbed` from statement to
statement: where a request has missed nothing, what it read of the entry it is about to stop,
edit or bill is still what the entry says (`Current`). A step that changes an entry keeps this,
since it makes every other request that has read the entry miss the change.

### Access, proved

`AccessProofs` proves about `Access`, for every number of users, requests, workspaces,
projects, groups, activities and tasks, and every set of roles that forms may send:

| Theorem | Property |
|---|---|
| `TypeCorrect` | `TypeOK`, and every request in progress has a user |
| `RolesAgree` | `OrgRoleFollowsRole` |
| `NoMembershipComesBack` | `MembersWereInvited` |
| `AccessWasHeld` | `NoMoreThanHeld` |
| `ListsAgreeWithHandlers` | `OfferedIsAccepted` |

They assume what the module does of its constants: workspaces are positive numbers and the
first is the lowest, the first rows of the catalogue are of some workspace each (of any, in
any combination), the owner exists and is a superadmin. No theorem uses the bounds.

`RolesAgree` and `NoMembershipComesBack` are inductive; `AccountSteps` sorts the actions by
what they do to accounts, so that only those that touch them need a step. `NoMoreThanHeld` is not inductive: it speaks of requests
that have finished reading, and what such a request carries was read in up to four different
states. `Held` is what the proof carries from statement to statement: for a request in
progress, its user's present rights are in `held` (`Watched`), an organization role that was
read is covered (`OrganizationHeld`: if it administers, then everything that administering
allows in every workspace was held), so is the workspace and its role (`WorkspaceHeld`), and
so are the projects, as projects of that workspace (`ProjectsHeld`), wherever forms have moved
them since. `HeldRequest` has a step per
statement: what it reads is in the rights of that moment, and `held` only grows while the
request lives; `RequestSteps` shows that no other step changes what a request
has read. `NoMoreThanHeld` follows, since the claims of an access are made of those three parts.
`ListsAgreeWithHandlers` holds in every typed state: both sides are derived from the same
access, and the proof is the comparison of the conditions that the code spells out apart, for
rows, projects and customers that need not be of the same workspace.

### WebhookDelivery, proved

`WebhookDeliveryProofs` proves about `WebhookDelivery`, for every set of endpoints, events and
subscriptions, every pool, batch and retry limit and any number of faults:

| Theorem | Property |
|---|---|
| `TypeCorrect` | `TypeOK` |
| `WorkerIsCurrent` | `WorkerHolds`, below |
| `AttemptsBounded` | `PendingBelowLimit` |
| `DuplicatesAreExplained` | `DuplicatesExplained` |
| `OneDeliveryPerSubscriber` | `OneRowPerEndpoint` |
| `QueueKeepsContract` | `KeepsContract`: the queue implements `DeliveryContract` |

They assume that pools have a connection, that limits are positive, and that subscriptions are
of endpoints.

Types alone do not say why attempts stay below the limit: the worker counts them on a row it
read earlier. `WorkerHolds` says that what it read still holds: the rows left of its result
set are pending (`Scanned`), and the outcome about to be written is of a pending row and
counts one attempt more than the row (`Marked`). It is kept because nobody else marks and
inserts only append. `DuplicatesExplained` needs `Accounted`, which counts for each row what
its endpoint took against what was lost, with the outcome that is known to the worker and not
yet to the table set apart. `OneRowPerEndpoint` needs `Queued`: a request inserts only for
endpoints that have no row of its event yet. `QueueKeepsContract` goes step by step: an insert
is `Enqueue`, a post the endpoint receives is `Take`, a mark is `Settle`, and everything else,
restarts included, changes none of the contract's variables.

### SignIn, proved

`SignInProofs` proves about `SignIn`, for every set of accounts, addresses and requests, any
limit of attempts and any number of codes:

| Theorem | Property |
|---|---|
| `InductiveInvariant` | `IInv`, below |
| `TypeCorrect` | `TypeOK` |
| `GuessesBounded` | `WrongGuessesBounded` |
| `OneOfPendingWins` | `OnePendingCodeWins` |
| `ResetEndsSessions` | `NoSessionOutlivesReset` |
| `CodesAreUsedOnce` | `UsedOnce` |
| `RecoveryCodesAccounted` | `CodesReusedOnlyByLateWrites` |

They assume what the module does of its constants: addresses differ at first, the user and the
address that stand for nobody are none, and the limit of attempts is positive.

That a code wins once and that pending codes win together at most once are not inductive. The
invariant says of every code: if it is pending it has not won, and it was made after the last
win of its user (`born` is the number of the user's wins at that time, so a win makes every
older code of the user a loser); wrong guesses and wins together are at most the attempts the
table has counted, which stop at the limit. Login codes, codes of address changes and reset
links have the same invariant, proved once for a table of codes and used for each statement
that touches one. `CodesAreUsedOnce` adds `CarriedOnce`: a login code that was accepted is
carried to a session by one request, or by none if the request was cut off. `CodesAccounted` says of
recovery codes that one an account still has was used no more often than it was written back
late, that the codes of two accounts are different ones, and that a request about to burn one
holds codes of its own account only; so a use either takes off a code that was there, or is
itself a late write. `ResetEndsSessions` compares the `era`
of a session, the resets of its user when it was made, with the resets now: a reset ends the
sessions of its user and counts in the same statement.

### Rates, proved

`RatesProofs` proves about `Rates`, for every set of works, scopes, windows and starts:

| Theorem | Property |
|---|---|
| `TypeCorrect` | `TypeOK` |
| `NarrowestFound` | `NarrowestRateWins` |
| `HistoryIsStable` | `HistoryStable` |
| `RecalculationLeavesNone` | `RecalculationIsWhole` |

Besides the ranges of windows and bounds they assume `WorkAssumption`: what is worked on has
a customer, project, activity and user (columns of `timesheets` that are `NOT NULL`) that
belong together, as `validateWorkSelection` demands. The invariant is the type invariant and
that all tables together stay below `MaxRows`, since an amount is the index of a row.

`NarrowestFound` holds in every typed state: the heart is `PlaceIsNarrowness`, that the
position of a query among the ten and the narrowness of the scope it looks for order the
scopes meant for a work in the same way, so the first query with a result finds the narrowest
scope, and its `ORDER BY` the newest row. `HistoryIsStable` compares the
candidates of every query before and after one row was added; `RecalculationLeavesNone` the
join of the preview with that of the update.

### Reports, proved

`ReportsProofs` proves about `Reports`, for every set of users, tables, forms and dates:

| Theorem | Property |
|---|---|
| `InductiveInvariant` | `IInv`, below |
| `TypeCorrect` | `TypeOK` |
| `LinksAreCurrent` | `LinkIsCurrent` |
| `DashboardsAreSums` | `DashboardsAddUp` |
| `ReportsAreSums` | `ReportsAgree` |

They assume that tables are finite and that their rows refer to users and projects that exist
(`TablesAssumption`). `IInv` adds two facts to the types: a running timer was started in the
past, without which stopping it could store a negative time, and every link is that of the
report as it was last shared, in its time.

The pages compare sums over different partitions of the same entries, so their proofs need
induction over sets. The library's induction theorems take an operator and cannot be
instantiated here; `SumTheorems` does the induction by a least counterexample, for the folds
that the community modules define: a sum does not depend on the order, is the sum of the sums
of disjoint parts, and of the classes that a function makes of a finite set. With it each page
is a partition: `BreakdownAddsUp`, `ContributorsAddUp`, `ProjectsAgree`, `GroupsAgree`,
`UtilizationAgrees`. They hold in every typed state, for filters and viewers of any kind.

### ProjectSetup, proved

`ProjectSetupProofs` proves about `ProjectSetup`, and so about the module `Catalogue` it
extends, for every set of handlers, workspaces, names and users, all first rows, drafts and
templates, and any bounds:

| Theorem | Property |
|---|---|
| `InductiveInvariant` | `IInv`, below |
| `TypeCorrect` | `TypeOK` |
| `NumbersAreExplained` | `NumbersExplained` |
| `SelectionsStayTogether` | `EntriesFit` |
| `ProjectsAreWhole` | `SetupIsWhole` |

They assume that there are finitely many workspaces and names (a transaction stores one row
for each), that a name is not a number (an item of a draft is a new name or an existing id),
that drafts and templates have the fields their forms have, and that the rows there at first
were numbered one after the other by the code (`FirstRowsAssumption`).

None of the three properties is inductive. `IInv` adds:

- about the tables, `RowsLive` (only workstreams are deleted) and `NumbersBounded`: a number
  that was generated is at most the count of the workspace's rows up to its own, while no row
  has left the workspace. So the next number, one more than the count, is new;
- about a form between the count and the insert, `NumberFresh`: its number is larger than any
  of the rows it was counted from, which a row stored by another request in between is not;
- about an entry being selected, `SelectionHolds`: what each check found still fits when the
  next one runs, or a form moved the row, or the pair was dropped;
- about forms, drafts and templates being served, `FormKnown`, `DraftKnown`, `CopyKnown`: the
  ids they carry exist.

The argument separates a step from the requests it does not serve. Every step keeps the rows
that are stored, apart from what the ghosts record (`Kept`), numbers those it adds as
`NumbersBounded` wants (`NewRows`), and stores only entries whose selection was checked
(`NewEntries`). From that alone `InvariantKept` concludes that the
tables and all other requests keep the invariant; what is left for each action is the request
it serves. `StoreNumbered` stands for the loops that count and insert one row at a time, and
`StoredOneByOne` shows that each row has the
number that the rows before it make the next. `ProjectsAreWhole`
says what the two transactions store: `FromDraftStep` and `FromTemplateStep` describe the
tables afterwards, with one row for each item of a finite set (`SetToSeq`), which is what
makes the numbers of rows agree.

### Only model-checked

Every invariant and action property of the passing runs is a theorem above. The liveness
properties of `WebhookDelivery` (`SettlesWithSpareConnection`, `AnswersWithSpareConnection`)
are checked by TLC only: liveness under fairness and `ENABLED` are beyond the prover. The four
runs that expect a violation show a state in which something fails: there is nothing to prove.

## Not modelled

CSV exports and templates of pages change no state; favourites, exchange rates, schedules,
tags and profiles are single-row writes that no property looks at; SMTP is input and output;
configuration is read once; column additions and the import of old databases run once on data
nothing else is using. The counters of the rate limiter and the creation of the secret key
are not modelled either: at the border of two windows twice the limit passes, and two first
requests that overlap may create two keys; the code promises nothing against which either
could be checked. `PROJECT.json` gives the reason for each component.

Within the modelled parts: names, descriptions, tags and time zones of entries, the text of
invoice files, `SetInvoiceMeta`, the signature and payload of deliveries, hashing and the
text of mails, the required mode of second factors, the creation of workspaces, groups and
templates, `ArchiveTask` and the columns `active` and `visible`, lists cut at six or eight
rows, statistics of today and the week, and who sees a saved report in the list of them.

## Plan

1. The required mode of second factors, and the creation of workspaces and groups in `Access`.
2. The rate limiter's windows; the secret key.
