-------------------------------- MODULE MCReports --------------------------------
(***************************************************************************)
(* An instance of Reports for TLC: two projects of a customer, two users   *)
(* and entries with and without a task and a workstream.                   *)
(***************************************************************************)
EXTENDS Reports, TLC

CONSTANTS ann, bob, acme, site, app, coding, fix, backend

MCCustomerOf == [p \in {site, app} |-> acme]
MCGroupMembers == <<{ann, bob}, {bob}>>
MCBudgets == (site :> [estimate |-> 7200, budget |-> 0, alert |-> 0])
          @@ (app  :> [estimate |-> 0, budget |-> 5, alert |-> 100])

Logged(u, p, task, workstream, at, seconds, billable) ==
    [ws |-> 1, user |-> u, customer |-> acme, project |-> p, activity |-> coding, task |-> task,
     workstream |-> workstream, at |-> at, seconds |-> seconds, rate |-> 3, billable |-> billable,
     exported |-> FALSE, ended |-> TRUE]
\* 1800 seconds at a rate of 3 are an amount and a half.
MCWork == {Logged(ann, site, fix, backend, 1, 1800, TRUE),
           Logged(ann, app, None, None, 2, 7200, TRUE),
           Logged(bob, site, None, backend, 0, 5400, FALSE)}
MCRateForms == {[user |-> ann, project |-> site, from |-> 0], [user |-> ann, project |-> site, from |-> 2]}

MCFilters == {[NoFilter EXCEPT !.begin = 1, !.end = 2],
              [NoFilter EXCEPT !.end = 0, !.user = ann],
              [NoFilter EXCEPT !.project = site, !.billable = TRUE]}
MCViewers == {[role |-> "admin", user |-> ann, projects |-> {}],
              [role |-> "analyst", user |-> bob, projects |-> {}],
              [role |-> "member", user |-> bob, projects |-> {}],
              [role |-> "member", user |-> ann, projects |-> {site}]}
=============================================================================
