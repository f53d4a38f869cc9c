--------------------------------- MODULE Rates ---------------------------------
(***************************************************************************)
(* Billing and cost rates: administrators save rates for any combination   *)
(* of customer, project, activity, task and user, each in force for a      *)
(* while; recording time resolves the rate and the cost of the work at its *)
(* start (Store.ResolveRateAt), and a recalculation prices the entries of  *)
(* a project again by a query of its own (Store.ApplyRecalc). A statement  *)
(* at a time runs here: the module is about what the statements compute.   *)
(***************************************************************************)
EXTENDS Integers, Sequences

CONSTANTS
    Null,            \* a scope column that is NULL
    Works,          \* what an entry can be for: records of the five columns
    Scopes,         \* the values of the five columns an administrator may ask for
    Windows,        \* <<effective_from, effective_to>> of a row
    Open,           \* an effective_to that is NULL: later than every start
    Starts,         \* the starts of entries
    ProjectCustomer,    \* projects.customer_id
    ActivityProject,    \* activities.project_id, Null for one of every project
    TaskProject,        \* tasks.project_id
    MaxRates, MaxCosts, MaxEntries, MaxRows     \* bounds: rows of each table, and in all

ASSUME WindowAssumption ==
    /\ Open \in Nat /\ Starts \subseteq 0..(Open - 1)
    /\ Windows \subseteq (0..(Open - 1)) \X (0..Open)
ASSUME BoundAssumption == {MaxRates, MaxCosts, MaxEntries, MaxRows} \subseteq Nat
\* validateWorkSelection, and the columns of timesheets that are NOT NULL
ASSUME WorkAssumption == \A w \in Works :
    /\ Null \notin {w.customer, w.project, w.activity, w.user}
    /\ w.customer = ProjectCustomer[w.project]
    /\ ActivityProject[w.activity] \in {Null, w.project}
    /\ w.task # Null => TaskProject[w.task] = w.project

ASSUME ScopeAssumption == \A s \in Scopes \cup Works :
    DOMAIN s = {"customer", "project", "activity", "task", "user"}

VARIABLES
    rates,      \* table rates: the id of a row is its index, and stands for its amount
    costs,      \* table user_cost_rates
    entries     \* table timesheets: the ended and billable ones of one workspace

vars == <<rates, costs, entries>>

Users == {w.user : w \in Works}

Rate == [scope : Scopes, from : 0..(Open - 1), to : 0..Open, internal : BOOLEAN]
Cost == [user : Users, from : 0..(Open - 1), to : 0..Open]
Prices == [rate : 0..MaxRates, cost : {"none", "rate", "user"} \X (0..MaxRows)]
Entry == [work : Works, start : Starts, price : Prices]

Room == Len(rates) + Len(costs) + Len(entries) < MaxRows

Init == rates = << >> /\ costs = << >> /\ entries = << >>

-----------------------------------------------------------------------------
(* Saving rates.                                                           *)

\* validateOptionalRateScope
Accepted(s) ==
    /\ s.project # Null /\ s.customer # Null => ProjectCustomer[s.project] = s.customer
    /\ s.activity # Null /\ s.project # Null => ActivityProject[s.activity] \in {Null, s.project}
    /\ s.task # Null /\ s.project # Null => TaskProject[s.task] = s.project

\* saveRate always inserts.
SaveRate(s) ==
    /\ Accepted(s) /\ Len(rates) < MaxRates /\ Room
    /\ \E w \in Windows, own \in BOOLEAN :
         rates' = Append(rates, [scope |-> s, from |-> w[1], to |-> w[2], internal |-> own])
    /\ UNCHANGED <<costs, entries>>

SaveUserCostRate(u) ==
    /\ Len(costs) < MaxCosts /\ Room
    /\ \E w \in Windows : costs' = Append(costs, [user |-> u, from |-> w[1], to |-> w[2]])
    /\ UNCHANGED <<rates, entries>>

-----------------------------------------------------------------------------
(* Resolving a rate.                                                       *)

InForceForGood(row, at) == row.from <= at
InForce(row, at) == row.from <= at /\ row.to > at

\* ORDER BY effective_from DESC, id DESC
Newer(table, i, j) ==
    \/ table[i].from > table[j].from
    \/ table[i].from = table[j].from /\ i >= j

\* The candidates find rows by task, then by activity, project and customer, then the
\* rows for everything: the level of the first that finds a row of this scope, 0 if
\* none does. The clauses for activities and projects leave broader columns open.
Level(s, w) ==
    IF s.task # Null THEN IF s.task = w.task THEN 1 ELSE 0
    ELSE IF s.activity = w.activity THEN 2
    ELSE IF s.project = w.project THEN 3
    ELSE IF s.project # Null \/ s.activity # Null THEN 0
    ELSE IF s.customer = w.customer THEN 4
    ELSE IF s.customer = Null THEN 5 ELSE 0

\* At each level the rows of the user come before those of nobody.
PlaceOfNobodyFirst(s, w) ==
    IF s.user \notin {w.user, Null} \/ Level(s, w) = 0 THEN 0
    ELSE 2 * Level(s, w) - (IF s.user = Null THEN 1 ELSE 0)
Place(s, w) ==
    IF s.user \notin {w.user, Null} \/ Level(s, w) = 0 THEN 0
    ELSE 2 * Level(s, w) - (IF s.user = w.user THEN 1 ELSE 0)

Found(w, at) ==
    {i \in DOMAIN rates : Place(rates[i].scope, w) # 0 /\ InForce(rates[i], at)}

Beats(i, j, w) ==
    \/ Place(rates[i].scope, w) < Place(rates[j].scope, w)
    \/ Place(rates[i].scope, w) = Place(rates[j].scope, w) /\ Newer(rates, i, j)

\* ResolveRateAt: the row the amount is taken from, 0 for an amount of zero.
ResolvedRate(w, at) ==
    LET found == Found(w, at) IN
    IF found = {} THEN 0 ELSE CHOOSE i \in found : \A j \in found : Beats(i, j, w)

ResolvedUserCost(u, at) ==
    LET found == {i \in DOMAIN costs : costs[i].user = u /\ InForce(costs[i], at)} IN
    IF found = {} THEN <<"none", 0>>
    ELSE <<"user", CHOOSE i \in found : \A j \in found : Newer(costs, i, j)>>

\* With the amount, the internal amount of the rate, otherwise what the user costs.
Price(w, at) ==
    LET r == ResolvedRate(w, at) IN
    [rate |-> r, cost |-> IF r # 0 /\ rates[r].internal THEN <<"rate", r>>
                          ELSE ResolvedUserCost(w.user, at)]

\* StartTimer and CreateTimesheet price the work at its start.
RecordTime(w, at) ==
    /\ Len(entries) < MaxEntries /\ Room
    /\ entries' = Append(entries, [work |-> w, start |-> at, price |-> Price(w, at)])
    /\ UNCHANGED <<rates, costs>>

-----------------------------------------------------------------------------
(* Recalculation.                                                          *)

\* The join of RecalcPreview and ApplyRecalc: the rows of a user and a project that
\* have their latest effective_from.
UserProjectRates(w) ==
    LET own == {i \in DOMAIN rates : /\ rates[i].scope.user = w.user
                                     /\ rates[i].scope.project = w.project}
    IN {i \in own : \A j \in own : rates[j].from <= rates[i].from}

InRange(project, since) ==
    {e \in DOMAIN entries : entries[e].work.project = project /\ entries[e].start >= since}

RecalcPreviewResolved(project, since) ==
    {row \in [entry : InRange(project, since), rate : 0..MaxRates] :
        LET e == entries[row.entry]
        IN  row.rate # e.price.rate /\ row.rate = ResolvedRate(e.work, e.start)}

\* The rows of the preview: the new rate is 0 when the join finds none.
RecalcPreview(project, since) ==
    {row \in [entry : InRange(project, since), rate : 0..MaxRates] :
        /\ row.rate # entries[row.entry].price.rate
        /\ LET found == UserProjectRates(entries[row.entry].work) IN
           IF found = {} THEN row.rate = 0 ELSE row.rate \in found}

\* rate_cents is NOT NULL: the statement fails if one entry has no such rate.
RecalcFails(project, since) ==
    \E e \in InRange(project, since) : UserProjectRates(entries[e].work) = {}

ApplyRecalcNullable(project, since) ==
    /\ entries' = [e \in DOMAIN entries |->
          IF e \in InRange(project, since) /\ UserProjectRates(entries[e].work) = {}
          THEN [entries[e] EXCEPT !.price.rate = Null] ELSE entries[e]]
    /\ UNCHANGED <<rates, costs>>

\* One statement; of several rows of the join the subselect takes any. Exported
\* entries are not left out, and the cost is not computed again.
ApplyRecalc(project, since) ==
    /\ ~RecalcFails(project, since)
    /\ \E choice \in [InRange(project, since) -> 1..MaxRates] :
       /\ \A e \in DOMAIN choice : choice[e] \in UserProjectRates(entries[e].work)
       /\ entries' = [e \in DOMAIN entries |->
            IF e \in DOMAIN choice THEN [entries[e] EXCEPT !.price.rate = choice[e]] ELSE entries[e]]
    /\ UNCHANGED <<rates, costs>>

Next ==
    \/ \E s \in Scopes : SaveRate(s)
    \/ \E u \in Users : SaveUserCostRate(u)
    \/ \E w \in Works, at \in Starts : RecordTime(w, at)
    \/ \E project \in DOMAIN ProjectCustomer, since \in Starts : ApplyRecalc(project, since)

Spec == Init /\ [][Next]_vars

-----------------------------------------------------------------------------
(* Properties.                                                             *)

TypeOK ==
    /\ rates \in Seq(Rate) /\ Len(rates) <= MaxRates
    /\ costs \in Seq(Cost) /\ Len(costs) <= MaxCosts
    /\ entries \in Seq(Entry) /\ Len(entries) <= MaxEntries
    /\ \A e \in DOMAIN entries : entries[e].price.rate \in 0..Len(rates)

\* A row is meant for the work if every column that is set agrees with it.
InScope(s, w) == \A column \in DOMAIN s : s[column] \in {Null, w[column]}

\* How specific a row is: by its narrowest column, then by naming a user.
Narrowness(s) ==
    2 * (CASE s.task # Null     -> 4
           [] s.task = Null /\ s.activity # Null -> 3
           [] s.task = Null /\ s.activity = Null /\ s.project # Null -> 2
           [] s.task = Null /\ s.activity = Null /\ s.project = Null /\ s.customer # Null -> 1
           [] OTHER -> 0)
    + (IF s.user # Null THEN 1 ELSE 0)

\* Work is never priced by a broader or an older rate while a rate meant for it, and
\* in force when it started, is narrower or newer; nor at zero while there is one.
NarrowestRateWins ==
    \A w \in Works, at \in Starts, i \in DOMAIN rates :
        InScope(rates[i].scope, w) /\ rates[i].from <= at /\ at < rates[i].to =>
            LET c == ResolvedRate(w, at) IN
            /\ c # 0
            /\ \/ Narrowness(rates[c].scope) > Narrowness(rates[i].scope)
               \/ /\ Narrowness(rates[c].scope) = Narrowness(rates[i].scope)
                  /\ \/ rates[c].from > rates[i].from
                     \/ rates[c].from = rates[i].from /\ c >= i

\* Saving a rate or a cost changes what is resolved for a start only if it is in
\* force then: neither for earlier work nor for work after its end.
HistoryStable ==
    [][\A w \in Works, at \in Starts :
         \/ UNCHANGED Price(w, at)
         \/ \E i \in DOMAIN rates' \ DOMAIN rates : at \in rates'[i].from..(rates'[i].to - 1)
         \/ \E i \in DOMAIN costs' \ DOMAIN costs :
               at \in costs'[i].from..(costs'[i].to - 1) /\ costs'[i].user = w.user
      ]_<<rates, costs>>

\* A recalculation that changes a price was announced by the preview and leaves no entry
\* behind: all entries of the project from some start on have a rate of their own user and
\* project. (Where the preview announces a rate of 0, nothing is applied at all.)
RecalculationIsWhole ==
    [][\A e \in DOMAIN entries : entries'[e].price.rate # entries[e].price.rate =>
         /\ [entry |-> e, rate |-> entries'[e].price.rate]
               \in RecalcPreview(entries[e].work.project, entries[e].start)
         /\ \A f \in DOMAIN entries :
               /\ entries[f].work.project = entries[e].work.project
               /\ entries[f].start >= entries[e].start
               => /\ entries'[f].price.rate # 0
                  /\ rates[entries'[f].price.rate].scope.user = entries[f].work.user
                  /\ rates[entries'[f].price.rate].scope.project = entries[f].work.project
      ]_entries
=============================================================================
