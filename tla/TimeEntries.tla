------------------------------ MODULE TimeEntries ------------------------------
(***************************************************************************)
(* Time entries and invoices of one customer's project in one workspace:   *)
(* the timers, the manual entries, their edits, the rate recalculation and *)
(* the invoices built from them (internal/db/sqlite/store.go and the       *)
(* handlers of internal/platform/http/server.go).                          *)
(*                                                                         *)
(* Every HTTP request is served by a goroutine of its own, a "handler".    *)
(* A handler is a sequence of database statements; the statements of two   *)
(* handlers interleave, because a handler gives the only pooled connection *)
(* back after every statement that is not part of a transaction.           *)
(***************************************************************************)
EXTENDS Integers, Sequences, FiniteSets, FiniteSetsExt

CONSTANTS
    Users,          \* people who track time
    Handlers,       \* requests that can be in progress together
    NoHandler,      \* nobody holds the connection for a transaction
    Billers,        \* the handlers that may serve the creation of an invoice
    Rates,          \* what rate resolution may answer, in cents per hour
    Breaks,         \* break lengths a form may carry
    TaxRates,       \* tax rates an invoice form may carry
    TaxBase,        \* 10000: a tax rate is in basis points
    Hour,           \* 3600: clock units in an hour
    PageLimit,      \* 100: the most entries one invoice reads
    NumberCycle,    \* 10000: invoice numbers of a day repeat after as many seconds
    MaxTime,        \* bound: the clock stops here, within one day
    MaxEntries      \* bound: entries ever recorded

ASSUME HandlersAssumption == NoHandler \notin Handlers /\ Billers \subseteq Handlers

ASSUME UsersAssumption == Users # {}        \* the seeded administrator

ASSUME MoneyAssumption ==
    /\ Rates \subseteq Nat /\ Breaks \subseteq Nat /\ TaxRates \subseteq Nat
    /\ TaxBase \in Nat \ {0} /\ Hour \in Nat \ {0} /\ NumberCycle \in Nat \ {0}

ASSUME BoundsAssumption == PageLimit \in Nat /\ MaxTime \in Nat /\ MaxEntries \in Nat

VARIABLES
    now,        \* the clock, in seconds
    entries,    \* table timesheets: the id of a row is its index
    invoices,   \* table invoices
    items,      \* table invoice_items
    files,      \* numbers of the invoices whose HTML file is on disk
    pc,         \* where each handler is
    req,        \* what each handler remembers of its request
    conn,       \* the handler whose transaction holds the connection
    written,    \* invoice items inserted by the open transaction
    missed      \* entries changed since a handler has read them; no step depends on it

tables == <<entries, invoices, items>>
tx     == <<conn, written>>
vars   == <<now, entries, invoices, items, files, pc, req, conn, written, missed>>

Time    == 0..MaxTime
Running == -1                       \* ended_at IS NULL
NoEntry == 0

Entry == [user : Users, start : Time, end : Time \cup {Running}, brk : Nat,
          dur : Nat, rate : Nat, billable : BOOLEAN, exported : BOOLEAN]

\* An entry as an invoice bills it: what CreateInvoice has read of the row.
Row  == [entry : Nat, qty : Nat, unit : Nat]
Item == [invoice : Nat, entry : Nat, qty : Nat, unit : Nat, total : Nat]

Request == [user : Users, at : Time, entry : Nat, start : Time, brk : Nat,
            rows : SUBSET Row, number : Nat, taxRate : Nat]

NoRequest == [user |-> CHOOSE u \in Users : TRUE, at |-> 0, entry |-> NoEntry,
              start |-> 0, brk |-> 0, rows |-> {}, number |-> 0, taxRate |-> 0]

Stages == {"idle", "start", "insert", "stop", "stopping", "edit",
           "bill", "lines", "file"}

Init ==
    /\ now = 0
    /\ entries = << >>
    /\ invoices = {} /\ items = {} /\ files = {}
    /\ pc = [p \in Handlers |-> "idle"]
    /\ req = [p \in Handlers |-> NoRequest]
    /\ conn = NoHandler /\ written = {}
    /\ missed = [p \in Handlers |-> {}]

-----------------------------------------------------------------------------
(* The tables.                                                             *)

IsRunning(e) == entries[e].end = Running

Mine(u) == {e \in DOMAIN entries : entries[e].user = u}

\* ORDER BY started_at DESC LIMIT 1: rows of equal start come in any order.
Newest(u) == {e \in Mine(u) : \A f \in Mine(u) : entries[f].start <= entries[e].start}

\* The possible answers of ActiveTimer: it looks at one row only, a newest one.
ActiveTimer(u) ==
    IF Mine(u) = {} THEN {NoEntry}
    ELSE {IF IsRunning(e) THEN e ELSE NoEntry : e \in Newest(u)}

AtLeastZeroUnclamped(n) == n
AtLeastZero(n) == IF n < 0 THEN 0 ELSE n

Worked(start, end, brk) == AtLeastZero(end - start - brk)

\* rate_cents * duration_seconds / 3600, truncated.
Charge(row) == (row.unit * row.qty) \div Hour

ItemOf(number, row) == [invoice |-> number, entry |-> row.entry, qty |-> row.qty,
                        unit |-> row.unit, total |-> Charge(row)]

Subtotal(lines) == MapThenSumSet(LAMBDA l : l.total, lines)

InvoiceOf(r) ==
    LET subtotal == Subtotal({ItemOf(r.number, row) : row \in r.rows})
        tax      == (subtotal * r.taxRate) \div TaxBase
    IN  [number |-> r.number, subtotal |-> subtotal, tax |-> tax, total |-> subtotal + tax]

-----------------------------------------------------------------------------
(* Handlers.                                                               *)

Free == conn = NoHandler            \* a statement outside the transaction can run

Goto(p, stage) == pc' = [pc EXCEPT ![p] = stage]

Finish(p) ==
    /\ pc' = [pc EXCEPT ![p] = "idle"]
    /\ req' = [req EXCEPT ![p] = NoRequest]

Tick == now < MaxTime /\ now' = now + 1 /\ UNCHANGED <<tables, files, pc, req, tx>>

\* The start button: the start is the time of arrival.
StartTimer(p, u) ==
    /\ pc[p] = "idle"
    /\ req' = [req EXCEPT ![p] = [NoRequest EXCEPT !.user = u, !.at = now]]
    /\ Goto(p, "start")
    /\ UNCHANGED <<now, tables, files, tx>>

\* Store.StartTimer refuses when ActiveTimer finds a running entry.
CheckActive(p) ==
    /\ pc[p] = "start" /\ Free
    /\ \E found \in ActiveTimer(req[p].user) :
         IF found = NoEntry THEN Goto(p, "insert") /\ UNCHANGED req ELSE Finish(p)
    /\ UNCHANGED <<now, tables, files, tx>>

\* The insert itself is a transaction of its own: row and tags.
InsertTimer(p) ==
    /\ pc[p] = "insert" /\ Free
    /\ Len(entries) < MaxEntries
    /\ \E rate \in Rates :
         entries' = Append(entries,
            [user |-> req[p].user, start |-> req[p].at, end |-> Running, brk |-> 0,
             dur |-> 0, rate |-> rate, billable |-> TRUE, exported |-> FALSE])
    /\ Finish(p)
    /\ UNCHANGED <<now, invoices, items, files, tx>>

\* What a form with both ends may carry once parseTimesheetTime has accepted it.
AcceptedTimesWithoutEnd == {t \in [start : Time, end : Time \cup {Running}, brk : Breaks] :
                               t.end = Running \/ t.end - t.start - t.brk > 0}
AcceptedTimes == {t \in [start : Time, end : Time, brk : Breaks] :
                    t.end > t.start /\ t.end - t.start - t.brk > 0}

\* A manual entry: one statement of consequence, whatever else is in progress.
CreateTimesheet(p, u) ==
    /\ pc[p] = "idle" /\ Free
    /\ Len(entries) < MaxEntries
    /\ \E t \in AcceptedTimes, rate \in Rates :
         entries' = Append(entries,
            [user |-> u, start |-> t.start, end |-> t.end, brk |-> t.brk,
             dur |-> Worked(t.start, t.end, t.brk), rate |-> rate,
             billable |-> TRUE, exported |-> FALSE])
    /\ UNCHANGED <<now, invoices, items, files, pc, req, tx>>

\* The stop button: the end is the time of arrival.
StopTimer(p, u) ==
    /\ pc[p] = "idle"
    /\ req' = [req EXCEPT ![p] = [NoRequest EXCEPT !.user = u, !.at = now]]
    /\ Goto(p, "stop")
    /\ UNCHANGED <<now, tables, files, tx>>

FindActive(p) ==
    /\ pc[p] = "stop" /\ Free
    /\ \E found \in ActiveTimer(req[p].user) :
         IF found = NoEntry THEN Finish(p)
         ELSE /\ req' = [req EXCEPT ![p] = [@ EXCEPT !.entry = found,
                            !.start = entries[found].start, !.brk = entries[found].brk]]
              /\ Goto(p, "stopping")
    /\ UNCHANGED <<now, tables, files, tx>>

\* The duration comes from the start and the break FindActive has read.
WriteStop(p) ==
    /\ pc[p] = "stopping" /\ Free
    /\ entries' = [entries EXCEPT ![req[p].entry] = [@ EXCEPT !.end = req[p].at,
                      !.dur = Worked(req[p].start, req[p].at, req[p].brk)]]
    /\ Finish(p)
    /\ UNCHANGED <<now, invoices, items, files, tx>>

EditTimesheetUnlocked(p) ==
    /\ pc[p] = "idle" /\ Free
    /\ \E e \in DOMAIN entries :
         /\ ~IsRunning(e)
         /\ req' = [req EXCEPT ![p] = [NoRequest EXCEPT !.entry = e]]
    /\ Goto(p, "edit")
    /\ UNCHANGED <<now, tables, files, tx>>

\* editableTimesheet: exported and running entries are refused.
EditTimesheet(p) ==
    /\ pc[p] = "idle" /\ Free
    /\ \E e \in DOMAIN entries :
         /\ ~entries[e].exported /\ ~IsRunning(e)
         /\ req' = [req EXCEPT ![p] = [NoRequest EXCEPT !.entry = e]]
    /\ Goto(p, "edit")
    /\ UNCHANGED <<now, tables, files, tx>>

\* The update names every column of the form; exported is not one of them.
EditedUnlocks(entry, t, rate, billable) ==
    [entry EXCEPT !.start = t.start, !.end = t.end, !.brk = t.brk, !.exported = FALSE,
                  !.dur = Worked(t.start, t.end, t.brk), !.rate = rate, !.billable = billable]
EditedKeepsDuration(entry, t, rate, billable) ==
    [entry EXCEPT !.start = t.start, !.end = t.end, !.brk = t.brk,
                  !.rate = rate, !.billable = billable]
Edited(entry, t, rate, billable) ==
    [entry EXCEPT !.start = t.start, !.end = t.end, !.brk = t.brk,
                  !.dur = Worked(t.start, t.end, t.brk), !.rate = rate, !.billable = billable]

UpdateTimesheet(p) ==
    /\ pc[p] = "edit" /\ Free
    /\ \E t \in AcceptedTimes, rate \in Rates, billable \in BOOLEAN :
         entries' = [entries EXCEPT ![req[p].entry] = Edited(@, t, rate, billable)]
    /\ Finish(p)
    /\ UNCHANGED <<now, invoices, items, files, tx>>

\* ApplyRecalc is one statement. A user without a rate of his own on the project
\* makes it set rate_cents to NULL, and the statement fails as a whole.
ApplyRecalc(p) ==
    /\ pc[p] = "idle" /\ Free
    /\ \E since \in Time, rateOf \in [Users -> Rates] :
         entries' = [e \in DOMAIN entries |->
            IF ~IsRunning(e) /\ entries[e].billable /\ entries[e].start >= since
            THEN [entries[e] EXCEPT !.rate = rateOf[entries[e].user]] ELSE entries[e]]
    /\ UNCHANGED <<now, invoices, items, files, pc, req, tx>>

-----------------------------------------------------------------------------
(* Invoices.                                                               *)

BillableAgain(from, to) ==
    {e \in DOMAIN entries : /\ entries[e].billable
                            /\ from <= entries[e].start /\ entries[e].start <= to}

\* The filter of CreateInvoice. It does not ask that the entry has ended.
Billable(from, to) ==
    {e \in DOMAIN entries : /\ entries[e].billable /\ ~entries[e].exported
                            /\ from <= entries[e].start /\ entries[e].start <= to}

\* One page of a set of entries, the latest starts first.
Pages(S) ==
    {P \in SUBSET S : /\ Cardinality(P) <= PageLimit
                      /\ Cardinality(P) < PageLimit => P = S
                      /\ \A e \in P, f \in S \ P : entries[f].start <= entries[e].start}

RowOfGross(e) == [entry |-> e, qty |-> entries[e].end - entries[e].start,
                  unit |-> entries[e].rate]
RowOf(e) == [entry |-> e, qty |-> entries[e].dur, unit |-> entries[e].rate]

\* CreateInvoice reads the page before its transaction begins.
ReadBillable(p) ==
    /\ pc[p] = "idle" /\ Free /\ p \in Billers
    /\ \E from \in Time, to \in Time, rate \in TaxRates :
         \E page \in Pages(Billable(from, to)) :
            /\ page # {}
            /\ req' = [req EXCEPT ![p] = [NoRequest EXCEPT
                          !.rows = {RowOf(e) : e \in page},
                          !.number = now % NumberCycle, !.taxRate = rate]]
    /\ Goto(p, "bill")
    /\ UNCHANGED <<now, tables, files, tx>>

BeginInvoiceWithFile(p) ==
    /\ pc[p] = "bill" /\ Free
    /\ Goto(p, "lines") /\ conn' = p /\ written' = {}
    /\ files' = files \cup {req[p].number}
    /\ UNCHANGED <<now, tables, req>>

\* BEGIN and the insert of the invoice, which the UNIQUE number may refuse.
BeginInvoice(p) ==
    /\ pc[p] = "bill" /\ Free
    /\ IF \E i \in invoices : i.number = req[p].number
       THEN Finish(p) /\ UNCHANGED tx
       ELSE Goto(p, "lines") /\ conn' = p /\ written' = {} /\ UNCHANGED req
    /\ UNCHANGED <<now, tables, files>>

BillLineAutocommit(p) ==
    /\ pc[p] = "lines"
    /\ \E row \in req[p].rows :
         /\ \A l \in written : l.entry # row.entry
         /\ written' = written \cup {ItemOf(req[p].number, row)}
    /\ items' = items \cup written'
    /\ UNCHANGED <<now, entries, invoices, files, pc, req, conn>>

BillLineReread(p) ==
    /\ pc[p] = "lines"
    /\ \E row \in req[p].rows :
         /\ \A l \in written : l.entry # row.entry
         /\ written' = written \cup {ItemOf(req[p].number, RowOf(row.entry))}
    /\ UNCHANGED <<now, tables, files, pc, req, conn>>

\* The insert of one item and the update of its entry, in the transaction.
BillLine(p) ==
    /\ pc[p] = "lines"
    /\ \E row \in req[p].rows :
         /\ \A l \in written : l.entry # row.entry
         /\ written' = written \cup {ItemOf(req[p].number, row)}
    /\ UNCHANGED <<now, tables, files, pc, req, conn>>

CommitInvoice(p) ==
    /\ pc[p] = "lines"
    /\ \A row \in req[p].rows : \E l \in written : l.entry = row.entry
    /\ invoices' = invoices \cup {InvoiceOf(req[p])}
    /\ items' = items \cup written
    /\ entries' = [e \in DOMAIN entries |->
          IF \E l \in written : l.entry = e
          THEN [entries[e] EXCEPT !.exported = TRUE] ELSE entries[e]]
    /\ conn' = NoHandler /\ written' = {}
    /\ Goto(p, "file")
    /\ UNCHANGED <<now, files, req>>

\* writeInvoiceFile, after the commit.
WriteInvoiceFile(p) ==
    /\ pc[p] = "file" /\ Free
    /\ files' = files \cup {req[p].number}
    /\ Finish(p)
    /\ UNCHANGED <<now, tables, tx>>

\* The client hangs up, a statement or the disk fails, or the process dies: the
\* handler is gone, and the transaction it had open is rolled back.
Abort(p) ==
    /\ pc[p] # "idle"
    /\ Finish(p)
    /\ IF conn = p THEN conn' = NoHandler /\ written' = {} ELSE UNCHANGED tx
    /\ UNCHANGED <<now, tables, files>>

Step ==
    \/ Tick
    \/ \E p \in Handlers :
         \/ \E u \in Users : StartTimer(p, u) \/ CreateTimesheet(p, u) \/ StopTimer(p, u)
         \/ CheckActive(p) \/ InsertTimer(p) \/ FindActive(p) \/ WriteStop(p)
         \/ EditTimesheet(p) \/ UpdateTimesheet(p) \/ ApplyRecalc(p)
         \/ ReadBillable(p) \/ BeginInvoice(p) \/ BillLine(p) \/ CommitInvoice(p)
         \/ WriteInvoiceFile(p) \/ Abort(p)

\* The entries whose rows a handler still works from: the timer StopTimer has found, the
\* entry editableTimesheet has let pass, the rows CreateInvoice has read.
ReadEntries(p) ==
    CASE pc[p] \in {"stopping", "edit"} -> {req[p].entry}
      [] pc[p] \in {"bill", "lines"}    -> {row.entry : row \in req[p].rows}
      [] OTHER                          -> {}

\* Beside every step: which of them are not any more what the handler has read.
Watch ==
    missed' = [p \in Handlers |->
        {e \in ReadEntries(p)' : e \in missed[p] \/ entries'[e] # entries[e]}]

Next == Step /\ Watch

Spec == Init /\ [][Next]_vars
-----------------------------------------------------------------------------
(* Properties.                                                             *)

\* The values the tables, the files and the requests can hold; the amounts of
\* an invoice are the business of InvoiceTotals.
RecordsOK ==
    /\ now \in Time
    /\ entries \in Seq(Entry)
    /\ items \subseteq Item /\ files \subseteq Nat
    /\ pc \in [Handlers -> Stages]
    /\ req \in [Handlers -> Request]
    /\ conn \in Handlers \cup {NoHandler}
    /\ written \subseteq Item

\* Those values, and what has been missed: entries.
TypeOK == RecordsOK /\ missed \in [Handlers -> SUBSET Nat]

\* The export lock and the invoices agree: an entry is marked exported exactly
\* when a committed invoice has a line for it (CreateInvoice writes both in one
\* transaction, which edits, stops, recalculations and crashes surround).
ExportedIffInvoiced ==
    \A e \in DOMAIN entries : entries[e].exported <=> \E i \in items : i.entry = e

\* An invoice is whole and its arithmetic is that of its lines, whatever was done
\* to the entries since they were read; no two invoices share a number.
InvoiceTotals ==
    /\ \A i \in items : \E inv \in invoices : inv.number = i.invoice
    /\ \A inv \in invoices :
         /\ inv.subtotal = Subtotal({i \in items : i.invoice = inv.number})
         /\ inv.total = inv.subtotal + inv.tax
         /\ \E i \in items : i.invoice = inv.number
         /\ \A other \in invoices : other.number = inv.number => other = inv

\* A file can only be downloaded for an invoice that has been committed.
FilesHaveInvoices == \A n \in files : \E inv \in invoices : inv.number = n

\* Nothing that was billed is billed again: an entry is on one invoice at most.
\* CreateInvoice reads the unexported entries before its transaction begins, so
\* this needs that one handler creates invoices at a time.
NoDoubleBilling == \A i, j \in items : i.entry = j.entry => i = j

\* No handler, edits based on an old copy of the row included, unlocks an entry.
ExportedNeverReset ==
    [][\A e \in DOMAIN entries : entries[e].exported => entries'[e].exported]_vars

\* A stopped timer never runs again: the copies of a row that handlers keep while
\* others write it never bring a NULL end back.
EndedStaysEnded ==
    [][\A e \in DOMAIN entries : ~IsRunning(e) => entries'[e].end # Running]_vars

Times(entry) == [start |-> entry.start, end |-> entry.end, brk |-> entry.brk,
                 dur |-> entry.dur, billable |-> entry.billable]

Exact(entry) ==
    entry.end # Running => entry.dur = Worked(entry.start, entry.end, entry.brk)

\* A handler writes the row of an entry that another one has changed since it read it.
WritesOver(e, stages) ==
    \E p \in Handlers : pc[p] \in stages /\ pc'[p] = "idle" /\ e \in missed[p]

\* Whoever stores the times of an entry that has ended stores their duration with them:
\* new entries, edits, stops. One step alone may break it: the stop of a timer that
\* another request has changed since StopTimer found it, whose start and break it uses.
DurationExact ==
    [][\A e \in DOMAIN entries' :
          /\ e \in DOMAIN entries => Times(entries'[e]) # Times(entries[e])
          /\ ~WritesOver(e, {"stopping"})
          => Exact(entries'[e])]_vars

\* The recorded time of an exported entry that has ended stays what was billed; its rate
\* may change (recalculation ignores the export lock). The lock is looked at when a
\* request reads the row, not when it writes it: an edit or a stop that has read the row
\* before another request changed it writes through the lock, and nothing else does.
ExportedFrozen ==
    [][\A e \in DOMAIN entries :
          /\ entries[e].exported /\ ~IsRunning(e)
          /\ Times(entries'[e]) # Times(entries[e])
          => WritesOver(e, {"stopping", "edit"})]_vars

\* A line of an invoice bills the duration and the rate its entry has at the commit,
\* unless the entry was changed after CreateInvoice had read it. A recalculation or an
\* edit that another request completes before the read, or after the commit, never
\* makes the two differ, nor does what the transaction writes itself.
BilledAsRecorded ==
    [][\A i \in items' \ items :
          \/ i.qty = entries'[i.entry].dur /\ i.unit = entries'[i.entry].rate
          \/ \E p \in Handlers :
                pc[p] = "lines" /\ i.invoice = req[p].number /\ i.entry \in missed[p]]_vars

\* StartTimer's promise "an active timer already exists": a user has one running
\* timer at most.
OneActiveTimer ==
    \A e, f \in DOMAIN entries :
        IsRunning(e) /\ IsRunning(f) /\ entries[e].user = entries[f].user => e = f

-----------------------------------------------------------------------------
(* What the handlers rely on between two statements: with TypeOK and       *)
(* ExportedIffInvoiced it makes the safety properties inductive.           *)

\* One handler holds the connection: the one between BEGIN and COMMIT.
ConnectionHeld ==
    /\ \A p \in Handlers : pc[p] = "lines" <=> conn = p
    /\ conn = NoHandler => written = {}

\* Entries are never deleted, so the id a handler has read stays valid.
CopiesKnown ==
    /\ \A p \in Handlers :
         /\ pc[p] \in {"stopping", "edit"} => req[p].entry \in DOMAIN entries
         /\ \A row \in req[p].rows : row.entry \in DOMAIN entries
         /\ \A row, other \in req[p].rows : row.entry = other.entry => row = other
         /\ pc[p] \in {"bill", "lines"} => p \in Billers /\ req[p].rows # {}
    /\ \A i \in items : i.entry \in DOMAIN entries

\* The transaction writes the rows that were read, under a number still free.
TransactionKnown ==
    \A p \in Handlers :
        /\ pc[p] = "lines" =>
              /\ written \subseteq {ItemOf(req[p].number, row) : row \in req[p].rows}
              /\ \A inv \in invoices : inv.number # req[p].number
        /\ pc[p] = "file" => \E inv \in invoices : inv.number = req[p].number

\* With a single biller the rows it has read stay unexported until it commits.
RowsUnbilled ==
    \A p \in Handlers : pc[p] \in {"bill", "lines"} =>
        \A row \in req[p].rows : ~entries[row.entry].exported
=============================================================================
