--------------------------- MODULE TimeEntriesProofs ---------------------------
(***************************************************************************)
(* Theorems about TimeEntries for every set of users, handlers, rates and  *)
(* tax rates and every bound.                                              *)
(***************************************************************************)
EXTENDS TimeEntries, SequenceTheorems, TLAPS

\* Integer division keeps amounts natural.
LEMMA DivNat ==
    ASSUME NEW a \in Nat, NEW b \in Nat \ {0}
    PROVE  a \div b \in Nat
OBVIOUS

LEMMA ProductNat ==
    ASSUME NEW a \in Nat, NEW b \in Nat
    PROVE  a * b \in Nat
OBVIOUS

\* The line of a row that was read is an invoice item (CreateInvoice's loop body).
LEMMA ItemType ==
    ASSUME NEW n \in Nat, NEW row \in Row
    PROVE  ItemOf(n, row) \in Item
<1>1. row.unit * row.qty \in Nat
  BY ProductNat DEF Row
<1>2. Charge(row) \in Nat
  BY <1>1, DivNat, MoneyAssumption DEF Charge
<1> QED
  BY <1>2 DEF ItemOf, Item, Row

\* What a worked span comes to is never negative (the clamp at zero).
LEMMA WorkedNat ==
    ASSUME NEW start \in Int, NEW end \in Int, NEW brk \in Int
    PROVE  Worked(start, end, brk) \in Nat
BY DEF Worked, AtLeastZero

LEMMA TimeInt == \A t \in Time : t \in Int
BY BoundsAssumption DEF Time

\* The number of an invoice is a remainder of the clock.
LEMMA NumberNat ==
    ASSUME NEW t \in Time
    PROVE  t % NumberCycle \in Nat
BY MoneyAssumption, BoundsAssumption DEF Time

LEMMA NoRequestType == NoRequest \in Request
BY UsersAssumption, BoundsAssumption DEF NoRequest, Request, Time, NoEntry

\* The row an entry is billed with.
LEMMA RowType ==
    ASSUME entries \in Seq(Entry), NEW e \in DOMAIN entries
    PROVE  RowOf(e) \in Row
<1>1. entries[e] \in Entry
  OBVIOUS
<1> QED
  BY <1>1 DEF RowOf, Row, Entry

LEMMA IdsNat ==
    ASSUME entries \in Seq(Entry), NEW e \in DOMAIN entries
    PROVE  e \in Nat /\ entries[e] \in Entry
OBVIOUS

\* An UPDATE of one row by its id keeps the table a table.
LEMMA UpdateType ==
    ASSUME NEW table \in Seq(Entry), NEW id, NEW row,
           id \in DOMAIN table => row \in Entry
    PROVE  [table EXCEPT ![id] = row] \in Seq(Entry)
<1>1. CASE id \in DOMAIN table
  BY <1>1, ExceptSeq
<1>2. CASE id \notin DOMAIN table
  <2>1. [table EXCEPT ![id] = row] = table
    BY <1>2
  <2> QED
    BY <2>1
<1> QED
  BY <1>1, <1>2

-----------------------------------------------------------------------------
(* Type correctness.                                                       *)

LEMMA FinishType ==
    ASSUME TypeOK, NEW p \in Handlers, Finish(p)
    PROVE  pc' \in [Handlers -> Stages] /\ req' \in [Handlers -> Request]
BY NoRequestType DEF Finish, TypeOK, RecordsOK, Stages

LEMMA GotoType ==
    ASSUME TypeOK, NEW p \in Handlers, NEW stage \in Stages, Goto(p, stage)
    PROVE  pc' \in [Handlers -> Stages]
BY DEF Goto, TypeOK, RecordsOK

LEMMA TypeInit == Init => TypeOK
BY NoRequestType, BoundsAssumption DEF Init, TypeOK, RecordsOK, Time, Stages

LEMMA RecordsStep == TypeOK /\ [Next]_vars => RecordsOK'
<1> SUFFICES ASSUME TypeOK, [Next]_vars PROVE RecordsOK'
  OBVIOUS
<1> USE DEF tables, tx
<1>1. CASE UNCHANGED vars
  BY <1>1 DEF vars, TypeOK, RecordsOK
<1>2. CASE Tick
  BY <1>2, BoundsAssumption DEF Tick, TypeOK, RecordsOK, Time
<1>3. ASSUME NEW p \in Handlers, NEW u \in Users, StartTimer(p, u) PROVE RecordsOK'
  <2>1. req' \in [Handlers -> Request]
    BY <1>3, NoRequestType DEF StartTimer, TypeOK, RecordsOK, Request
  <2> QED
    BY <1>3, <2>1, GotoType DEF StartTimer, TypeOK, RecordsOK, Stages
<1>4. ASSUME NEW p \in Handlers, NEW u \in Users, CreateTimesheet(p, u) PROVE RecordsOK'
  <2>1. PICK t \in AcceptedTimes, rate \in Rates :
          entries' = Append(entries,
            [user |-> u, start |-> t.start, end |-> t.end, brk |-> t.brk,
             dur |-> Worked(t.start, t.end, t.brk), rate |-> rate,
             billable |-> TRUE, exported |-> FALSE])
    BY <1>4 DEF CreateTimesheet
  <2>2. t.start \in Time /\ t.end \in Time /\ t.brk \in Nat
    BY MoneyAssumption DEF AcceptedTimes
  <2>3. Worked(t.start, t.end, t.brk) \in Nat
    <3>1. t.start \in Int /\ t.end \in Int /\ t.brk \in Int
      BY <2>2, TimeInt
    <3> QED
      BY <3>1, WorkedNat
  <2>4. entries' \in Seq(Entry)
    BY <2>1, <2>2, <2>3, MoneyAssumption DEF TypeOK, RecordsOK, Entry
  <2> QED
    BY <1>4, <2>4 DEF CreateTimesheet, TypeOK, RecordsOK
<1>5. ASSUME NEW p \in Handlers, NEW u \in Users, StopTimer(p, u) PROVE RecordsOK'
  <2>1. req' \in [Handlers -> Request]
    BY <1>5, NoRequestType DEF StopTimer, TypeOK, RecordsOK, Request
  <2> QED
    BY <1>5, <2>1, GotoType DEF StopTimer, TypeOK, RecordsOK, Stages
<1>6. ASSUME NEW p \in Handlers, CheckActive(p) PROVE RecordsOK'
  BY <1>6, FinishType, GotoType DEF CheckActive, TypeOK, RecordsOK, Stages
<1>7. ASSUME NEW p \in Handlers, InsertTimer(p) PROVE RecordsOK'
  <2>1. entries' \in Seq(Entry)
    BY <1>7, MoneyAssumption DEF InsertTimer, TypeOK, RecordsOK, Entry, Request
  <2> QED
    BY <1>7, <2>1, FinishType DEF InsertTimer, TypeOK, RecordsOK
<1>8. ASSUME NEW p \in Handlers, FindActive(p) PROVE RecordsOK'
  <2>1. PICK found \in ActiveTimer(req[p].user) :
          IF found = NoEntry THEN Finish(p)
          ELSE /\ req' = [req EXCEPT ![p] = [@ EXCEPT !.entry = found,
                             !.start = entries[found].start, !.brk = entries[found].brk]]
               /\ Goto(p, "stopping")
    BY <1>8 DEF FindActive
  <2>2. CASE found = NoEntry
    BY <1>8, <2>1, <2>2, FinishType DEF FindActive, TypeOK, RecordsOK
  <2>3. CASE found # NoEntry
    <3>1. found \in DOMAIN entries
      BY <2>3 DEF ActiveTimer, Newest, Mine
    <3>2. found \in Nat /\ entries[found] \in Entry
      BY <3>1, IdsNat DEF TypeOK, RecordsOK
    <3>3. [req[p] EXCEPT !.entry = found, !.start = entries[found].start,
                         !.brk = entries[found].brk] \in Request
      BY <3>2 DEF TypeOK, RecordsOK, Request, Entry
    <3>4. req' \in [Handlers -> Request]
      BY <2>1, <2>3, <3>3 DEF TypeOK, RecordsOK
    <3> QED
      BY <1>8, <2>1, <2>3, <3>4, GotoType DEF FindActive, TypeOK, RecordsOK, Stages
  <2> QED
    BY <2>2, <2>3
<1>9. ASSUME NEW p \in Handlers, WriteStop(p) PROVE RecordsOK'
  <2>1. req[p] \in Request
    BY DEF TypeOK, RecordsOK
  <2>2. Worked(req[p].start, req[p].at, req[p].brk) \in Nat
    <3>1. req[p].start \in Int /\ req[p].at \in Int /\ req[p].brk \in Int
      BY <2>1, TimeInt DEF Request
    <3> QED
      BY <3>1, WorkedNat
  <2>3. \A entry \in Entry :
          [entry EXCEPT !.end = req[p].at,
             !.dur = Worked(req[p].start, req[p].at, req[p].brk)] \in Entry
    BY <2>1, <2>2 DEF Entry, Request
  <2>4. entries' \in Seq(Entry)
    <3> DEFINE row == [entries[req[p].entry] EXCEPT !.end = req[p].at,
                         !.dur = Worked(req[p].start, req[p].at, req[p].brk)]
    <3>1. req[p].entry \in DOMAIN entries => row \in Entry
      BY <2>3, IdsNat DEF TypeOK, RecordsOK
    <3>2. entries' = [entries EXCEPT ![req[p].entry] = row]
      BY <1>9 DEF WriteStop
    <3> HIDE DEF row
    <3> QED
      BY <3>1, <3>2, UpdateType DEF TypeOK, RecordsOK
  <2> QED
    BY <1>9, <2>4, FinishType DEF WriteStop, TypeOK, RecordsOK
<1>10. ASSUME NEW p \in Handlers, EditTimesheet(p) PROVE RecordsOK'
  <2>1. PICK e \in DOMAIN entries : req' = [req EXCEPT ![p] = [NoRequest EXCEPT !.entry = e]]
    BY <1>10 DEF EditTimesheet
  <2>2. req' \in [Handlers -> Request]
    BY <2>1, NoRequestType, IdsNat DEF TypeOK, RecordsOK, Request
  <2> QED
    BY <1>10, <2>2, GotoType DEF EditTimesheet, TypeOK, RecordsOK, Stages
<1>11. ASSUME NEW p \in Handlers, UpdateTimesheet(p) PROVE RecordsOK'
  <2>1. PICK t \in AcceptedTimes, rate \in Rates, billable \in BOOLEAN :
          entries' = [entries EXCEPT ![req[p].entry] = Edited(@, t, rate, billable)]
    BY <1>11 DEF UpdateTimesheet
  <2>2. t.start \in Time /\ t.end \in Time /\ t.brk \in Nat
    BY MoneyAssumption DEF AcceptedTimes
  <2>3. Worked(t.start, t.end, t.brk) \in Nat
    <3>1. t.start \in Int /\ t.end \in Int /\ t.brk \in Int
      BY <2>2, TimeInt
    <3> QED
      BY <3>1, WorkedNat
  <2>4. \A entry \in Entry : Edited(entry, t, rate, billable) \in Entry
    BY <2>2, <2>3, MoneyAssumption DEF Edited, Entry
  <2>5. entries' \in Seq(Entry)
    <3> DEFINE row == Edited(entries[req[p].entry], t, rate, billable)
    <3>1. req[p].entry \in DOMAIN entries => row \in Entry
      BY <2>4, IdsNat DEF TypeOK, RecordsOK
    <3>2. entries' = [entries EXCEPT ![req[p].entry] = row]
      BY <2>1
    <3> HIDE DEF row
    <3> QED
      BY <3>1, <3>2, UpdateType DEF TypeOK, RecordsOK
  <2> QED
    BY <1>11, <2>5, FinishType DEF UpdateTimesheet, TypeOK, RecordsOK
<1>12. ASSUME NEW p \in Handlers, ApplyRecalc(p) PROVE RecordsOK'
  <2>1. PICK since \in Time, rateOf \in [Users -> Rates] :
          entries' = [e \in DOMAIN entries |->
            IF ~IsRunning(e) /\ entries[e].billable /\ entries[e].start >= since
            THEN [entries[e] EXCEPT !.rate = rateOf[entries[e].user]] ELSE entries[e]]
    BY <1>12 DEF ApplyRecalc
  <2>2. \A e \in DOMAIN entries : entries'[e] \in Entry
    BY <2>1, IdsNat, MoneyAssumption DEF TypeOK, RecordsOK, Entry
  <2>3. entries' \in Seq(Entry)
    BY <2>1, <2>2 DEF TypeOK, RecordsOK
  <2> QED
    BY <1>12, <2>3 DEF ApplyRecalc, TypeOK, RecordsOK
<1>13. ASSUME NEW p \in Handlers, ReadBillable(p) PROVE RecordsOK'
  <2>0. PICK from \in Time, to \in Time, rate \in TaxRates :
          \E page \in Pages(Billable(from, to)) :
            req' = [req EXCEPT ![p] = [NoRequest EXCEPT
                      !.rows = {RowOf(e) : e \in page},
                      !.number = now % NumberCycle, !.taxRate = rate]]
    BY <1>13 DEF ReadBillable
  <2>1. PICK page \in Pages(Billable(from, to)) :
          req' = [req EXCEPT ![p] = [NoRequest EXCEPT
                    !.rows = {RowOf(e) : e \in page},
                    !.number = now % NumberCycle, !.taxRate = rate]]
    BY <2>0
  <2>2. {RowOf(e) : e \in page} \subseteq Row
    BY RowType DEF Pages, Billable, TypeOK, RecordsOK
  <2>3. now % NumberCycle \in Nat /\ rate \in Nat
    BY NumberNat, MoneyAssumption DEF TypeOK, RecordsOK
  <2>4. req' \in [Handlers -> Request]
    BY <2>1, <2>2, <2>3, NoRequestType DEF TypeOK, RecordsOK, Request
  <2> QED
    BY <1>13, <2>4, GotoType DEF ReadBillable, TypeOK, RecordsOK, Stages
<1>14. ASSUME NEW p \in Handlers, BeginInvoice(p) PROVE RecordsOK'
  BY <1>14, FinishType, GotoType DEF BeginInvoice, TypeOK, RecordsOK, Stages
<1>15. ASSUME NEW p \in Handlers, BillLine(p) PROVE RecordsOK'
  <2>1. PICK row \in req[p].rows : written' = written \cup {ItemOf(req[p].number, row)}
    BY <1>15 DEF BillLine
  <2>2. row \in Row /\ req[p].number \in Nat
    BY DEF TypeOK, RecordsOK, Request
  <2>3. ItemOf(req[p].number, row) \in Item
    BY <2>2, ItemType
  <2> QED
    BY <1>15, <2>1, <2>3 DEF BillLine, TypeOK, RecordsOK
<1>16. ASSUME NEW p \in Handlers, CommitInvoice(p) PROVE RecordsOK'
  <2>1. entries' = [e \in DOMAIN entries |->
                      IF \E l \in written : l.entry = e
                      THEN [entries[e] EXCEPT !.exported = TRUE] ELSE entries[e]]
    BY <1>16 DEF CommitInvoice
  <2>2. \A e \in DOMAIN entries : entries'[e] \in Entry
    BY <2>1, IdsNat DEF TypeOK, RecordsOK, Entry
  <2>3. entries' \in Seq(Entry)
    <3>1. DOMAIN entries = 1..Len(entries) /\ Len(entries) \in Nat
      BY DEF TypeOK, RecordsOK
    <3>2. entries' \in [1..Len(entries) -> Entry]
      BY <2>1, <2>2, <3>1
    <3> QED
      BY <3>1, <3>2
  <2> QED
    BY <1>16, <2>3, GotoType DEF CommitInvoice, TypeOK, RecordsOK, Stages
<1>17. ASSUME NEW p \in Handlers, WriteInvoiceFile(p) PROVE RecordsOK'
  BY <1>17, FinishType DEF WriteInvoiceFile, TypeOK, RecordsOK, Request
<1>18. ASSUME NEW p \in Handlers, Abort(p) PROVE RecordsOK'
  BY <1>18, FinishType DEF Abort, TypeOK, RecordsOK
<1> QED
  BY <1>1, <1>2, <1>3, <1>4, <1>5, <1>6, <1>7, <1>8, <1>9, <1>10, <1>11, <1>12,
     <1>13, <1>14, <1>15, <1>16, <1>17, <1>18 DEF Next, Step

\* What is read is an entry, so what has been missed is.
LEMMA ReadEntriesType ==
    ASSUME RecordsOK, NEW p \in Handlers
    PROVE  ReadEntries(p) \subseteq Nat
<1>1. req[p] \in Request
  BY DEF RecordsOK
<1>2. req[p].entry \in Nat /\ \A row \in req[p].rows : row.entry \in Nat
  BY <1>1 DEF Request, Row
<1> QED
  BY <1>2 DEF ReadEntries

LEMMA ReadEntriesNext == RecordsOK' => (\A p \in Handlers : ReadEntries(p) \subseteq Nat)'
<1>1. RecordsOK => \A p \in Handlers : ReadEntries(p) \subseteq Nat
  BY ReadEntriesType
<1> QED
  BY <1>1, PTL

LEMMA TypeStep == TypeOK /\ [Next]_vars => TypeOK'
<1> SUFFICES ASSUME TypeOK, [Next]_vars PROVE TypeOK'
  OBVIOUS
<1>1. RecordsOK'
  BY RecordsStep
<1>2. CASE UNCHANGED vars
  BY <1>1, <1>2 DEF vars, TypeOK
<1>3. CASE Watch
  <2>1. \A p \in Handlers : ReadEntries(p)' \subseteq Nat
    BY <1>1, ReadEntriesNext
  <2>2. missed' \in [Handlers -> SUBSET Nat]
    BY <1>1, <1>3, <2>1 DEF Watch
  <2> QED
    BY <1>1, <2>2 DEF TypeOK
<1> QED
  BY <1>2, <1>3 DEF Next

\* Every table, file and request holds what its columns and fields may hold: no
\* duration, quantity or charge is ever negative, whatever interleaves.
THEOREM TypeCorrect == Spec => []TypeOK
BY TypeInit, TypeStep, PTL DEF Spec

-----------------------------------------------------------------------------
(* What a step can do to the tables.                                       *)

\* The step adds unlocked entries at most, and leaves every lock and invoice.
LocksKept ==
    /\ UNCHANGED <<invoices, items>>
    /\ DOMAIN entries \subseteq DOMAIN entries'
    /\ \A e \in DOMAIN entries : entries'[e].exported = entries[e].exported
    /\ \A e \in DOMAIN entries' \ DOMAIN entries : ~entries'[e].exported

LEMMA AppendKeepsLocks ==
    ASSUME TypeOK, NEW entry \in Entry, ~entry.exported,
           entries' = Append(entries, entry), UNCHANGED <<invoices, items>>
    PROVE  LocksKept
<1>1. entries \in Seq(Entry)
  BY DEF TypeOK, RecordsOK
<1>2. /\ DOMAIN entries = 1..Len(entries) /\ DOMAIN entries' = 1..(Len(entries) + 1)
      /\ \A e \in 1..Len(entries) : entries'[e] = entries[e]
      /\ entries'[Len(entries) + 1] = entry
  BY <1>1
<1>3. Len(entries) \in Nat
  BY <1>1
<1> QED
  BY <1>2, <1>3 DEF LocksKept

LEMMA UpdateKeepsLocks ==
    ASSUME TypeOK, NEW id, NEW entry,
           id \in DOMAIN entries => entry.exported = entries[id].exported,
           entries' = [entries EXCEPT ![id] = entry], UNCHANGED <<invoices, items>>
    PROVE  LocksKept
BY DEF LocksKept, TypeOK, RecordsOK

\* Only the commit of an invoice locks entries; nothing unlocks them.
LEMMA OnlyCommitLocks ==
    ASSUME TypeOK, [Next]_vars
    PROVE  LocksKept \/ \E p \in Handlers : CommitInvoice(p)
<1> USE DEF tables, tx
<1>1. CASE UNCHANGED <<entries, invoices, items>>
  BY <1>1 DEF LocksKept
<1>2. ASSUME NEW p \in Handlers, NEW u \in Users, CreateTimesheet(p, u) PROVE LocksKept
  <2>1. PICK t \in AcceptedTimes, rate \in Rates :
          entries' = Append(entries,
            [user |-> u, start |-> t.start, end |-> t.end, brk |-> t.brk,
             dur |-> Worked(t.start, t.end, t.brk), rate |-> rate,
             billable |-> TRUE, exported |-> FALSE])
    BY <1>2 DEF CreateTimesheet
  <2>2. t.start \in Time /\ t.end \in Time /\ t.brk \in Nat
    BY MoneyAssumption DEF AcceptedTimes
  <2>3. Worked(t.start, t.end, t.brk) \in Nat
    <3>1. t.start \in Int /\ t.end \in Int /\ t.brk \in Int
      BY <2>2, TimeInt
    <3> QED
      BY <3>1, WorkedNat
  <2> DEFINE row == [user |-> u, start |-> t.start, end |-> t.end, brk |-> t.brk,
                     dur |-> Worked(t.start, t.end, t.brk), rate |-> rate,
                     billable |-> TRUE, exported |-> FALSE]
  <2>4. row \in Entry /\ ~row.exported
    BY <2>2, <2>3, MoneyAssumption DEF Entry
  <2> HIDE DEF row
  <2> QED
    BY <1>2, <2>1, <2>4, AppendKeepsLocks DEF CreateTimesheet, row
<1>3. ASSUME NEW p \in Handlers, InsertTimer(p) PROVE LocksKept
  <2>1. PICK rate \in Rates : entries' = Append(entries,
            [user |-> req[p].user, start |-> req[p].at, end |-> Running, brk |-> 0,
             dur |-> 0, rate |-> rate, billable |-> TRUE, exported |-> FALSE])
    BY <1>3 DEF InsertTimer
  <2> DEFINE row == [user |-> req[p].user, start |-> req[p].at, end |-> Running, brk |-> 0,
                     dur |-> 0, rate |-> rate, billable |-> TRUE, exported |-> FALSE]
  <2>2. row \in Entry /\ ~row.exported
    BY MoneyAssumption DEF Entry, TypeOK, RecordsOK, Request
  <2> HIDE DEF row
  <2> QED
    BY <1>3, <2>1, <2>2, AppendKeepsLocks DEF InsertTimer, row
<1>4. ASSUME NEW p \in Handlers, WriteStop(p) PROVE LocksKept
  <2> DEFINE row == [entries[req[p].entry] EXCEPT !.end = req[p].at,
                       !.dur = Worked(req[p].start, req[p].at, req[p].brk)]
  <2>1. req[p].entry \in DOMAIN entries =>
          row.exported = entries[req[p].entry].exported
    BY IdsNat DEF TypeOK, RecordsOK, Entry
  <2>2. entries' = [entries EXCEPT ![req[p].entry] = row]
    BY <1>4 DEF WriteStop
  <2> HIDE DEF row
  <2> QED
    BY <1>4, <2>1, <2>2, UpdateKeepsLocks DEF WriteStop
<1>5. ASSUME NEW p \in Handlers, UpdateTimesheet(p) PROVE LocksKept
  <2>1. PICK t \in AcceptedTimes, rate \in Rates, billable \in BOOLEAN :
          entries' = [entries EXCEPT ![req[p].entry] = Edited(@, t, rate, billable)]
    BY <1>5 DEF UpdateTimesheet
  <2> DEFINE row == Edited(entries[req[p].entry], t, rate, billable)
  <2>2. req[p].entry \in DOMAIN entries =>
          row.exported = entries[req[p].entry].exported
    BY IdsNat DEF TypeOK, RecordsOK, Entry, Edited
  <2>3. entries' = [entries EXCEPT ![req[p].entry] = row]
    BY <2>1
  <2> HIDE DEF row
  <2> QED
    BY <1>5, <2>2, <2>3, UpdateKeepsLocks DEF UpdateTimesheet
<1>6. ASSUME NEW p \in Handlers, ApplyRecalc(p) PROVE LocksKept
  <2>1. PICK since \in Time, rateOf \in [Users -> Rates] :
          entries' = [e \in DOMAIN entries |->
            IF ~IsRunning(e) /\ entries[e].billable /\ entries[e].start >= since
            THEN [entries[e] EXCEPT !.rate = rateOf[entries[e].user]] ELSE entries[e]]
    BY <1>6 DEF ApplyRecalc
  <2>2. \A e \in DOMAIN entries : entries'[e].exported = entries[e].exported
    BY <2>1, IdsNat DEF TypeOK, RecordsOK, Entry
  <2> QED
    BY <1>6, <2>1, <2>2 DEF ApplyRecalc, LocksKept
<1> QED
  BY <1>1, <1>2, <1>3, <1>4, <1>5, <1>6 DEF Next, Step, vars, Tick, StartTimer, StopTimer,
     CheckActive, FindActive, EditTimesheet, ReadBillable, BeginInvoice, BillLine,
     WriteInvoiceFile, Abort

LEMMA CommitLocks ==
    ASSUME TypeOK, NEW p \in Handlers, CommitInvoice(p)
    PROVE  /\ DOMAIN entries' = DOMAIN entries
           /\ \A e \in DOMAIN entries :
                entries'[e].exported = (entries[e].exported \/ \E l \in written : l.entry = e)
           /\ \A e \in DOMAIN entries : entries'[e].end = entries[e].end
<1>1. entries' = [e \in DOMAIN entries |->
                    IF \E l \in written : l.entry = e
                    THEN [entries[e] EXCEPT !.exported = TRUE] ELSE entries[e]]
  BY DEF CommitInvoice
<1>2. \A e \in DOMAIN entries : entries[e] \in Entry
  BY IdsNat DEF TypeOK, RecordsOK
<1>3. ASSUME NEW e \in DOMAIN entries
      PROVE  /\ entries'[e].exported = (entries[e].exported \/ \E l \in written : l.entry = e)
             /\ entries'[e].end = entries[e].end
  <2>1. CASE \E l \in written : l.entry = e
    BY <1>1, <1>2, <2>1 DEF Entry
  <2>2. CASE ~ \E l \in written : l.entry = e
    BY <1>1, <1>2, <2>2 DEF Entry
  <2> QED
    BY <2>1, <2>2
<1> QED
  BY <1>1, <1>3

\* No step of any handler, the edits and stops that work on an old copy of the
\* row included, clears the export lock of an entry.
THEOREM ExportLockHolds == Spec => ExportedNeverReset
<1>1. TypeOK /\ [Next]_vars =>
        [\A e \in DOMAIN entries : entries[e].exported => entries'[e].exported]_vars
  BY OnlyCommitLocks, CommitLocks DEF LocksKept
<1> QED
  BY <1>1, TypeCorrect, PTL DEF Spec, ExportedNeverReset

-----------------------------------------------------------------------------
(* The inductive invariant.                                                *)

IInv == TypeOK /\ ConnectionHeld /\ CopiesKnown /\ TransactionKnown /\ ExportedIffInvoiced

LEMMA InvInit == Init => IInv
<1> SUFFICES ASSUME Init PROVE IInv
  OBVIOUS
<1>1. TypeOK
  BY TypeInit
<1>2. \A p \in Handlers : pc[p] = "idle" /\ req[p].rows = {} /\ conn # p
  BY HandlersAssumption DEF Init, NoRequest
<1>3. DOMAIN entries = {} /\ items = {} /\ written = {}
  BY DEF Init
<1> QED
  BY <1>1, <1>2, <1>3 DEF IInv, ConnectionHeld, CopiesKnown, TransactionKnown, ExportedIffInvoiced

\* The page is a set of different entries, so its rows are different too.
LEMMA RowsOfPage ==
    ASSUME TypeOK, NEW from, NEW to, NEW page \in Pages(Billable(from, to))
    PROVE  /\ \A row \in {RowOf(e) : e \in page} : row.entry \in DOMAIN entries
           /\ \A row \in {RowOf(e) : e \in page} : ~entries[row.entry].exported
           /\ \A row, other \in {RowOf(e) : e \in page} : row.entry = other.entry => row = other
BY DEF Pages, Billable, RowOf

LEMMA ConnectionStep == IInv /\ [Next]_vars => ConnectionHeld'
<1> SUFFICES ASSUME IInv, [Next]_vars PROVE ConnectionHeld'
  OBVIOUS
<1> USE DEF tx, IInv, TypeOK, RecordsOK, ConnectionHeld
<1>1. CASE UNCHANGED <<pc, conn, written>>
  BY <1>1
<1>2. ASSUME NEW p \in Handlers, Free, pc[p] # "lines", UNCHANGED <<conn, written>>,
             \E stage \in Stages \ {"lines"} : pc' = [pc EXCEPT ![p] = stage]
      PROVE  ConnectionHeld'
  BY <1>2, HandlersAssumption DEF Free
<1>3. ASSUME NEW p \in Handlers, BeginInvoice(p) PROVE ConnectionHeld'
  BY <1>3, HandlersAssumption DEF BeginInvoice, Free, Goto, Finish
<1>4. ASSUME NEW p \in Handlers, BillLine(p) PROVE ConnectionHeld'
  BY <1>4, HandlersAssumption DEF BillLine
<1>5. ASSUME NEW p \in Handlers, CommitInvoice(p) PROVE ConnectionHeld'
  BY <1>5, HandlersAssumption DEF CommitInvoice, Goto
<1>6. ASSUME NEW p \in Handlers, Abort(p) PROVE ConnectionHeld'
  BY <1>6, HandlersAssumption DEF Abort, Finish
<1>7. ASSUME NEW p \in Handlers, NEW u \in Users, StartTimer(p, u) \/ StopTimer(p, u)
      PROVE  ConnectionHeld'
  BY <1>7, HandlersAssumption DEF StartTimer, StopTimer, Goto
<1>8. ASSUME NEW p \in Handlers,
             \/ CheckActive(p) \/ InsertTimer(p) \/ FindActive(p) \/ WriteStop(p)
             \/ EditTimesheet(p) \/ UpdateTimesheet(p) \/ ReadBillable(p) \/ WriteInvoiceFile(p)
      PROVE  ConnectionHeld'
  <2>1. Free /\ pc[p] # "lines" /\ UNCHANGED <<conn, written>>
    BY <1>8 DEF CheckActive, InsertTimer, FindActive, WriteStop, EditTimesheet,
       UpdateTimesheet, ReadBillable, WriteInvoiceFile
  <2>2. \E stage \in Stages \ {"lines"} : pc' = [pc EXCEPT ![p] = stage]
    BY <1>8 DEF CheckActive, InsertTimer, FindActive, WriteStop, EditTimesheet,
       UpdateTimesheet, ReadBillable, WriteInvoiceFile, Goto, Finish, Stages
  <2> QED
    BY <1>2, <2>1, <2>2
<1> QED
  BY <1>1, <1>3, <1>4, <1>5, <1>6, <1>7, <1>8 DEF Next, Step, vars, Tick, CreateTimesheet, ApplyRecalc

LEMMA IdsKept ==
    ASSUME TypeOK, [Next]_vars
    PROVE  DOMAIN entries \subseteq DOMAIN entries'
BY OnlyCommitLocks, CommitLocks DEF LocksKept

\* A request as CopiesKnown wants it, at a given stage.
Sound(p, stage, r) ==
    /\ stage \in {"stopping", "edit"} => r.entry \in DOMAIN entries
    /\ \A row \in r.rows : row.entry \in DOMAIN entries
    /\ \A row, other \in r.rows : row.entry = other.entry => row = other
    /\ stage \in {"bill", "lines"} => p \in Billers /\ r.rows # {}

\* One handler moves at a time, so it is enough that its new request is sound
\* for the entries that were there before the step.
LEMMA OneMoves ==
    ASSUME IInv, [Next]_vars, NEW p \in Handlers, NEW stage \in Stages, NEW r,
           pc' = [pc EXCEPT ![p] = stage], req' = [req EXCEPT ![p] = r],
           Sound(p, stage, r), UNCHANGED items
    PROVE  CopiesKnown'
<1>1. DOMAIN entries \subseteq DOMAIN entries'
  BY IdsKept DEF IInv
<1>2. \A q \in Handlers : Sound(q, pc[q], req[q])
  BY DEF IInv, CopiesKnown, Sound
<1>3. \A q \in Handlers : Sound(q, pc'[q], req'[q])
  BY <1>2 DEF IInv, TypeOK, RecordsOK
<1> QED
  BY <1>1, <1>3 DEF IInv, CopiesKnown, Sound

LEMMA CopiesStep == IInv /\ [Next]_vars => CopiesKnown'
<1> SUFFICES ASSUME IInv, [Next]_vars PROVE CopiesKnown'
  OBVIOUS
<1> USE DEF tables, tx
<1>1. CASE UNCHANGED <<pc, req, items>>
  BY <1>1, IdsKept DEF IInv, CopiesKnown
<1>2. NoRequest.rows = {}
  BY DEF NoRequest
<1>3. ASSUME NEW p \in Handlers, Finish(p), UNCHANGED items PROVE CopiesKnown'
  <2>1. Sound(p, "idle", NoRequest)
    BY <1>2 DEF Sound
  <2> QED
    BY <1>3, <2>1, OneMoves DEF Finish, Stages
<1>4. ASSUME NEW p \in Handlers, NEW u \in Users, StartTimer(p, u) \/ StopTimer(p, u)
      PROVE  CopiesKnown'
  <2> DEFINE r == [NoRequest EXCEPT !.user = u, !.at = now]
  <2>1. \A stage \in {"start", "stop"} : Sound(p, stage, r)
    BY NoRequestType, <1>2 DEF Sound, Request
  <2>2. \E stage \in {"start", "stop"} :
          pc' = [pc EXCEPT ![p] = stage] /\ req' = [req EXCEPT ![p] = r] /\ UNCHANGED items
    BY <1>4 DEF StartTimer, StopTimer, Goto
  <2> HIDE DEF r
  <2> QED
    BY <2>1, <2>2, OneMoves DEF Stages
<1>5. ASSUME NEW p \in Handlers, NEW stage \in Stages, Goto(p, stage), UNCHANGED <<req, items>>,
             stage \in {"stopping", "edit"} => pc[p] \in {"stopping", "edit"},
             stage \in {"bill", "lines"} => pc[p] \in {"bill", "lines"}
      PROVE  CopiesKnown'
  <2>1. Sound(p, stage, req[p]) /\ req' = [req EXCEPT ![p] = req[p]]
    BY <1>5 DEF IInv, CopiesKnown, Sound, TypeOK, RecordsOK
  <2> QED
    BY <1>5, <2>1, OneMoves DEF Goto
<1>6. ASSUME NEW p \in Handlers, CheckActive(p) PROVE CopiesKnown'
  BY <1>3, <1>5, <1>6 DEF CheckActive, Stages
<1>7. ASSUME NEW p \in Handlers, FindActive(p) PROVE CopiesKnown'
  <2>1. PICK found \in ActiveTimer(req[p].user) :
          IF found = NoEntry THEN Finish(p)
          ELSE /\ req' = [req EXCEPT ![p] = [@ EXCEPT !.entry = found,
                             !.start = entries[found].start, !.brk = entries[found].brk]]
               /\ Goto(p, "stopping")
    BY <1>7 DEF FindActive
  <2>2. CASE found = NoEntry
    BY <1>3, <1>7, <2>1, <2>2 DEF FindActive
  <2>3. CASE found # NoEntry
    <3> DEFINE r == [req[p] EXCEPT !.entry = found, !.start = entries[found].start,
                                   !.brk = entries[found].brk]
    <3>1. found \in DOMAIN entries
      BY <2>3 DEF ActiveTimer, Newest, Mine
    <3>2. r.entry = found /\ r.rows = req[p].rows
      BY DEF IInv, TypeOK, RecordsOK, Request
    <3>3. Sound(p, "stopping", r)
      BY <3>1, <3>2 DEF IInv, CopiesKnown, Sound
    <3>4. req' = [req EXCEPT ![p] = r]
      BY <2>1, <2>3
    <3> HIDE DEF r
    <3> QED
      BY <1>7, <2>1, <2>3, <3>3, <3>4, OneMoves DEF FindActive, Goto, Stages
  <2> QED
    BY <2>2, <2>3
<1>8. ASSUME NEW p \in Handlers, EditTimesheet(p) PROVE CopiesKnown'
  <2>1. PICK e \in DOMAIN entries : req' = [req EXCEPT ![p] = [NoRequest EXCEPT !.entry = e]]
    BY <1>8 DEF EditTimesheet
  <2> DEFINE r == [NoRequest EXCEPT !.entry = e]
  <2>2. Sound(p, "edit", r)
    BY NoRequestType, <1>2 DEF Sound, Request
  <2> HIDE DEF r
  <2> QED
    BY <1>8, <2>1, <2>2, OneMoves DEF EditTimesheet, Goto, Stages, r
<1>9. ASSUME NEW p \in Handlers, ReadBillable(p) PROVE CopiesKnown'
  <2>1. PICK from \in Time, to \in Time, rate \in TaxRates :
          \E page \in Pages(Billable(from, to)) :
            /\ page # {}
            /\ req' = [req EXCEPT ![p] = [NoRequest EXCEPT
                      !.rows = {RowOf(e) : e \in page},
                      !.number = now % NumberCycle, !.taxRate = rate]]
    BY <1>9 DEF ReadBillable
  <2>2. PICK page \in Pages(Billable(from, to)) :
            /\ page # {}
            /\ req' = [req EXCEPT ![p] = [NoRequest EXCEPT
                      !.rows = {RowOf(e) : e \in page},
                      !.number = now % NumberCycle, !.taxRate = rate]]
    BY <2>1
  <2> DEFINE r == [NoRequest EXCEPT !.rows = {RowOf(e) : e \in page},
                      !.number = now % NumberCycle, !.taxRate = rate]
  <2>3. r.rows = {RowOf(e) : e \in page}
    BY NoRequestType DEF Request
  <2>4. Sound(p, "bill", r)
    BY <1>9, <2>2, <2>3, RowsOfPage DEF Sound, IInv, ReadBillable
  <2> HIDE DEF r
  <2> QED
    BY <1>9, <2>2, <2>4, OneMoves DEF ReadBillable, Goto, Stages, r
<1>10. ASSUME NEW p \in Handlers, BeginInvoice(p) PROVE CopiesKnown'
  BY <1>3, <1>5, <1>10 DEF BeginInvoice, Stages
<1>11. ASSUME NEW p \in Handlers, CommitInvoice(p) PROVE CopiesKnown'
  <2>1. \A l \in written : l.entry \in DOMAIN entries
    BY <1>11 DEF CommitInvoice, IInv, TransactionKnown, CopiesKnown, ItemOf
  <2>2. \A i \in items' : i.entry \in DOMAIN entries'
    BY <1>11, <2>1, CommitLocks DEF CommitInvoice, IInv, CopiesKnown
  <2>3. DOMAIN entries' = DOMAIN entries
    BY <1>11, CommitLocks DEF IInv
  <2> QED
    BY <1>11, <2>2, <2>3 DEF CommitInvoice, Goto, IInv, CopiesKnown, TypeOK, RecordsOK, Stages
<1> QED
  BY <1>1, <1>3, <1>4, <1>6, <1>7, <1>8, <1>9, <1>10, <1>11 DEF Next, Step, vars, Tick,
     InsertTimer, CreateTimesheet, WriteStop, UpdateTimesheet, ApplyRecalc, BillLine,
     WriteInvoiceFile, Abort

\* The step leaves what TransactionKnown says of every handler alone, and does
\* not bring a handler to the stages it speaks of.
LEMMA TransactionQuiet ==
    ASSUME IInv, NEW p \in Handlers, NEW stage \in Stages \ {"lines", "file"},
           pc' = [pc EXCEPT ![p] = stage], \A q \in Handlers \ {p} : req'[q] = req[q],
           UNCHANGED <<invoices, written>>
    PROVE  TransactionKnown'
BY DEF IInv, TypeOK, RecordsOK, TransactionKnown

LEMMA TransactionStep == IInv /\ [Next]_vars => TransactionKnown'
<1> SUFFICES ASSUME IInv, [Next]_vars PROVE TransactionKnown'
  OBVIOUS
<1> USE DEF tables, tx
<1>1. CASE UNCHANGED <<pc, req, invoices, written>>
  BY <1>1 DEF IInv, TransactionKnown
<1>2. ASSUME NEW p \in Handlers, Finish(p), UNCHANGED <<invoices, written>>
      PROVE  TransactionKnown'
  <2>1. \A q \in Handlers \ {p} : req'[q] = req[q]
    BY <1>2 DEF Finish, IInv, TypeOK, RecordsOK
  <2> QED
    BY <1>2, <2>1, TransactionQuiet DEF Finish, Stages
<1>3. ASSUME NEW p \in Handlers, NEW u \in Users, StartTimer(p, u) \/ StopTimer(p, u)
      PROVE  TransactionKnown'
  <2>1. \A q \in Handlers \ {p} : req'[q] = req[q]
    BY <1>3 DEF StartTimer, StopTimer, IInv, TypeOK, RecordsOK
  <2> QED
    BY <1>3, <2>1, TransactionQuiet DEF StartTimer, StopTimer, Goto, Stages
<1>4. ASSUME NEW p \in Handlers,
             CheckActive(p) \/ FindActive(p) \/ EditTimesheet(p) \/ ReadBillable(p)
      PROVE  TransactionKnown'
  <2>1. UNCHANGED <<invoices, written>>
    BY <1>4 DEF CheckActive, FindActive, EditTimesheet, ReadBillable
  <2>2. Finish(p) \/ \E stage \in {"insert", "stopping", "edit", "bill"} : Goto(p, stage)
    BY <1>4 DEF CheckActive, FindActive, EditTimesheet, ReadBillable
  <2>3. \A q \in Handlers \ {p} : req'[q] = req[q]
    BY <1>4 DEF CheckActive, FindActive, EditTimesheet, ReadBillable, Finish, IInv, TypeOK, RecordsOK
  <2> QED
    BY <1>2, <2>1, <2>2, <2>3, TransactionQuiet DEF Goto, Stages
<1>5. ASSUME NEW p \in Handlers, BeginInvoice(p) PROVE TransactionKnown'
  <2>1. CASE \E i \in invoices : i.number = req[p].number
    BY <1>2, <1>5, <2>1 DEF BeginInvoice
  <2>2. CASE ~ \E i \in invoices : i.number = req[p].number
    <3>1. \A q \in Handlers : pc[q] # "lines"
      BY <1>5, HandlersAssumption DEF BeginInvoice, Free, IInv, ConnectionHeld
    <3> QED
      BY <1>5, <2>2, <3>1 DEF BeginInvoice, Goto, IInv, TypeOK, RecordsOK, TransactionKnown
  <2> QED
    BY <2>1, <2>2
<1>6. ASSUME NEW p \in Handlers, BillLine(p) PROVE TransactionKnown'
  <2>1. \A q \in Handlers : pc[q] = "lines" => q = p
    BY <1>6 DEF BillLine, IInv, ConnectionHeld
  <2> QED
    BY <1>6, <2>1 DEF BillLine, IInv, TransactionKnown
<1>7. ASSUME NEW p \in Handlers, CommitInvoice(p) PROVE TransactionKnown'
  <2>1. \A q \in Handlers : pc[q] = "lines" => q = p
    BY <1>7 DEF CommitInvoice, IInv, ConnectionHeld
  <2>2. InvoiceOf(req[p]).number = req[p].number
    BY DEF InvoiceOf
  <2>3. pc' = [pc EXCEPT ![p] = "file"] /\ req' = req
        /\ invoices' = invoices \cup {InvoiceOf(req[p])}
    BY <1>7 DEF CommitInvoice, Goto
  <2> QED
    BY <2>1, <2>2, <2>3 DEF IInv, TypeOK, RecordsOK, TransactionKnown
<1>8. ASSUME NEW p \in Handlers, Abort(p) PROVE TransactionKnown'
  <2>1. CASE conn # p
    BY <1>2, <1>8, <2>1 DEF Abort
  <2>2. CASE conn = p
    <3>1. \A q \in Handlers : pc'[q] # "lines"
      BY <1>8, <2>2 DEF Abort, Finish, IInv, ConnectionHeld, TypeOK, RecordsOK
    <3>2. \A q \in Handlers : pc'[q] = "file" => pc[q] = "file" /\ req'[q] = req[q]
      BY <1>8 DEF Abort, Finish, IInv, TypeOK, RecordsOK
    <3> QED
      BY <1>8, <3>1, <3>2 DEF Abort, IInv, TransactionKnown
  <2> QED
    BY <2>1, <2>2
<1> QED
  BY <1>1, <1>2, <1>3, <1>4, <1>5, <1>6, <1>7, <1>8 DEF Next, Step, vars, Tick, InsertTimer,
     CreateTimesheet, WriteStop, UpdateTimesheet, ApplyRecalc, WriteInvoiceFile

LEMMA ExportedStep == IInv /\ [Next]_vars => ExportedIffInvoiced'
<1> SUFFICES ASSUME IInv, [Next]_vars PROVE ExportedIffInvoiced'
  OBVIOUS
<1>1. CASE LocksKept
  BY <1>1 DEF LocksKept, IInv, CopiesKnown, ExportedIffInvoiced
<1>2. ASSUME NEW p \in Handlers, CommitInvoice(p) PROVE ExportedIffInvoiced'
  <2>1. items' = items \cup written
    BY <1>2 DEF CommitInvoice
  <2> QED
    BY <1>2, <2>1, CommitLocks DEF IInv, ExportedIffInvoiced
<1> QED
  BY <1>1, <1>2, OnlyCommitLocks DEF IInv

THEOREM InductiveInvariant == Spec => []IInv
<1>1. IInv /\ [Next]_vars => IInv'
  BY TypeStep, ConnectionStep, CopiesStep, TransactionStep, ExportedStep DEF IInv
<1> QED
  BY <1>1, InvInit, PTL DEF Spec

\* The export lock and the committed invoice lines agree at every moment: a
\* transaction that is abandoned half way leaves neither.
THEOREM LocksMatchInvoices == Spec => []ExportedIffInvoiced
BY InductiveInvariant, PTL DEF IInv

\* A file on disk belongs to a committed invoice.
THEOREM FilesAreOfInvoices == Spec => []FilesHaveInvoices
<1>1. Init => FilesHaveInvoices
  BY DEF Init, FilesHaveInvoices
<1>2. IInv /\ [Next]_vars /\ FilesHaveInvoices => FilesHaveInvoices'
  <2> SUFFICES ASSUME IInv, [Next]_vars, FilesHaveInvoices PROVE FilesHaveInvoices'
    OBVIOUS
  <2>1. invoices \subseteq invoices'
    BY OnlyCommitLocks DEF LocksKept, CommitInvoice, IInv
  <2>2. ASSUME NEW p \in Handlers, WriteInvoiceFile(p) PROVE FilesHaveInvoices'
    BY <2>1, <2>2 DEF WriteInvoiceFile, FilesHaveInvoices, IInv, TransactionKnown
  <2>3. CASE UNCHANGED files
    BY <2>1, <2>3 DEF FilesHaveInvoices
  <2> QED
    BY <2>2, <2>3 DEF Next, Step, vars, Tick, StartTimer, CreateTimesheet, StopTimer, CheckActive,
       InsertTimer, FindActive, WriteStop, EditTimesheet, UpdateTimesheet, ApplyRecalc,
       ReadBillable, BeginInvoice, BillLine, CommitInvoice, Abort
<1> QED
  BY <1>1, <1>2, InductiveInvariant, PTL DEF Spec

-----------------------------------------------------------------------------
(* Billing.                                                                *)

\* What the commit writes is one line for every row that was read, no more.
LEMMA WrittenAtCommit ==
    ASSUME IInv, NEW p \in Handlers, CommitInvoice(p)
    PROVE  written = {ItemOf(req[p].number, row) : row \in req[p].rows}
<1>1. pc[p] = "lines" /\ \A row \in req[p].rows : \E l \in written : l.entry = row.entry
  BY DEF CommitInvoice
<1>2. written \subseteq {ItemOf(req[p].number, row) : row \in req[p].rows}
  BY <1>1 DEF IInv, TransactionKnown
<1>3. ASSUME NEW row \in req[p].rows PROVE ItemOf(req[p].number, row) \in written
  <2>1. PICK l \in written : l.entry = row.entry
    BY <1>1
  <2>2. PICK other \in req[p].rows : l = ItemOf(req[p].number, other)
    BY <1>2
  <2>3. other.entry = row.entry
    BY <2>1, <2>2 DEF ItemOf
  <2>4. other = row
    BY <2>3 DEF IInv, CopiesKnown
  <2> QED
    BY <2>2, <2>4
<1> QED
  BY <1>2, <1>3

\* An invoice adds up: its subtotal is the sum of the lines in the database, its
\* total adds the tax, and its number is its own.
THEOREM InvoicesAddUp == Spec => []InvoiceTotals
<1>1. Init => InvoiceTotals
  BY DEF Init, InvoiceTotals
<1>2. IInv /\ [Next]_vars /\ InvoiceTotals => InvoiceTotals'
  <2> SUFFICES ASSUME IInv, [Next]_vars, InvoiceTotals PROVE InvoiceTotals'
    OBVIOUS
  <2>1. CASE LocksKept
    BY <2>1 DEF LocksKept, InvoiceTotals
  <2>2. ASSUME NEW p \in Handlers, CommitInvoice(p) PROVE InvoiceTotals'
    <3> DEFINE new    == InvoiceOf(req[p])
               number == req[p].number
    <3>1. /\ invoices' = invoices \cup {new} /\ items' = items \cup written
          /\ pc[p] = "lines"
      BY <2>2 DEF CommitInvoice
    <3>2. written = {ItemOf(number, row) : row \in req[p].rows} /\ req[p].rows # {}
      BY <2>2, <3>1, WrittenAtCommit DEF IInv, CopiesKnown
    <3>3. \A l \in written : l.invoice = number
      BY <3>2 DEF ItemOf
    <3>4. written # {}
      BY <3>2
    <3>5. /\ new.number = number /\ new.total = new.subtotal + new.tax
          /\ new.subtotal = Subtotal({ItemOf(number, row) : row \in req[p].rows})
      BY DEF InvoiceOf
    <3>6. \A inv \in invoices : inv.number # number
      BY <3>1 DEF IInv, TransactionKnown
    <3>7. \A i \in items : i.invoice # number
      BY <3>6 DEF InvoiceTotals
    <3>8. {i \in items' : i.invoice = number} = written
      BY <3>1, <3>3, <3>7
    <3>9. \A inv \in invoices :
            {i \in items' : i.invoice = inv.number} = {i \in items : i.invoice = inv.number}
      BY <3>1, <3>3, <3>6
    <3> HIDE DEF new, number
    <3>10. \A i \in items' : \E inv \in invoices' : inv.number = i.invoice
      BY <3>1, <3>3, <3>5 DEF InvoiceTotals
    <3>11. ASSUME NEW inv \in invoices
           PROVE  /\ inv.subtotal = Subtotal({i \in items' : i.invoice = inv.number})
                  /\ inv.total = inv.subtotal + inv.tax
                  /\ \E i \in items' : i.invoice = inv.number
                  /\ \A other \in invoices' : other.number = inv.number => other = inv
      BY <3>1, <3>5, <3>6, <3>9 DEF InvoiceTotals
    <3>12. /\ new.subtotal = Subtotal({i \in items' : i.invoice = new.number})
           /\ new.total = new.subtotal + new.tax
           /\ \E i \in items' : i.invoice = new.number
           /\ \A other \in invoices' : other.number = new.number => other = new
      BY <3>1, <3>2, <3>3, <3>4, <3>5, <3>6, <3>8
    <3>13. \A inv \in invoices' :
              /\ inv.subtotal = Subtotal({i \in items' : i.invoice = inv.number})
              /\ inv.total = inv.subtotal + inv.tax
              /\ \E i \in items' : i.invoice = inv.number
              /\ \A other \in invoices' : other.number = inv.number => other = inv
      <4> TAKE inv \in invoices'
      <4>1. CASE inv \in invoices
        BY <4>1, <3>11
      <4>2. CASE inv = new
        BY <4>2, <3>12, Zenon
      <4> QED
        BY <3>1, <4>1, <4>2
    <3> QED
      BY <3>10, <3>13, Zenon DEF InvoiceTotals
  <2> QED
    BY <2>1, <2>2, OnlyCommitLocks DEF IInv
<1> QED
  BY <1>1, <1>2, InductiveInvariant, PTL DEF Spec

\* With one biller, nobody can export the rows it has read before it commits.
LEMMA RowsUnbilledStep ==
    ASSUME \A p, q \in Billers : p = q, IInv, RowsUnbilled, [Next]_vars
    PROVE  RowsUnbilled'
<1> USE DEF tables, tx
<1>1. ASSUME LocksKept, NEW q \in Handlers, pc'[q] \in {"bill", "lines"},
             pc[q] \in {"bill", "lines"}, req'[q] = req[q]
      PROVE  \A row \in req'[q].rows : ~entries'[row.entry].exported
  BY <1>1 DEF LocksKept, RowsUnbilled, IInv, CopiesKnown
<1>2. ASSUME NEW p \in Handlers, ReadBillable(p)
      PROVE  \A row \in req'[p].rows : ~entries'[row.entry].exported
  <2>1. PICK from \in Time, to \in Time, rate \in TaxRates :
          \E page \in Pages(Billable(from, to)) :
            req' = [req EXCEPT ![p] = [NoRequest EXCEPT
                      !.rows = {RowOf(e) : e \in page},
                      !.number = now % NumberCycle, !.taxRate = rate]]
    BY <1>2 DEF ReadBillable
  <2>2. PICK page \in Pages(Billable(from, to)) :
            req' = [req EXCEPT ![p] = [NoRequest EXCEPT
                      !.rows = {RowOf(e) : e \in page},
                      !.number = now % NumberCycle, !.taxRate = rate]]
    BY <2>1
  <2>3. req'[p].rows = {RowOf(e) : e \in page}
    BY <2>2, NoRequestType DEF Request, IInv, TypeOK, RecordsOK
  <2> QED
    BY <1>2, <2>3, RowsOfPage DEF ReadBillable, IInv
<1>3. ASSUME NEW p \in Handlers, CommitInvoice(p) PROVE RowsUnbilled'
  <2>1. pc' = [pc EXCEPT ![p] = "file"] /\ pc[p] = "lines"
    BY <1>3 DEF CommitInvoice, Goto
  <2>2. \A q \in Handlers : pc[q] \in {"bill", "lines"} => q = p
    BY <2>1 DEF IInv, CopiesKnown
  <2> QED
    BY <2>1, <2>2 DEF RowsUnbilled, IInv, TypeOK, RecordsOK
<1>4. ASSUME NEW q \in Handlers, pc'[q] \in {"bill", "lines"},
             ~ \E p \in Handlers : CommitInvoice(p)
      PROVE  (pc[q] \in {"bill", "lines"} /\ req'[q] = req[q]) \/ ReadBillable(q)
  <2>1. CASE UNCHANGED <<pc, req>>
    BY <1>4, <2>1
  <2>2. ASSUME NEW p \in Handlers, Finish(p) PROVE pc[q] = pc'[q] /\ req'[q] = req[q]
    BY <1>4, <2>2 DEF Finish, IInv, TypeOK, RecordsOK
  <2>3. ASSUME NEW p \in Handlers, NEW u \in Users, StartTimer(p, u) \/ StopTimer(p, u)
        PROVE  pc[q] = pc'[q] /\ req'[q] = req[q]
    BY <1>4, <2>3 DEF StartTimer, StopTimer, Goto, IInv, TypeOK, RecordsOK
  <2>4. ASSUME NEW p \in Handlers, CheckActive(p) \/ FindActive(p) \/ EditTimesheet(p)
        PROVE  pc[q] = pc'[q] /\ req'[q] = req[q]
    <3>1. Finish(p) \/ q # p
      BY <1>4, <2>4 DEF CheckActive, FindActive, EditTimesheet, Goto, IInv, TypeOK, RecordsOK
    <3> QED
      BY <2>2, <2>4, <3>1 DEF CheckActive, FindActive, EditTimesheet, Goto, IInv, TypeOK, RecordsOK
  <2>5. ASSUME NEW p \in Handlers, ReadBillable(p), q # p
        PROVE  pc[q] = pc'[q] /\ req'[q] = req[q]
    BY <1>4, <2>5 DEF ReadBillable, Goto, IInv, TypeOK, RecordsOK
  <2>6. ASSUME NEW p \in Handlers, BeginInvoice(p)
        PROVE  pc[q] \in {"bill", "lines"} /\ req'[q] = req[q]
    <3>1. Finish(p) \/ (pc[p] = "bill" /\ Goto(p, "lines") /\ req' = req)
      <4>1. CASE \E i \in invoices : i.number = req[p].number
        BY <2>6, <4>1 DEF BeginInvoice
      <4>2. CASE ~ \E i \in invoices : i.number = req[p].number
        BY <2>6, <4>2 DEF BeginInvoice, Goto
      <4> QED
        BY <4>1, <4>2
    <3> QED
      BY <1>4, <2>2, <3>1 DEF Goto, IInv, TypeOK, RecordsOK
  <2> QED
    BY <1>4, <2>1, <2>2, <2>3, <2>4, <2>5, <2>6 DEF Next, Step, vars, Tick, CreateTimesheet,
       InsertTimer, WriteStop, UpdateTimesheet, ApplyRecalc, BillLine, WriteInvoiceFile, Abort
<1> QED
  BY <1>1, <1>2, <1>3, <1>4, OnlyCommitLocks DEF RowsUnbilled, IInv

\* When one handler at a time serves the creation of invoices, no entry is billed
\* twice, whatever the other handlers do meanwhile. (Two at a time: it fails.)
THEOREM SingleBillerBillsOnce ==
    ASSUME \A p, q \in Billers : p = q
    PROVE  Spec => []NoDoubleBilling
<1>1. Init => RowsUnbilled /\ NoDoubleBilling
  BY DEF Init, RowsUnbilled, NoDoubleBilling
<1>2. IInv /\ RowsUnbilled /\ NoDoubleBilling /\ [Next]_vars => RowsUnbilled' /\ NoDoubleBilling'
  <2> SUFFICES ASSUME IInv, RowsUnbilled, NoDoubleBilling, [Next]_vars
               PROVE  RowsUnbilled' /\ NoDoubleBilling'
    OBVIOUS
  <2>1. ASSUME LocksKept PROVE NoDoubleBilling'
    BY <2>1 DEF LocksKept, NoDoubleBilling
  <2>2. ASSUME NEW p \in Handlers, CommitInvoice(p) PROVE NoDoubleBilling'
    <3>1. items' = items \cup written /\ pc[p] = "lines"
      BY <2>2 DEF CommitInvoice
    <3>2. \A l \in written : \E row \in req[p].rows :
            l = ItemOf(req[p].number, row) /\ l.entry = row.entry
      BY <3>1 DEF IInv, TransactionKnown, ItemOf
    <3>3. \A l \in written : l.entry \in DOMAIN entries /\ ~entries[l.entry].exported
      BY <3>1, <3>2 DEF RowsUnbilled, IInv, CopiesKnown
    <3>4. \A i \in items : i.entry \in DOMAIN entries /\ entries[i.entry].exported
      BY DEF IInv, CopiesKnown, ExportedIffInvoiced
    <3>5. \A l, m \in written : l.entry = m.entry => l = m
      BY <3>2 DEF IInv, CopiesKnown
    <3> QED
      BY <3>1, <3>3, <3>4, <3>5 DEF NoDoubleBilling
  <2> QED
    BY <2>1, <2>2, RowsUnbilledStep, OnlyCommitLocks DEF IInv, NoDoubleBilling
<1> QED
  BY <1>1, <1>2, InductiveInvariant, PTL DEF Spec

-----------------------------------------------------------------------------
(* Timers.                                                                 *)

\* A stopped timer stays stopped: every write of an end writes a time, and the
\* other updates leave the end alone.
THEOREM StoppedStaysStopped == Spec => EndedStaysEnded
<1>1. ASSUME TypeOK, [Next]_vars, NEW e \in DOMAIN entries, ~IsRunning(e)
      PROVE  entries'[e].end # Running
  <2> USE DEF tables, tx
  <2>1. /\ entries \in Seq(Entry) /\ DOMAIN entries = 1..Len(entries)
        /\ \A f \in DOMAIN entries : entries[f] \in Entry
    BY <1>1 DEF TypeOK, RecordsOK
  <2>2. \A t \in Time : t # Running
    BY TimeInt, BoundsAssumption DEF Time, Running
  <2>3. CASE UNCHANGED entries
    BY <1>1, <2>3 DEF IsRunning
  <2>4. ASSUME NEW entry, entries' = Append(entries, entry) PROVE entries'[e].end # Running
    BY <1>1, <2>1, <2>4 DEF IsRunning
  <2>5. ASSUME NEW p \in Handlers, WriteStop(p) PROVE entries'[e].end # Running
    BY <1>1, <2>1, <2>2, <2>5 DEF WriteStop, IsRunning, TypeOK, RecordsOK, Request, Entry
  <2>6. ASSUME NEW p \in Handlers, UpdateTimesheet(p) PROVE entries'[e].end # Running
    <3>1. PICK t \in AcceptedTimes, rate \in Rates, billable \in BOOLEAN :
            entries' = [entries EXCEPT ![req[p].entry] = Edited(@, t, rate, billable)]
      BY <2>6 DEF UpdateTimesheet
    <3>2. t.end \in Time
      BY DEF AcceptedTimes
    <3>3. Edited(entries[e], t, rate, billable).end = t.end
      BY <1>1, <2>1 DEF Edited, Entry
    <3> QED
      BY <1>1, <2>1, <2>2, <3>1, <3>2, <3>3 DEF IsRunning
  <2>7. ASSUME NEW p \in Handlers, ApplyRecalc(p) PROVE entries'[e].end # Running
    <3>1. entries'[e].end = entries[e].end
      BY <1>1, <2>1, <2>7 DEF ApplyRecalc, Entry
    <3> QED
      BY <1>1, <3>1 DEF IsRunning
  <2>8. ASSUME NEW p \in Handlers, CommitInvoice(p) PROVE entries'[e].end # Running
    BY <1>1, <2>8, CommitLocks DEF IsRunning
  <2> QED
    BY <1>1, <2>3, <2>4, <2>5, <2>6, <2>7, <2>8 DEF Next, Step, vars, Tick, StartTimer,
       CreateTimesheet, StopTimer, CheckActive, InsertTimer, FindActive, EditTimesheet,
       ReadBillable, BeginInvoice, BillLine, WriteInvoiceFile, Abort
<1>2. TypeOK /\ [Next]_vars =>
        [\A e \in DOMAIN entries : ~IsRunning(e) => entries'[e].end # Running]_vars
  BY <1>1
<1> QED
  BY <1>2, TypeCorrect, PTL DEF Spec, EndedStaysEnded

-----------------------------------------------------------------------------
(* What a request has read, and what has happened to it since.             *)

\* What a request works from is what the table says, where the request has missed nothing:
\* a timer about to be stopped still runs, from the start and with the break that were
\* read, an entry about to be edited is not exported, and the rows an invoice is made of
\* are what the entries say.
Current(p) ==
    /\ pc[p] = "stopping" /\ req[p].entry \notin missed[p] =>
          /\ req[p].start = entries[req[p].entry].start
          /\ req[p].brk = entries[req[p].entry].brk
          /\ IsRunning(req[p].entry)
    /\ pc[p] = "edit" /\ req[p].entry \notin missed[p] => ~entries[req[p].entry].exported
    /\ pc[p] \in {"bill", "lines"} =>
          \A row \in req[p].rows : row.entry \notin missed[p] => row = RowOf(row.entry)

Undisturbed == \A p \in Handlers : Current(p)

\* A form with both ends stores the duration they have.
LEMMA EditedFields ==
    ASSUME NEW entry \in Entry, NEW t \in AcceptedTimes, NEW rate, NEW billable
    PROVE  Exact(Edited(entry, t, rate, billable))
BY DEF Edited, Exact, Entry

\* The recalculation and the commit of an invoice leave the times alone.
LEMMA TimesLeft ==
    ASSUME TypeOK, NEW p \in Handlers, ApplyRecalc(p) \/ CommitInvoice(p)
    PROVE  /\ DOMAIN entries' = DOMAIN entries
           /\ \A e \in DOMAIN entries :
                /\ entries'[e].start = entries[e].start /\ entries'[e].end = entries[e].end
                /\ entries'[e].brk = entries[e].brk /\ entries'[e].dur = entries[e].dur
                /\ entries'[e].billable = entries[e].billable
<1>1. \A e \in DOMAIN entries : entries[e] \in Entry
  BY DEF TypeOK, RecordsOK
<1>2. CASE ApplyRecalc(p)
  BY <1>1, <1>2 DEF ApplyRecalc, Entry
<1>3. CASE CommitInvoice(p)
  BY <1>1, <1>3 DEF CommitInvoice, Entry
<1> QED
  BY <1>2, <1>3

\* An update of one row: what it says of the row, and that the others stay.
LEMMA RowUpdated ==
    ASSUME TypeOK, NEW id \in DOMAIN entries, NEW row, entries' = [entries EXCEPT ![id] = row]
    PROVE  /\ DOMAIN entries' = DOMAIN entries /\ entries'[id] = row
           /\ \A e \in DOMAIN entries : e # id => entries'[e] = entries[e]
BY DEF TypeOK, RecordsOK

\* The row that a stop writes, and the one an edit writes.
LEMMA Stopped ==
    ASSUME IInv, Undisturbed, NEW p \in Handlers, WriteStop(p)
    PROVE  \E row : /\ req[p].entry \in DOMAIN entries
                    /\ entries' = [entries EXCEPT ![req[p].entry] = row]
                    /\ pc[p] = "stopping" /\ pc'[p] = "idle"
                    /\ req[p].entry \notin missed[p] => IsRunning(req[p].entry) /\ Exact(row)
<1> DEFINE old == entries[req[p].entry]
           row == [old EXCEPT !.end = req[p].at,
                     !.dur = Worked(req[p].start, req[p].at, req[p].brk)]
<1>1. req[p].entry \in DOMAIN entries /\ old \in Entry /\ pc[p] = "stopping" /\ pc'[p] = "idle"
  BY DEF WriteStop, IInv, CopiesKnown, TypeOK, RecordsOK, Finish
<1>2. req[p].entry \notin missed[p] =>
        IsRunning(req[p].entry) /\ req[p].start = old.start /\ req[p].brk = old.brk
  BY <1>1 DEF Undisturbed, Current
<1>3. req[p].entry \notin missed[p] => Exact(row)
  BY <1>1, <1>2 DEF Exact, Entry
<1>4. entries' = [entries EXCEPT ![req[p].entry] = row]
  BY DEF WriteStop
<1> HIDE DEF row
<1> QED
  BY <1>1, <1>2, <1>3, <1>4

LEMMA EditWritten ==
    ASSUME IInv, Undisturbed, NEW p \in Handlers, UpdateTimesheet(p)
    PROVE  \E row : /\ req[p].entry \in DOMAIN entries
                    /\ entries' = [entries EXCEPT ![req[p].entry] = row]
                    /\ pc[p] = "edit" /\ pc'[p] = "idle"
                    /\ req[p].entry \notin missed[p] => ~entries[req[p].entry].exported
                    /\ Exact(row)
<1>1. req[p].entry \in DOMAIN entries /\ entries[req[p].entry] \in Entry /\ pc[p] = "edit" /\ pc'[p] = "idle"
  BY DEF UpdateTimesheet, IInv, CopiesKnown, TypeOK, RecordsOK, Finish
<1>2. PICK t \in AcceptedTimes, rate \in Rates, billable \in BOOLEAN :
        entries' = [entries EXCEPT ![req[p].entry] = Edited(@, t, rate, billable)]
  BY DEF UpdateTimesheet
<1> DEFINE row == Edited(entries[req[p].entry], t, rate, billable)
<1>3. Exact(row)
  BY <1>1, EditedFields
<1>4. entries' = [entries EXCEPT ![req[p].entry] = row]
  BY <1>2
<1> HIDE DEF row
<1> QED
  BY <1>1, <1>3, <1>4 DEF Undisturbed, Current

\* The other requests store new entries or none.
LEMMA OnlyAdds ==
    ASSUME IInv, [Next]_vars
    PROVE  \/ UNCHANGED entries
           \/ \E row : entries' = Append(entries, row) /\ Exact(row)
           \/ \E p \in Handlers : \/ WriteStop(p) \/ UpdateTimesheet(p)
                                  \/ ApplyRecalc(p) \/ CommitInvoice(p)
<1> USE DEF tables, tx
<1>1. ASSUME NEW p \in Handlers, NEW u \in Users, CreateTimesheet(p, u)
      PROVE  \E row : entries' = Append(entries, row) /\ Exact(row)
  <2>1. PICK t \in AcceptedTimes, rate \in Rates :
          entries' = Append(entries,
            [user |-> u, start |-> t.start, end |-> t.end, brk |-> t.brk,
             dur |-> Worked(t.start, t.end, t.brk), rate |-> rate,
             billable |-> TRUE, exported |-> FALSE])
    BY <1>1 DEF CreateTimesheet
  <2> QED
    BY <2>1 DEF Exact
<1>2. ASSUME NEW p \in Handlers, InsertTimer(p)
      PROVE  \E row : entries' = Append(entries, row) /\ Exact(row)
  <2>1. PICK rate \in Rates :
          entries' = Append(entries,
            [user |-> req[p].user, start |-> req[p].at, end |-> Running, brk |-> 0,
             dur |-> 0, rate |-> rate, billable |-> TRUE, exported |-> FALSE])
    BY <1>2 DEF InsertTimer
  <2> QED
    BY <2>1 DEF Exact
<1> QED
  BY <1>1, <1>2 DEF Next, Step, vars, Tick, StartTimer, StopTimer, CheckActive, FindActive,
     EditTimesheet, ReadBillable, BeginInvoice, BillLine, WriteInvoiceFile, Abort

\* What has not been missed is as it was before the step.
LEMMA NotMissed ==
    ASSUME Watch, NEW q \in Handlers, NEW e \in ReadEntries(q)', e \notin missed'[q]
    PROVE  e \notin missed[q] /\ entries'[e] = entries[e]
BY DEF Watch

\* While a request only waits, or begins its transaction, what it has not missed stays.
LEMMA StillCurrent ==
    ASSUME IInv, Watch, NEW q \in Handlers, Current(q), req'[q] = req[q],
           pc'[q] = pc[q] \/ (pc[q] = "bill" /\ pc'[q] = "lines")
    PROVE  Current(q)'
<1>1. CASE pc'[q] \in {"stopping", "edit"}
  <2>1. pc[q] = pc'[q] /\ req[q].entry \in ReadEntries(q)'
    BY <1>1 DEF ReadEntries
  <2>2. req[q].entry \notin missed'[q] =>
          req[q].entry \notin missed[q] /\ entries'[req[q].entry] = entries[req[q].entry]
    BY <2>1, NotMissed
  <2> QED
    BY <1>1, <2>1, <2>2 DEF Current, IsRunning
<1>2. CASE pc'[q] \in {"bill", "lines"}
  <2>1. pc[q] \in {"bill", "lines"}
    BY <1>2
  <2>2. ASSUME NEW row \in req[q].rows, row.entry \notin missed'[q]
        PROVE  row = RowOf(row.entry)'
    <3>1. row.entry \in ReadEntries(q)'
      BY <1>2, <2>2 DEF ReadEntries
    <3>2. row.entry \notin missed[q] /\ entries'[row.entry] = entries[row.entry]
      BY <2>2, <3>1, NotMissed
    <3>3. row = RowOf(row.entry)
      BY <2>1, <2>2, <3>2 DEF Current
    <3> QED
      BY <3>2, <3>3 DEF RowOf
  <2> QED
    BY <1>2, <2>2 DEF Current
<1>3. CASE pc'[q] \notin {"stopping", "edit", "bill", "lines"}
  BY <1>3 DEF Current
<1> QED
  BY <1>1, <1>2, <1>3

\* How a request comes to have read something.
LEMMA OnlyReadersMove ==
    ASSUME IInv, [Next]_vars, NEW q \in Handlers, pc'[q] \in {"stopping", "edit", "bill", "lines"}
    PROVE  \/ pc'[q] = pc[q] /\ req'[q] = req[q]
           \/ FindActive(q) \/ EditTimesheet(q) \/ ReadBillable(q)
           \/ pc[q] = "bill" /\ pc'[q] = "lines" /\ req'[q] = req[q]
<1> USE DEF IInv, TypeOK, RecordsOK
<1>1. CASE UNCHANGED <<pc, req>>
  BY <1>1
<1>2. ASSUME NEW p \in Handlers, Finish(p) PROVE pc'[q] = pc[q] /\ req'[q] = req[q]
  BY <1>2 DEF Finish
<1>3. ASSUME NEW p \in Handlers, NEW u \in Users, StartTimer(p, u) \/ StopTimer(p, u)
      PROVE  pc'[q] = pc[q] /\ req'[q] = req[q]
  BY <1>3 DEF StartTimer, StopTimer, Goto
<1>4. ASSUME NEW p \in Handlers, CheckActive(p) PROVE pc'[q] = pc[q] /\ req'[q] = req[q]
  <2>1. Finish(p) \/ (Goto(p, "insert") /\ UNCHANGED req)
    BY <1>4 DEF CheckActive
  <2> QED
    BY <1>2, <2>1 DEF Goto
<1>5. ASSUME NEW p \in Handlers, FindActive(p) \/ EditTimesheet(p) \/ ReadBillable(p), p # q
      PROVE  pc'[q] = pc[q] /\ req'[q] = req[q]
  <2>1. CASE FindActive(p)
    BY <1>2, <1>5, <2>1 DEF FindActive, Goto
  <2>2. CASE EditTimesheet(p)
    BY <1>5, <2>2 DEF EditTimesheet, Goto
  <2>3. CASE ReadBillable(p)
    BY <1>5, <2>3 DEF ReadBillable, Goto
  <2> QED
    BY <1>5, <2>1, <2>2, <2>3
<1>6. ASSUME NEW p \in Handlers, BeginInvoice(p)
      PROVE  \/ pc'[q] = pc[q] /\ req'[q] = req[q]
             \/ pc[q] = "bill" /\ pc'[q] = "lines" /\ req'[q] = req[q]
  <2>1. Finish(p) \/ (pc[p] = "bill" /\ Goto(p, "lines") /\ req' = req)
    <3>1. CASE \E i \in invoices : i.number = req[p].number
      BY <1>6, <3>1 DEF BeginInvoice
    <3>2. CASE ~ \E i \in invoices : i.number = req[p].number
      BY <1>6, <3>2 DEF BeginInvoice
    <3> QED
      BY <3>1, <3>2
  <2> QED
    BY <1>2, <2>1 DEF Goto
<1>7. ASSUME NEW p \in Handlers, CommitInvoice(p) PROVE pc'[q] = pc[q] /\ req'[q] = req[q]
  BY <1>7 DEF CommitInvoice, Goto
<1> QED
  BY <1>1, <1>2, <1>3, <1>4, <1>5, <1>6, <1>7 DEF Next, Step, vars, Tick, CreateTimesheet,
     InsertTimer, WriteStop, UpdateTimesheet, ApplyRecalc, BillLine, WriteInvoiceFile, Abort

LEMMA UndisturbedStep ==
    ASSUME IInv, Undisturbed, [Next]_vars
    PROVE  Undisturbed'
<1> USE DEF tables, tx
<1>1. CASE UNCHANGED vars
  BY <1>1 DEF vars, Undisturbed, Current, IsRunning, RowOf
<1>2. ASSUME Watch, NEW q \in Handlers PROVE Current(q)'
  <2>1. CASE pc'[q] \notin {"stopping", "edit", "bill", "lines"}
    BY <2>1 DEF Current
  <2>2. CASE req'[q] = req[q] /\ (pc'[q] = pc[q] \/ (pc[q] = "bill" /\ pc'[q] = "lines"))
    <3>1. Current(q)
      BY DEF Undisturbed
    <3> QED
      BY <1>2, <2>2, <3>1, StillCurrent
  <2>3. CASE FindActive(q) /\ pc'[q] = "stopping"
    <3>1. PICK found \in ActiveTimer(req[q].user) :
            IF found = NoEntry THEN Finish(q)
            ELSE /\ req' = [req EXCEPT ![q] = [@ EXCEPT !.entry = found,
                               !.start = entries[found].start, !.brk = entries[found].brk]]
                 /\ Goto(q, "stopping")
      BY <2>3 DEF FindActive
    <3>2. found # NoEntry
      BY <2>3, <3>1 DEF Finish, IInv, TypeOK, RecordsOK
    <3>3. IsRunning(found) /\ UNCHANGED entries
      BY <2>3, <3>2 DEF ActiveTimer, FindActive
    <3>4. req'[q] = [req[q] EXCEPT !.entry = found,
                       !.start = entries[found].start, !.brk = entries[found].brk]
      BY <3>1, <3>2 DEF IInv, TypeOK, RecordsOK
    <3>5. /\ req'[q].entry = found /\ req'[q].start = entries[found].start
          /\ req'[q].brk = entries[found].brk
      BY <3>4 DEF IInv, TypeOK, RecordsOK, Request
    <3> QED
      BY <2>3, <3>3, <3>5 DEF Current, IsRunning
  <2>4. CASE EditTimesheet(q)
    <3>1. PICK e \in DOMAIN entries :
            ~entries[e].exported /\ req' = [req EXCEPT ![q] = [NoRequest EXCEPT !.entry = e]]
      BY <2>4 DEF EditTimesheet
    <3>2. req'[q].entry = e /\ pc'[q] = "edit" /\ UNCHANGED entries
      BY <2>4, <3>1, NoRequestType DEF EditTimesheet, Goto, IInv, TypeOK, RecordsOK, Request
    <3> QED
      BY <3>1, <3>2 DEF Current
  <2>5. CASE ReadBillable(q)
    <3>1. PICK from \in Time, to \in Time, rate \in TaxRates :
            \E page \in Pages(Billable(from, to)) :
              req' = [req EXCEPT ![q] = [NoRequest EXCEPT
                        !.rows = {RowOf(e) : e \in page},
                        !.number = now % NumberCycle, !.taxRate = rate]]
      BY <2>5 DEF ReadBillable
    <3>2. PICK page \in Pages(Billable(from, to)) :
              req' = [req EXCEPT ![q] = [NoRequest EXCEPT
                        !.rows = {RowOf(e) : e \in page},
                        !.number = now % NumberCycle, !.taxRate = rate]]
      BY <3>1
    <3>3. req'[q].rows = {RowOf(e) : e \in page} /\ pc'[q] = "bill" /\ UNCHANGED entries
      BY <2>5, <3>2, NoRequestType DEF ReadBillable, Goto, Request, IInv, TypeOK, RecordsOK
    <3>4. \A row \in req'[q].rows : row = RowOf(row.entry)
      BY <3>3 DEF RowOf
    <3>5. \A row \in req'[q].rows : row = RowOf(row.entry)'
      BY <3>3, <3>4 DEF RowOf
    <3> QED
      BY <3>3, <3>5 DEF Current
  <2>6. pc'[q] \in {"stopping", "edit", "bill", "lines"} /\ FindActive(q) => pc'[q] = "stopping"
    BY DEF FindActive, Finish, Goto, IInv, TypeOK, RecordsOK
  <2> QED
    BY <2>1, <2>2, <2>3, <2>4, <2>5, <2>6, OnlyReadersMove
<1>3. CASE Watch
  BY <1>2, <1>3 DEF Undisturbed
<1> QED
  BY <1>1, <1>3 DEF Next

LEMMA AlwaysUndisturbed == Spec => [](IInv /\ Undisturbed)
<1>1. Init => Undisturbed
  BY DEF Init, Undisturbed, Current
<1>2. IInv /\ Undisturbed /\ [Next]_vars => Undisturbed'
  BY UndisturbedStep
<1> QED
  BY <1>1, <1>2, InductiveInvariant, PTL DEF Spec

\* Whatever overlaps, whoever stores the times of an entry that has ended stores the
\* duration they have, except the stop of a timer that another request has changed since
\* StopTimer found it.
THEOREM DurationsAreExact == Spec => DurationExact
<1>1. ASSUME IInv, Undisturbed, [Next]_vars, NEW e \in DOMAIN entries',
             e \in DOMAIN entries => Times(entries'[e]) # Times(entries[e]),
             ~WritesOver(e, {"stopping"})
      PROVE  Exact(entries'[e])
  <2>1. CASE UNCHANGED entries
    BY <1>1, <2>1
  <2>2. ASSUME NEW row, entries' = Append(entries, row), Exact(row)
        PROVE  Exact(entries'[e])
    <3>1. /\ DOMAIN entries' = 1..(Len(entries) + 1) /\ DOMAIN entries = 1..Len(entries)
          /\ Len(entries) \in Nat /\ entries'[Len(entries) + 1] = row
          /\ \A f \in 1..Len(entries) : entries'[f] = entries[f]
      BY <1>1, <2>2 DEF IInv, TypeOK, RecordsOK
    <3>2. e \notin DOMAIN entries
      BY <1>1, <3>1
    <3> QED
      BY <1>1, <2>2, <3>1, <3>2
  <2>3. ASSUME NEW p \in Handlers, WriteStop(p) PROVE Exact(entries'[e])
    <3>1. PICK row : /\ req[p].entry \in DOMAIN entries
                     /\ entries' = [entries EXCEPT ![req[p].entry] = row]
                     /\ pc[p] = "stopping" /\ pc'[p] = "idle"
                     /\ req[p].entry \notin missed[p] => Exact(row)
      BY <1>1, <2>3, Stopped
    <3>2. e = req[p].entry /\ entries'[e] = row
      BY <1>1, <3>1, RowUpdated DEF IInv
    <3>3. e \notin missed[p]
      BY <1>1, <3>1 DEF WritesOver
    <3> QED
      BY <3>1, <3>2, <3>3
  <2>4. ASSUME NEW p \in Handlers, UpdateTimesheet(p) PROVE Exact(entries'[e])
    <3>1. PICK row : /\ req[p].entry \in DOMAIN entries
                     /\ entries' = [entries EXCEPT ![req[p].entry] = row]
                     /\ Exact(row)
      BY <1>1, <2>4, EditWritten
    <3> QED
      BY <1>1, <3>1, RowUpdated DEF IInv
  <2>5. ASSUME NEW p \in Handlers, ApplyRecalc(p) \/ CommitInvoice(p) PROVE Exact(entries'[e])
    BY <1>1, <2>5, TimesLeft DEF IInv, Times
  <2> QED
    BY <1>1, <2>1, <2>2, <2>3, <2>4, <2>5, OnlyAdds
<1>2. IInv /\ Undisturbed /\ [Next]_vars =>
        [\A e \in DOMAIN entries' :
            /\ e \in DOMAIN entries => Times(entries'[e]) # Times(entries[e])
            /\ ~WritesOver(e, {"stopping"})
            => Exact(entries'[e])]_vars
  BY <1>1
<1> QED
  BY <1>2, AlwaysUndisturbed, PTL DEF Spec, DurationExact

\* The recorded time of an exported entry stays what was billed, through every edit, stop
\* and recalculation but those writes of an edit or a stop that has read the entry before
\* another request changed it.
THEOREM BilledTimesFrozen == Spec => ExportedFrozen
<1>1. ASSUME IInv, Undisturbed, [Next]_vars,
             NEW e \in DOMAIN entries, entries[e].exported, ~IsRunning(e),
             Times(entries'[e]) # Times(entries[e])
      PROVE  WritesOver(e, {"stopping", "edit"})
  <2>1. CASE UNCHANGED entries
    BY <1>1, <2>1
  <2>2. ASSUME NEW row, entries' = Append(entries, row) PROVE FALSE
    <3>1. entries'[e] = entries[e]
      BY <1>1, <2>2 DEF IInv, TypeOK, RecordsOK
    <3> QED
      BY <1>1, <3>1
  <2>3. ASSUME NEW p \in Handlers, WriteStop(p) PROVE WritesOver(e, {"stopping", "edit"})
    <3>1. PICK row : /\ req[p].entry \in DOMAIN entries
                     /\ entries' = [entries EXCEPT ![req[p].entry] = row]
                     /\ pc[p] = "stopping" /\ pc'[p] = "idle"
                     /\ req[p].entry \notin missed[p] => IsRunning(req[p].entry)
      BY <1>1, <2>3, Stopped
    <3>2. e = req[p].entry
      BY <1>1, <3>1, RowUpdated DEF IInv
    <3> QED
      BY <1>1, <3>1, <3>2 DEF WritesOver
  <2>4. ASSUME NEW p \in Handlers, UpdateTimesheet(p) PROVE WritesOver(e, {"stopping", "edit"})
    <3>1. PICK row : /\ req[p].entry \in DOMAIN entries
                     /\ entries' = [entries EXCEPT ![req[p].entry] = row]
                     /\ pc[p] = "edit" /\ pc'[p] = "idle"
                     /\ req[p].entry \notin missed[p] => ~entries[req[p].entry].exported
      BY <1>1, <2>4, EditWritten
    <3>2. e = req[p].entry
      BY <1>1, <3>1, RowUpdated DEF IInv
    <3> QED
      BY <1>1, <3>1, <3>2 DEF WritesOver
  <2>5. ASSUME NEW p \in Handlers, ApplyRecalc(p) \/ CommitInvoice(p) PROVE FALSE
    BY <1>1, <2>5, TimesLeft DEF IInv, Times
  <2> QED
    BY <1>1, <2>1, <2>2, <2>3, <2>4, <2>5, OnlyAdds
<1>2. IInv /\ Undisturbed /\ [Next]_vars =>
        [\A e \in DOMAIN entries :
            /\ entries[e].exported /\ ~IsRunning(e)
            /\ Times(entries'[e]) # Times(entries[e])
            => WritesOver(e, {"stopping", "edit"})]_vars
  BY <1>1
<1> QED
  BY <1>2, AlwaysUndisturbed, PTL DEF Spec, ExportedFrozen

\* A line of an invoice bills what its entry says at the commit, unless another request
\* changed the entry after CreateInvoice had read it.
THEOREM InvoicesBillRecords == Spec => BilledAsRecorded
<1>1. ASSUME IInv, Undisturbed, [Next]_vars, NEW i \in items' \ items
      PROVE  \/ i.qty = entries'[i.entry].dur /\ i.unit = entries'[i.entry].rate
             \/ \E p \in Handlers :
                   pc[p] = "lines" /\ i.invoice = req[p].number /\ i.entry \in missed[p]
  <2>1. PICK p \in Handlers : CommitInvoice(p)
    BY <1>1, OnlyCommitLocks DEF LocksKept, IInv
  <2>2. i \in written /\ pc[p] = "lines"
    BY <1>1, <2>1 DEF CommitInvoice
  <2>3. PICK row \in req[p].rows : i = ItemOf(req[p].number, row)
    BY <1>1, <2>2 DEF IInv, TransactionKnown
  <2>4. row.entry \in DOMAIN entries /\ i.entry = row.entry /\ i.invoice = req[p].number
    BY <1>1, <2>2, <2>3 DEF IInv, CopiesKnown, ItemOf
  <2>5. CASE row.entry \in missed[p]
    BY <2>2, <2>4, <2>5
  <2>6. CASE row.entry \notin missed[p]
    <3>1. row = RowOf(row.entry)
      BY <1>1, <2>2, <2>6 DEF Undisturbed, Current
    <3>2. i.qty = entries[row.entry].dur /\ i.unit = entries[row.entry].rate
      BY <2>3, <3>1 DEF ItemOf, RowOf
    <3>3. entries[row.entry] \in Entry
      BY <1>1, <2>4 DEF IInv, TypeOK, RecordsOK
    <3>4. /\ entries'[row.entry].dur = entries[row.entry].dur
          /\ entries'[row.entry].rate = entries[row.entry].rate
      BY <2>1, <2>4, <3>3 DEF CommitInvoice, Entry
    <3> QED
      BY <2>4, <3>2, <3>4
  <2> QED
    BY <2>5, <2>6
<1>2. IInv /\ Undisturbed /\ [Next]_vars =>
        [\A i \in items' \ items :
            \/ i.qty = entries'[i.entry].dur /\ i.unit = entries'[i.entry].rate
            \/ \E p \in Handlers :
                  pc[p] = "lines" /\ i.invoice = req[p].number /\ i.entry \in missed[p]]_vars
  BY <1>1
<1> QED
  BY <1>2, AlwaysUndisturbed, PTL DEF Spec, BilledAsRecorded

=============================================================================
