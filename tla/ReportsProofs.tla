------------------------------ MODULE ReportsProofs ------------------------------
(***************************************************************************)
(* Theorems about Reports, for every set of users, reports, forms and      *)
(* dates: the types, that a link shows the report it was made for, in its  *)
(* time, and that the pages add up and agree with each other.              *)
(***************************************************************************)
EXTENDS Reports, SumTheorems, SequenceTheorems, TLAPS

-----------------------------------------------------------------------------
(* Type correctness.                                                       *)

\* A timer was started in the past, so stopping it cannot give a negative time.
StartedInThePast == \A i \in DOMAIN entries : IsRunning(i) => entries[i].at <= now

Typed == TypeOK /\ StartedInThePast

LEMMA Appended ==
    ASSUME NEW T, NEW table \in Seq(T), NEW row \in T
    PROVE  /\ Append(table, row) \in Seq(T)
           /\ Len(Append(table, row)) = Len(table) + 1 /\ Len(table) \in Nat
           /\ DOMAIN Append(table, row) = DOMAIN table \cup {Len(table) + 1}
           /\ \A i \in DOMAIN table : Append(table, row)[i] = table[i]
           /\ Append(table, row)[Len(table) + 1] = row
           /\ Len(table) + 1 \notin DOMAIN table
  OBVIOUS

LEMMA Replaced ==
    ASSUME NEW T, NEW table \in Seq(T), NEW i \in DOMAIN table, NEW row \in T
    PROVE  /\ [table EXCEPT ![i] = row] \in Seq(T)
           /\ Len([table EXCEPT ![i] = row]) = Len(table)
           /\ DOMAIN [table EXCEPT ![i] = row] = DOMAIN table
           /\ [table EXCEPT ![i] = row][i] = row
           /\ \A j \in DOMAIN table : j # i => [table EXCEPT ![i] = row][j] = table[j]
  BY ExceptSeq, LenProperties

LEMMA EntryFields ==
    ASSUME NEW e \in Entry
    PROVE  /\ e.at \in Time /\ e.at \in Nat /\ e.seconds \in Nat /\ e.ended \in BOOLEAN
           /\ e.exported \in BOOLEAN
BY ReportsAssumption DEF Entry, Time

\* The entries after a request that writes one row, or all rows in place.
LEMMA EntriesAfterAppend ==
    ASSUME Typed, NEW e \in Entry, entries' = Append(entries, e), UNCHANGED now,
           ~e.ended => e.seconds = 0 /\ e.at <= now
    PROVE  /\ entries' \in Seq(Entry)
           /\ \A i \in DOMAIN entries' : IsRunning(i)' => entries'[i].seconds = 0 /\ entries'[i].at <= now'
<1>1. /\ entries' \in Seq(Entry)
      /\ DOMAIN entries' = DOMAIN entries \cup {Len(entries) + 1}
      /\ \A i \in DOMAIN entries : entries'[i] = entries[i]
      /\ entries'[Len(entries) + 1] = e
  BY Appended DEF Typed, TypeOK
<1> QED
  BY <1>1 DEF Typed, TypeOK, StartedInThePast, IsRunning

EntriesTyped ==
    /\ entries \in Seq(Entry)
    /\ \A i \in DOMAIN entries : IsRunning(i) => entries[i].seconds = 0 /\ entries[i].at <= now

LEMMA TypedEntries == Typed <=> TypeOK /\ EntriesTyped
BY DEF Typed, TypeOK, StartedInThePast, EntriesTyped

LEMMA CreateTimesheetEntries ==
    ASSUME Typed, NEW e \in Work, CreateTimesheet(e)
    PROVE  EntriesTyped'
<1>1. e \in Entry /\ e.ended
  BY ReportsAssumption
<1>2. entries' = Append(entries, e) /\ UNCHANGED now
  BY DEF CreateTimesheet
<1> QED
  BY <1>1, <1>2, EntriesAfterAppend DEF EntriesTyped

LEMMA StartTimerEntries ==
    ASSUME Typed, NEW e \in Work, StartTimer(e)
    PROVE  EntriesTyped'
<1>1. e \in Entry /\ now \in Time /\ now \in Nat
  BY ReportsAssumption DEF Typed, TypeOK, Time
<1> DEFINE row == Started(e)
<1>2. row \in Entry /\ row.seconds = 0 /\ row.at = now
  BY <1>1 DEF Started, Entry
<1>3. entries' = Append(entries, row) /\ UNCHANGED now
  BY DEF StartTimer
<1> HIDE DEF row
<1> QED
  BY <1>1, <1>2, <1>3, EntriesAfterAppend DEF EntriesTyped

LEMMA StopTimerEntries ==
    ASSUME Typed, NEW i \in DOMAIN entries, StopTimer(i)
    PROVE  EntriesTyped'
<1> DEFINE worked == (now - entries[i].at) * HalfDay
           row == [entries[i] EXCEPT !.ended = TRUE, !.seconds = worked]
<1>1. entries[i] \in Entry /\ entries \in Seq(Entry) /\ now \in Nat /\ UNCHANGED now
  BY ReportsAssumption DEF Typed, TypeOK, Time, StopTimer
<1>2. entries[i].at <= now /\ entries[i].at \in Nat
  BY <1>1, EntryFields DEF Typed, StartedInThePast, StopTimer
<1>3. worked \in Nat
  BY <1>1, <1>2 DEF HalfDay
<1>4. entries' = [entries EXCEPT ![i] = row]
  BY <1>1 DEF StopTimer
<1> HIDE DEF worked
<1>5. row \in Entry /\ row.ended
  BY <1>1, <1>3 DEF Entry
<1> HIDE DEF row
<1>6. /\ entries' \in Seq(Entry) /\ DOMAIN entries' = DOMAIN entries /\ entries'[i] = row
      /\ \A j \in DOMAIN entries : j # i => entries'[j] = entries[j]
  BY <1>1, <1>4, <1>5, Replaced
<1> QED
  BY <1>1, <1>5, <1>6 DEF Typed, TypeOK, StartedInThePast, EntriesTyped, IsRunning

LEMMA CreateInvoiceEntries ==
    ASSUME Typed, NEW c, CreateInvoice(c)
    PROVE  EntriesTyped'
<1> DEFINE Marked(e) == [e EXCEPT !.exported = TRUE]
<1>0. /\ UNCHANGED now
      /\ entries' = [i \in DOMAIN entries |->
                       IF entries[i].ws = Home /\ entries[i].customer = c /\ entries[i].billable
                       THEN Marked(entries[i]) ELSE entries[i]]
  BY DEF CreateInvoice
<1>1. /\ DOMAIN entries' = DOMAIN entries /\ UNCHANGED now
      /\ \A i \in DOMAIN entries : entries'[i] \in {entries[i], Marked(entries[i])}
      /\ DOMAIN entries = 1..Len(entries) /\ Len(entries) \in Nat
  <2> HIDE DEF Marked
  <2> QED
    BY <1>0 DEF Typed, TypeOK
<1>2. ASSUME NEW i \in DOMAIN entries
      PROVE  /\ entries'[i] \in Entry /\ entries'[i].ended = entries[i].ended
             /\ entries'[i].seconds = entries[i].seconds /\ entries'[i].at = entries[i].at
  <2>1. entries[i] \in Entry
    BY DEF Typed, TypeOK
  <2>2. Marked(entries[i]) \in Entry
    BY <2>1 DEF Entry
  <2> QED
    BY <1>1, <2>1, <2>2 DEF Entry
<1>3. entries' \in [1..Len(entries) -> Entry]
  BY <1>0, <1>1, <1>2
<1>4. entries' \in Seq(Entry)
  BY <1>1, <1>3
<1> QED
  BY <1>1, <1>2, <1>4 DEF Typed, TypeOK, StartedInThePast, EntriesTyped, IsRunning

LEMMA OtherEntries ==
    ASSUME Typed, UNCHANGED entries, now' \in {now, now + 1}
    PROVE  EntriesTyped'
<1>1. \A i \in DOMAIN entries : entries[i].at \in Nat
  BY EntryFields DEF Typed, TypeOK
<1>2. now \in Nat
  BY ReportsAssumption DEF Typed, TypeOK, Time
<1> QED
  BY <1>1, <1>2 DEF Typed, TypeOK, StartedInThePast, EntriesTyped, IsRunning

LEMMA EntriesStep ==
    ASSUME Typed, [Next]_vars
    PROVE  EntriesTyped'
<1>1. ASSUME NEW row, NEW w, MoveRow(row, w) \/ DeleteWorkstream(row)
      PROVE  UNCHANGED <<entries, now>>
  BY <1>1 DEF MoveRow, DeleteWorkstream
<1>2. ASSUME NEW r, SaveRate(r)
      PROVE  UNCHANGED <<entries, now>>
  BY <1>2 DEF SaveRate
<1>3. ASSUME NEW u, NEW shared, NEW id, NEW n,
             \/ CreateSavedReport(u, shared) \/ UpdateSavedReport(u, id, shared)
             \/ DeleteSavedReport(u, id) \/ SetReportShareToken(u, id, n)
             \/ RevokeReportShareToken(u, id)
      PROVE  UNCHANGED <<entries, now>>
  BY <1>3 DEF CreateSavedReport, UpdateSavedReport, DeleteSavedReport, SetReportShareToken,
              RevokeReportShareToken
<1>4. ASSUME NEW token, viewSharedReport(token)
      PROVE  UNCHANGED <<entries, now>>
  BY <1>4 DEF viewSharedReport
<1>5. Tick => UNCHANGED entries /\ now' = now + 1
  BY DEF Tick
<1>6. UNCHANGED vars => UNCHANGED <<entries, now>>
  BY DEF vars
<1> QED
  BY <1>1, <1>2, <1>3, <1>4, <1>5, <1>6, CreateTimesheetEntries, StartTimerEntries,
     StopTimerEntries, CreateInvoiceEntries, OtherEntries DEF Next

-----------------------------------------------------------------------------
(* Links.                                                                  *)

\* The token of a report that is not deleted is one that was made for it, with the end
\* that is stored beside it, and has not been replaced or revoked.
LinksCurrent == \A id \in DOMAIN saved :
    LET row == saved[id]
    IN  ~row.deleted /\ row.token # 0 =>
            /\ row.token \in DOMAIN given /\ row.token \notin dead
            /\ given[row.token].report = id /\ given[row.token].until = row.expires
            /\ row.expires # 0

Given == [report : Nat, until : Nat]
SharingTyped ==
    /\ saved \in Seq(SavedReport) /\ Len(saved) <= MaxReports
    /\ given \in Seq(Given) /\ dead \subseteq DOMAIN given

Sound == SharingTyped /\ LinksCurrent

LEMMA TypedSharing == TypeOK => SharingTyped
BY DEF TypeOK, SharingTyped, Given

LEMMA ReportRow ==
    ASSUME Sound, NEW id \in DOMAIN saved
    PROVE  /\ saved[id] \in SavedReport /\ id \in Nat /\ id # 0
           /\ saved[id].token \in Nat /\ saved[id].expires \in Nat
           /\ saved[id].deleted \in BOOLEAN
<1>1. saved[id] \in SavedReport /\ id \in 1..Len(saved) /\ Len(saved) \in Nat
  BY DEF Sound, SharingTyped
<1> QED
  BY <1>1 DEF SavedReport

\* A request that leaves the link of a report alone, or ends it.
LEMMA RowWritten ==
    ASSUME Sound, NEW id \in DOMAIN saved, NEW row \in SavedReport,
           saved' = [saved EXCEPT ![id] = row], given' = given,
           \/ dead' = dead /\ row.token = saved[id].token /\ row.expires = saved[id].expires
                /\ row.deleted = saved[id].deleted
           \/ dead' = dead \cup TokensOf(id) /\ (row.deleted \/ row.token = 0)
    PROVE  Sound'
<1>1. /\ saved' \in Seq(SavedReport) /\ Len(saved') = Len(saved) /\ DOMAIN saved' = DOMAIN saved
      /\ saved'[id] = row /\ \A j \in DOMAIN saved : j # id => saved'[j] = saved[j]
  BY Replaced DEF Sound, SharingTyped
<1>2. TokensOf(id) \subseteq DOMAIN given /\ \A t \in TokensOf(id) : given[t].report = id
  BY DEF TokensOf
<1>3. SharingTyped'
  BY <1>1, <1>2 DEF Sound, SharingTyped
<1>4. ASSUME NEW j \in DOMAIN saved, ~saved'[j].deleted, saved'[j].token # 0
      PROVE  /\ saved'[j].token \in DOMAIN given /\ saved'[j].token \notin dead'
             /\ given[saved'[j].token].report = j
             /\ given[saved'[j].token].until = saved'[j].expires
             /\ saved'[j].expires # 0
  <2>1. CASE j # id
    <3>1. saved'[j] = saved[j]
      BY <1>1, <2>1
    <3>2. saved[j].token \in DOMAIN given /\ given[saved[j].token].report = j
      BY <1>4, <3>1 DEF Sound, LinksCurrent
    <3>3. saved[j].token \notin TokensOf(id)
      BY <1>2, <2>1, <3>2
    <3> QED
      BY <1>4, <3>1, <3>3 DEF Sound, LinksCurrent
  <2>2. CASE j = id
    <3>1. /\ dead' = dead /\ row.token = saved[id].token /\ row.expires = saved[id].expires
          /\ row.deleted = saved[id].deleted
      BY <1>1, <1>4, <2>2
    <3> QED
      BY <1>1, <1>4, <2>2, <3>1 DEF Sound, LinksCurrent
  <2> QED
    BY <2>1, <2>2
<1> QED
  BY <1>1, <1>3, <1>4 DEF Sound, LinksCurrent

LEMMA CreateSavedReportSound ==
    ASSUME Sound, NEW u \in Users, NEW shared \in BOOLEAN, CreateSavedReport(u, shared)
    PROVE  Sound'
<1> DEFINE row == [owner |-> u, shared |-> shared, token |-> 0, expires |-> 0, deleted |-> FALSE]
           id == Len(saved) + 1
<1>1. row \in SavedReport /\ row.token = 0
  BY DEF SavedReport
<1>2. saved' = Append(saved, row) /\ Len(saved) < MaxReports /\ UNCHANGED <<given, dead>>
  BY DEF CreateSavedReport
<1> HIDE DEF row
<1>3. /\ saved' \in Seq(SavedReport) /\ Len(saved') = Len(saved) + 1 /\ Len(saved) \in Nat
      /\ DOMAIN saved' = DOMAIN saved \cup {id}
      /\ \A j \in DOMAIN saved : saved'[j] = saved[j]
      /\ saved'[id] = row
  BY <1>1, <1>2, Appended DEF Sound, SharingTyped
<1>4. MaxReports \in Nat
  BY ReportsAssumption
<1>5. SharingTyped'
  BY <1>2, <1>3, <1>4 DEF Sound, SharingTyped
<1>6. LinksCurrent'
  BY <1>1, <1>2, <1>3 DEF Sound, LinksCurrent
<1> QED
  BY <1>5, <1>6 DEF Sound

LEMMA UpdateSavedReportSound ==
    ASSUME Sound, NEW u, NEW id \in DOMAIN saved, NEW shared \in BOOLEAN,
           UpdateSavedReport(u, id, shared)
    PROVE  Sound'
<1> PICK row : row = [saved[id] EXCEPT !.shared = shared]
  OBVIOUS
<1>1. saved[id] \in SavedReport
  BY ReportRow
<1>2. /\ row \in SavedReport /\ row.token = saved[id].token /\ row.expires = saved[id].expires
      /\ row.deleted = saved[id].deleted
  BY <1>1 DEF SavedReport
<1>3. saved' = [saved EXCEPT ![id] = row] /\ given' = given /\ dead' = dead
  BY DEF UpdateSavedReport
<1> QED
  BY <1>2, <1>3, RowWritten

LEMMA DeleteSavedReportSound ==
    ASSUME Sound, NEW u, NEW id \in DOMAIN saved, DeleteSavedReport(u, id)
    PROVE  Sound'
<1> PICK row : row = [saved[id] EXCEPT !.deleted = TRUE]
  OBVIOUS
<1>1. saved[id] \in SavedReport
  BY ReportRow
<1>2. row \in SavedReport /\ row.deleted
  BY <1>1 DEF SavedReport
<1>3. saved' = [saved EXCEPT ![id] = row] /\ given' = given /\ dead' = dead \cup TokensOf(id)
  BY DEF DeleteSavedReport
<1> QED
  BY <1>2, <1>3, RowWritten

LEMMA RevokeReportShareTokenSound ==
    ASSUME Sound, NEW u, NEW id \in DOMAIN saved, RevokeReportShareToken(u, id)
    PROVE  Sound'
<1> PICK row : row = Unshared(saved[id])
  OBVIOUS
<1>1. saved[id] \in SavedReport
  BY ReportRow
<1>2. row \in SavedReport /\ row.token = 0
  BY <1>1 DEF SavedReport, Unshared
<1>3. saved' = [saved EXCEPT ![id] = row] /\ given' = given /\ dead' = dead \cup TokensOf(id)
  BY DEF RevokeReportShareToken
<1> QED
  BY <1>2, <1>3, RowWritten

LEMMA PromisedEnd ==
    ASSUME NEW start \in Nat, NEW n
    PROVE  start + 2 * Days(n) \in Nat /\ start + 2 * Days(n) # 0
<1>1. Days(n) \in Nat /\ Days(n) > 0
  BY DEF Days
<1> QED
  BY <1>1

\* A new token is no older one's, and the ones of the report before it end.
LEMMA SetReportShareTokenSound ==
    ASSUME Sound, now \in Nat, NEW u, NEW id \in DOMAIN saved, NEW n,
           SetReportShareToken(u, id, n)
    PROVE  Sound'
<1> PICK token : token = Len(given) + 1
  OBVIOUS
<1> PICK until : until = now + 2 * Days(n)
  OBVIOUS
<1> PICK row : row = SharedRow(saved[id], token, until)
  OBVIOUS
<1> PICK link : link = [report |-> id, until |-> until]
  OBVIOUS
<1>1. /\ saved' = [saved EXCEPT ![id] = row] /\ given' = Append(given, link)
      /\ dead' = dead \cup TokensOf(id)
  BY DEF SetReportShareToken
<1>2. until \in Nat /\ until # 0
  BY PromisedEnd
<1>3. saved[id] \in SavedReport /\ id \in Nat
  BY ReportRow
<1>4. link \in Given /\ link.report = id /\ link.until = until
  BY <1>2, <1>3 DEF Given
<1>5. /\ given' \in Seq(Given) /\ DOMAIN given' = DOMAIN given \cup {token}
      /\ \A t \in DOMAIN given : given'[t] = given[t]
      /\ given'[token] = link /\ token \notin DOMAIN given /\ token \in Nat /\ token # 0
  <2>1. given \in Seq(Given) /\ Len(given) \in Nat
    BY DEF Sound, SharingTyped
  <2> QED
    BY <1>1, <1>4, <2>1, Appended
<1>6. row \in SavedReport /\ row.token = token /\ row.expires = until
  BY <1>2, <1>3, <1>5 DEF SavedReport, SharedRow
<1>7. /\ saved' \in Seq(SavedReport) /\ Len(saved') = Len(saved) /\ DOMAIN saved' = DOMAIN saved
      /\ saved'[id] = row /\ \A j \in DOMAIN saved : j # id => saved'[j] = saved[j]
  BY <1>1, <1>6, Replaced DEF Sound, SharingTyped
<1>8. /\ TokensOf(id) \subseteq DOMAIN given /\ \A t \in TokensOf(id) : given[t].report = id
      /\ dead \subseteq DOMAIN given
  BY DEF TokensOf, Sound, SharingTyped
<1>9. SharingTyped'
  BY <1>1, <1>5, <1>7, <1>8 DEF Sound, SharingTyped
<1>10. ASSUME NEW j \in DOMAIN saved, ~saved'[j].deleted, saved'[j].token # 0
       PROVE  /\ saved'[j].token \in DOMAIN given' /\ saved'[j].token \notin dead'
              /\ given'[saved'[j].token].report = j
              /\ given'[saved'[j].token].until = saved'[j].expires
              /\ saved'[j].expires # 0
  <2>1. CASE j # id
    <3>1. saved'[j] = saved[j]
      BY <1>7, <2>1
    <3>2. saved[j].token \in DOMAIN given /\ given[saved[j].token].report = j
      BY <1>10, <3>1 DEF Sound, LinksCurrent
    <3>3. saved[j].token \notin TokensOf(id)
      BY <1>8, <2>1, <3>2
    <3> QED
      BY <1>1, <1>5, <1>10, <3>1, <3>2, <3>3 DEF Sound, LinksCurrent
  <2>2. CASE j = id
    BY <1>1, <1>2, <1>4, <1>5, <1>6, <1>7, <1>8, <2>2
  <2> QED
    BY <2>1, <2>2
<1> QED
  BY <1>7, <1>9, <1>10 DEF Sound, LinksCurrent

LEMMA SoundStep ==
    ASSUME Sound, now \in Nat, [Next]_vars
    PROVE  Sound'
<1>1. ASSUME NEW e, NEW i, NEW c, NEW row, NEW w, NEW r,
             \/ CreateTimesheet(e) \/ StartTimer(e) \/ StopTimer(i) \/ CreateInvoice(c)
             \/ MoveRow(row, w) \/ DeleteWorkstream(row) \/ SaveRate(r) \/ Tick \/ UNCHANGED vars
      PROVE  UNCHANGED sharing
  BY <1>1 DEF CreateTimesheet, StartTimer, StopTimer, CreateInvoice, MoveRow, DeleteWorkstream,
              SaveRate, Tick, vars
<1>2. \A token : viewSharedReport(token) => UNCHANGED <<saved, given, dead>>
  BY DEF viewSharedReport
<1>3. UNCHANGED <<saved, given, dead>> => Sound'
  BY DEF Sound, SharingTyped, LinksCurrent
<1>4. UNCHANGED sharing => UNCHANGED <<saved, given, dead>>
  BY DEF sharing
<1> QED
  BY <1>1, <1>2, <1>3, <1>4, CreateSavedReportSound, UpdateSavedReportSound,
     DeleteSavedReportSound, RevokeReportShareTokenSound, SetReportShareTokenSound DEF Next

-----------------------------------------------------------------------------
(* The types of the other tables, and the theorems.                        *)

CatalogueTyped ==
    /\ place \in [Catalogue -> 0..2]
    /\ rates \in Seq(RateForms)
    /\ now \in Time /\ requests \in 0..MaxRequests
    /\ shown \in [token : Nat, report : Nat, at : Time]

LEMMA TypedParts == TypeOK /\ EntriesTyped <=> EntriesTyped /\ SharingTyped /\ CatalogueTyped
BY DEF TypeOK, EntriesTyped, SharingTyped, CatalogueTyped, Given

LEMMA PlaceStep ==
    ASSUME CatalogueTyped, [Next]_vars
    PROVE  place' \in [Catalogue -> 0..2]
<1>1. ASSUME NEW row \in Catalogue, NEW w \in {1, 2}, MoveRow(row, w)
      PROVE  place' \in [Catalogue -> 0..2]
  <2>1. place' = [place EXCEPT ![row] = w] /\ w \in 0..2
    BY <1>1 DEF MoveRow
  <2> QED
    BY <2>1 DEF CatalogueTyped
<1>2. ASSUME NEW row \in Workstreams, DeleteWorkstream(row)
      PROVE  place' \in [Catalogue -> 0..2]
  <2>1. place' = [place EXCEPT ![row] = 0]
    BY <1>2 DEF DeleteWorkstream
  <2>2. row \in Catalogue /\ 0 \in 0..2
    BY <1>2 DEF Catalogue
  <2> QED
    BY <2>1, <2>2 DEF CatalogueTyped
<1>3. ASSUME NEW e, NEW i, NEW c, NEW r, NEW u, NEW id, NEW shared, NEW n, NEW token,
             \/ CreateTimesheet(e) \/ StartTimer(e) \/ StopTimer(i) \/ CreateInvoice(c)
             \/ SaveRate(r) \/ CreateSavedReport(u, shared) \/ UpdateSavedReport(u, id, shared)
             \/ DeleteSavedReport(u, id) \/ SetReportShareToken(u, id, n)
             \/ RevokeReportShareToken(u, id) \/ viewSharedReport(token) \/ Tick \/ UNCHANGED vars
      PROVE  UNCHANGED place
  BY <1>3 DEF CreateTimesheet, StartTimer, StopTimer, CreateInvoice, SaveRate, CreateSavedReport,
              UpdateSavedReport, DeleteSavedReport, SetReportShareToken, RevokeReportShareToken,
              viewSharedReport, Tick, vars
<1> QED
  BY <1>1, <1>2, <1>3 DEF Next, CatalogueTyped

LEMMA RatesStep ==
    ASSUME CatalogueTyped, [Next]_vars
    PROVE  rates' \in Seq(RateForms)
<1>1. ASSUME NEW r \in RateForms, SaveRate(r)
      PROVE  rates' \in Seq(RateForms)
  BY <1>1, Appended DEF SaveRate, CatalogueTyped
<1>2. ASSUME NEW e, NEW i, NEW c, NEW row, NEW w, NEW u, NEW id, NEW shared, NEW n, NEW token,
             \/ CreateTimesheet(e) \/ StartTimer(e) \/ StopTimer(i) \/ CreateInvoice(c)
             \/ MoveRow(row, w) \/ DeleteWorkstream(row)
             \/ CreateSavedReport(u, shared) \/ UpdateSavedReport(u, id, shared)
             \/ DeleteSavedReport(u, id) \/ SetReportShareToken(u, id, n)
             \/ RevokeReportShareToken(u, id) \/ viewSharedReport(token) \/ Tick \/ UNCHANGED vars
      PROVE  UNCHANGED rates
  BY <1>2 DEF CreateTimesheet, StartTimer, StopTimer, CreateInvoice, MoveRow, DeleteWorkstream,
              CreateSavedReport, UpdateSavedReport, DeleteSavedReport, SetReportShareToken,
              RevokeReportShareToken, viewSharedReport, Tick, vars
<1> QED
  BY <1>1, <1>2 DEF Next, CatalogueTyped

\* Only opening a link changes what is shown.
LEMMA ShownSteps ==
    ASSUME [Next]_vars
    PROVE  UNCHANGED shown \/ \E token \in DOMAIN given : viewSharedReport(token)
<1>1. ASSUME NEW e, NEW i, NEW c, NEW row, NEW w, NEW r, NEW u, NEW id, NEW shared, NEW n,
             \/ CreateTimesheet(e) \/ StartTimer(e) \/ StopTimer(i) \/ CreateInvoice(c)
             \/ MoveRow(row, w) \/ DeleteWorkstream(row) \/ SaveRate(r)
             \/ CreateSavedReport(u, shared) \/ UpdateSavedReport(u, id, shared)
             \/ DeleteSavedReport(u, id) \/ SetReportShareToken(u, id, n)
             \/ RevokeReportShareToken(u, id) \/ Tick \/ UNCHANGED vars
      PROVE  UNCHANGED shown
  BY <1>1 DEF CreateTimesheet, StartTimer, StopTimer, CreateInvoice, MoveRow, DeleteWorkstream,
              SaveRate, CreateSavedReport, UpdateSavedReport, DeleteSavedReport,
              SetReportShareToken, RevokeReportShareToken, Tick, vars, sharing
<1> QED
  BY <1>1 DEF Next

\* What a link that opens has shown.
LEMMA LinkOpened ==
    ASSUME Sound, now \in Nat, NEW token \in DOMAIN given, viewSharedReport(token)
    PROVE  /\ shown'.token = token /\ shown'.at = now
           /\ shown'.report \in DOMAIN saved /\ token \notin dead
           /\ shown'.report = given[token].report /\ now <= given[token].until
<1>1. PICK id \in FindSharedReport(token) :
        ~HasExpired(id) /\ shown' = [token |-> token, report |-> id, at |-> now]
  BY DEF viewSharedReport
<1>2. id \in DOMAIN saved /\ ~saved[id].deleted /\ saved[id].token = token
  BY DEF FindSharedReport
<1>3. token # 0
  BY DEF Sound, SharingTyped
<1>4. /\ token \notin dead /\ given[token].report = id /\ given[token].until = saved[id].expires
      /\ saved[id].expires # 0
  BY <1>2, <1>3 DEF Sound, LinksCurrent
<1>5. now <= saved[id].expires
  BY <1>1, <1>2, <1>4, ReportRow DEF HasExpired
<1> QED
  BY <1>1, <1>2, <1>4, <1>5

LEMMA CatalogueStep ==
    ASSUME Sound, CatalogueTyped, [Next]_vars
    PROVE  CatalogueTyped'
<1>0. MaxTime \in Nat /\ MaxRequests \in Nat /\ now \in Nat /\ now \in Time /\ requests \in Nat
  BY ReportsAssumption DEF CatalogueTyped, Time
<1>1. now' \in Time /\ requests' \in 0..MaxRequests
  <2>1. ASSUME NEW e, NEW i, NEW c, NEW row, NEW w, NEW r,
               \/ CreateTimesheet(e) \/ StartTimer(e) \/ StopTimer(i) \/ CreateInvoice(c)
               \/ MoveRow(row, w) \/ DeleteWorkstream(row) \/ SaveRate(r)
        PROVE  Request /\ UNCHANGED now
    BY <2>1 DEF CreateTimesheet, StartTimer, StopTimer, CreateInvoice, MoveRow,
                DeleteWorkstream, SaveRate
  <2>2. ASSUME NEW u, NEW id, NEW shared, NEW n, NEW token,
               \/ CreateSavedReport(u, shared) \/ UpdateSavedReport(u, id, shared)
               \/ DeleteSavedReport(u, id) \/ SetReportShareToken(u, id, n)
               \/ RevokeReportShareToken(u, id) \/ viewSharedReport(token)
        PROVE  Request /\ UNCHANGED now
    BY <2>2 DEF CreateSavedReport, UpdateSavedReport, DeleteSavedReport, SetReportShareToken,
                RevokeReportShareToken, viewSharedReport
  <2>3. Request => requests' \in 0..MaxRequests
    BY <1>0 DEF Request, CatalogueTyped
  <2>4. CASE Tick
    BY <1>0, <2>4 DEF Tick, Time, CatalogueTyped
  <2>5. CASE UNCHANGED vars
    BY <2>5 DEF vars, CatalogueTyped
  <2> QED
    BY <1>0, <2>1, <2>2, <2>3, <2>4, <2>5 DEF Next
<1>2. shown' \in [token : Nat, report : Nat, at : Time]
  <2>1. ASSUME NEW token \in DOMAIN given, viewSharedReport(token)
        PROVE  shown' \in [token : Nat, report : Nat, at : Time]
    <3>1. PICK id \in FindSharedReport(token) :
            shown' = [token |-> token, report |-> id, at |-> now]
      BY <2>1 DEF viewSharedReport
    <3>2. token \in Nat /\ id \in Nat
      BY ReportRow DEF FindSharedReport, Sound, SharingTyped
    <3> QED
      BY <1>0, <3>1, <3>2
  <2> QED
    BY <2>1, ShownSteps DEF CatalogueTyped
<1> QED
  BY <1>1, <1>2, PlaceStep, RatesStep DEF CatalogueTyped

\* The inductive invariant: types, timers started in the past, and links that are current.
IInv == Typed /\ LinksCurrent

LEMMA IInvParts == IInv <=> EntriesTyped /\ CatalogueTyped /\ Sound
BY TypedEntries, TypedParts DEF IInv, Sound

LEMMA IInvInit == Init => IInv
<1> SUFFICES ASSUME Init PROVE EntriesTyped /\ CatalogueTyped /\ Sound
  BY IInvParts
<1>1. MaxTime \in Nat /\ MaxRequests \in Nat /\ MaxReports \in Nat
  BY ReportsAssumption
<1>2. EntriesTyped
  BY DEF Init, EntriesTyped
<1>3. CatalogueTyped
  BY <1>1 DEF Init, CatalogueTyped, Time, Home
<1>4. Sound
  BY <1>1 DEF Init, Sound, SharingTyped, LinksCurrent
<1> QED
  BY <1>2, <1>3, <1>4

LEMMA IInvStep == IInv /\ [Next]_vars => IInv'
<1> SUFFICES ASSUME IInv, [Next]_vars PROVE EntriesTyped' /\ CatalogueTyped' /\ Sound'
  BY IInvParts, PTL
<1>1. Typed /\ CatalogueTyped /\ Sound
  BY IInvParts DEF IInv
<1>2. now \in Nat
  BY <1>1, ReportsAssumption DEF CatalogueTyped, Time
<1> QED
  BY <1>1, <1>2, EntriesStep, CatalogueStep, SoundStep

\* The strengthening holds through every request.
THEOREM InductiveInvariant == Spec => []IInv
BY IInvInit, IInvStep, PTL DEF Spec

\* Tables, links and the page shown keep their types, stopping a timer gives no negative
\* time, and running entries have none yet.
THEOREM TypeCorrect == Spec => []TypeOK
<1>1. IInv => TypeOK
  BY DEF IInv, Typed
<1> QED
  BY <1>1, InductiveInvariant, PTL

\* A link opens the report it was made for, until the end promised with it, and never
\* after its report was shared again, revoked or deleted, for any number of reports,
\* administrators and tokens.
THEOREM LinksAreCurrent == Spec => LinkIsCurrent
<1>1. IInv /\ [Next]_vars =>
        [shown' # shown => LET t == shown'.token
                           IN  /\ t \notin dead /\ now <= given[t].until
                               /\ shown'.report = given[t].report]_vars
  <2> SUFFICES ASSUME IInv, [Next]_vars, shown' # shown
               PROVE  LET t == shown'.token
                      IN  /\ t \notin dead /\ now <= given[t].until
                          /\ shown'.report = given[t].report
    OBVIOUS
  <2>1. PICK token \in DOMAIN given : viewSharedReport(token)
    BY ShownSteps
  <2>2. Sound /\ now \in Nat
    BY IInvParts, ReportsAssumption DEF CatalogueTyped, Time
  <2> QED
    BY <2>1, <2>2, LinkOpened
<1> QED
  BY <1>1, InductiveInvariant, PTL DEF Spec, LinkIsCurrent

-----------------------------------------------------------------------------
(* The pages. What they show holds of any tables of the right types.       *)

Seconds == [i \in DOMAIN entries |-> entries[i].seconds]
Amounts == [i \in DOMAIN entries |-> Cents(entries[i])]

LEMMA Countable ==
    ASSUME TypeOK
    PROVE  /\ IsFiniteSet(DOMAIN entries)
           /\ \A S \in SUBSET DOMAIN entries : IsFiniteSet(S)
           /\ \A i \in DOMAIN entries :
                /\ Seconds[i] \in Nat /\ Seconds[i] \in Int /\ Amounts[i] \in Int
                /\ Seconds[i] = entries[i].seconds /\ Amounts[i] = Cents(entries[i])
                /\ IsRunning(i) => Seconds[i] = 0 /\ Amounts[i] = 0
<1>1. IsFiniteSet(DOMAIN entries)
  <2>1. DOMAIN entries = 1..Len(entries) /\ Len(entries) \in Nat
    BY DEF TypeOK
  <2> QED
    BY <2>1, FS_Interval
<1>2. ASSUME NEW i \in DOMAIN entries
      PROVE  /\ entries[i].seconds \in Nat /\ Cents(entries[i]) \in Int
             /\ entries[i].seconds = 0 => Cents(entries[i]) = 0
  <2>1. entries[i] \in Entry
    BY DEF TypeOK
  <2>2. entries[i].seconds \in Nat /\ entries[i].rate \in Nat
    BY <2>1 DEF Entry
  <2> QED
    BY <2>2 DEF Cents
<1> QED
  BY <1>1, <1>2, FS_Subset DEF TypeOK, Seconds, Amounts

LEMMA SecondsAreSum ==
    ASSUME TypeOK, NEW S \in SUBSET DOMAIN entries
    PROVE  SecondsOf(S) = Sum(Seconds, S)
<1> DEFINE Eq(g) == g = [s \in SUBSET S |-> IF s = {} THEN 0
                                            ELSE entries[Picked(s)].seconds + g[s \ {Picked(s)}]]
           count == CHOOSE g : Eq(g)
<1>1. IsFiniteSet(S) /\ \A s \in SUBSET S : s # {} => Seconds[Picked(s)] = entries[Picked(s)].seconds
  BY Countable DEF Picked
<1>2. SecondsOf(S) = count[S]
  BY DEF SecondsOf, MapThenSumSet, MapThenFoldSet, Picked
<1>3. \E g : Eq(g)
  <2>1. PICK g : Iterates(g, Seconds, S)
    BY <1>1, SomeIteration
  <2>2. Eq(g)
    BY <1>1, <2>1 DEF Iterates
  <2> QED
    BY <2>2
<1>4. Eq(count)
  <2> HIDE DEF Eq
  <2> QED
    BY <1>3
<1> HIDE DEF count
<1>5. Counts(count, Seconds, S)
  BY <1>1, <1>4 DEF Adds, Counts
<1> QED
  BY <1>1, <1>2, <1>5, CountsAsSum

LEMMA CentsAreSum ==
    ASSUME TypeOK, NEW S \in SUBSET DOMAIN entries
    PROVE  CentsOf(S) = Sum(Amounts, S)
<1> DEFINE Eq(g) == g = [s \in SUBSET S |-> IF s = {} THEN 0
                                            ELSE Cents(entries[Picked(s)]) + g[s \ {Picked(s)}]]
           count == CHOOSE g : Eq(g)
<1>1. IsFiniteSet(S) /\ \A s \in SUBSET S : s # {} => Amounts[Picked(s)] = Cents(entries[Picked(s)])
  BY Countable DEF Picked
<1>2. CentsOf(S) = count[S]
  BY DEF CentsOf, MapThenSumSet, MapThenFoldSet, Picked
<1>3. \E g : Eq(g)
  <2>1. PICK g : Iterates(g, Amounts, S)
    BY <1>1, SomeIteration
  <2>2. Eq(g)
    BY <1>1, <2>1 DEF Iterates
  <2> QED
    BY <2>2
<1>4. Eq(count)
  <2> HIDE DEF Eq
  <2> QED
    BY <1>3
<1> HIDE DEF count
<1>5. Counts(count, Amounts, S)
  BY <1>1, <1>4 DEF Adds, Counts
<1> QED
  BY <1>1, <1>2, <1>5, CountsAsSum

\* A total over the rows of a page.
LEMMA TotalTracked ==
    ASSUME NEW page, NEW S, IsFiniteSet(S), NEW k, \A x \in S : k[x] = page[x].tracked
    PROVE  Total(page, LAMBDA x : x.tracked, S) = Sum(k, S)
<1> DEFINE Eq(g) == g = [s \in SUBSET S |-> IF s = {} THEN 0
                                            ELSE page[Picked(s)].tracked + g[s \ {Picked(s)}]]
           count == CHOOSE g : Eq(g)
<1>1. \A s \in SUBSET S : s # {} => k[Picked(s)] = page[Picked(s)].tracked
  BY DEF Picked
<1>2. Total(page, LAMBDA x : x.tracked, S) = count[S]
  BY DEF Total, MapThenSumSet, MapThenFoldSet, Picked
<1>3. \E g : Eq(g)
  <2>1. PICK g : Iterates(g, k, S)
    BY SomeIteration
  <2>2. Eq(g)
    BY <1>1, <2>1 DEF Iterates
  <2> QED
    BY <2>2
<1>4. Eq(count)
  <2> HIDE DEF Eq
  <2> QED
    BY <1>3
<1> HIDE DEF count
<1>5. Counts(count, k, S)
  BY <1>1, <1>4 DEF Adds, Counts
<1> QED
  BY <1>2, <1>5, CountsAsSum

LEMMA TotalUnbilled ==
    ASSUME NEW page, NEW S, IsFiniteSet(S), NEW k, \A x \in S : k[x] = page[x].unbilled
    PROVE  Total(page, LAMBDA x : x.unbilled, S) = Sum(k, S)
<1> DEFINE Eq(g) == g = [s \in SUBSET S |-> IF s = {} THEN 0
                                            ELSE page[Picked(s)].unbilled + g[s \ {Picked(s)}]]
           count == CHOOSE g : Eq(g)
<1>1. \A s \in SUBSET S : s # {} => k[Picked(s)] = page[Picked(s)].unbilled
  BY DEF Picked
<1>2. Total(page, LAMBDA x : x.unbilled, S) = count[S]
  BY DEF Total, MapThenSumSet, MapThenFoldSet, Picked
<1>3. \E g : Eq(g)
  <2>1. PICK g : Iterates(g, k, S)
    BY SomeIteration
  <2>2. Eq(g)
    BY <1>1, <2>1 DEF Iterates
  <2> QED
    BY <2>2
<1>4. Eq(count)
  <2> HIDE DEF Eq
  <2> QED
    BY <1>3
<1> HIDE DEF count
<1>5. Counts(count, k, S)
  BY <1>1, <1>4 DEF Adds, Counts
<1> QED
  BY <1>2, <1>5, CountsAsSum

LEMMA TotalPlain ==
    ASSUME NEW page, NEW S, IsFiniteSet(S)
    PROVE  Total(page, LAMBDA x : x, S) = Sum(page, S)
<1> DEFINE count == CHOOSE g : Iterates(g, page, S)
<1>1. Total(page, LAMBDA x : x, S) = count[S]
  BY DEF Total, MapThenSumSet, MapThenFoldSet, Picked, Iterates
<1>2. Iterates(count, page, S)
  BY SomeIteration
<1> HIDE DEF count
<1>3. Counts(count, page, S)
  BY <1>2 DEF Adds, Counts, Iterates
<1> QED
  BY <1>1, <1>3, CountsAsSum

\* The breakdown by a kind of row has every ended entry of the project in one of its rows.
LEMMA BreakdownAddsUp ==
    ASSUME TypeOK, NEW p, NEW f, NEW kind
    PROVE  LET b == Breakdown(kind, p, f)
           IN  /\ Total(b, LAMBDA x : x.tracked, DOMAIN b) = SecondsOf(Ended(p, f))
               /\ Total(b, LAMBDA x : x.unbilled, DOMAIN b) = SecondsOf(UnbilledOf(Ended(p, f)))
<1> DEFINE S == Ended(p, f)
           In(bucket) == {i \in S : Bucket(kind, i) = bucket}
           B == {Bucket(kind, i) : i \in S}
           class == [i \in S |-> Bucket(kind, i)]
           tracked == [bucket \in B |-> SecondsOf(In(bucket))]
           unbilled == [bucket \in B |-> SecondsOf(UnbilledOf(In(bucket)))]
           b == Breakdown(kind, p, f)
<1>1. S \in SUBSET DOMAIN entries
  BY DEF Ended
<1>2. b = [bucket \in B |-> [tracked |-> SecondsOf(In(bucket)),
                             unbilled |-> SecondsOf(UnbilledOf(In(bucket)))]]
  <2>1. {i \in Ended(p, f) : Joined(kind, i)} = S
    BY DEF Joined
  <2> QED
    BY <2>1 DEF Breakdown
<1> HIDE DEF S, b
<1>3. \A T \in SUBSET S : /\ T \in SUBSET DOMAIN entries /\ IsFiniteSet(T)
                          /\ \A i \in T : Seconds[i] \in Int
  BY <1>1, Countable
<1>4. IsFiniteSet(B)
  <2>1. IsFiniteSet({class[i] : i \in S})
    <3> HIDE DEF class
    <3> QED
      BY <1>3, ImageIsFinite
  <2>2. {class[i] : i \in S} = B
    OBVIOUS
  <2> QED
    BY <2>1, <2>2
<1>5. /\ DOMAIN b = B
      /\ \A bucket \in B : tracked[bucket] = b[bucket].tracked /\ unbilled[bucket] = b[bucket].unbilled
  BY <1>2
<1>6. Total(b, LAMBDA x : x.tracked, DOMAIN b) = Sum(tracked, B)
  <2> HIDE DEF B, tracked
  <2> QED
    BY <1>4, <1>5, TotalTracked
<1>7. Total(b, LAMBDA x : x.unbilled, DOMAIN b) = Sum(unbilled, B)
  <2> HIDE DEF B, unbilled
  <2> QED
    BY <1>4, <1>5, TotalUnbilled
<1>8. Sum(tracked, B) = SecondsOf(S)
  <2>1. \A i \in S : class[i] \in B
    OBVIOUS
  <2>2. \A bucket \in B : tracked[bucket] = Sum(Seconds, {i \in S : class[i] = bucket})
    <3> SUFFICES ASSUME NEW bucket \in B
                 PROVE  tracked[bucket] = Sum(Seconds, {i \in S : class[i] = bucket})
      OBVIOUS
    <3>1. {i \in S : class[i] = bucket} = In(bucket) /\ tracked[bucket] = SecondsOf(In(bucket))
      OBVIOUS
    <3>2. In(bucket) \in SUBSET DOMAIN entries
      BY <1>3
    <3> HIDE DEF In, class, tracked
    <3> QED
      BY <3>1, <3>2, SecondsAreSum
  <2> HIDE DEF B, class, tracked
  <2>3. SumsClasses(tracked, B, Seconds, S, class)
    BY <1>3, <2>1, <2>2 DEF SumsClasses
  <2>4. Sum(tracked, B) = Sum(Seconds, S)
    BY <1>3, <1>4, <2>1, <2>3, SumByClass
  <2> QED
    BY <1>3, <2>4, SecondsAreSum
<1>9. Sum(unbilled, B) = SecondsOf(UnbilledOf(S))
  <2> DEFINE U == UnbilledOf(S)
  <2>1. U \in SUBSET S /\ \A i \in U : class[i] \in B
    BY DEF UnbilledOf
  <2>2. \A bucket \in B : unbilled[bucket] = Sum(Seconds, {i \in U : class[i] = bucket})
    <3> SUFFICES ASSUME NEW bucket \in B
                 PROVE  unbilled[bucket] = Sum(Seconds, {i \in U : class[i] = bucket})
      OBVIOUS
    <3>1. /\ {i \in U : class[i] = bucket} = UnbilledOf(In(bucket))
          /\ unbilled[bucket] = SecondsOf(UnbilledOf(In(bucket)))
      BY DEF UnbilledOf
    <3>2. UnbilledOf(In(bucket)) \in SUBSET DOMAIN entries
      BY <1>3 DEF UnbilledOf
    <3> HIDE DEF In, class, unbilled, U
    <3> QED
      BY <3>1, <3>2, SecondsAreSum
  <2> HIDE DEF B, class, unbilled, U
  <2>3. SumsClasses(unbilled, B, Seconds, U, class)
    BY <1>3, <2>1, <2>2 DEF SumsClasses
  <2>4. Sum(unbilled, B) = Sum(Seconds, U)
    BY <1>3, <1>4, <2>1, <2>3, SumByClass
  <2> QED
    BY <1>3, <2>1, <2>4, SecondsAreSum DEF U
<1> QED
  BY <1>6, <1>7, <1>8, <1>9 DEF b, S

\* What the contributors to a row have worked is what its breakdown shows, though those
\* with no time are left out.
LEMMA ContributorsAddUp ==
    ASSUME TypeOK, NEW p, NEW f, NEW kind, NEW bucket \in DOMAIN Breakdown(kind, p, f)
    PROVE  LET c == Contributors(kind, p, f)
           IN  Total(c, LAMBDA x : x, {ub \in DOMAIN c : ub[2] = bucket})
                 = Breakdown(kind, p, f)[bucket].tracked
<1> DEFINE S == Ended(p, f)
           In(ub) == {i \in S : entries[i].user = ub[1] /\ Bucket(kind, i) = ub[2]}
           Pairs == {<<entries[i].user, Bucket(kind, i)>> : i \in S}
           class == [i \in S |-> <<entries[i].user, Bucket(kind, i)>>]
           R == {i \in S : Bucket(kind, i) = bucket}
           Of == {ub \in Pairs : ub[2] = bucket}
           k == [ub \in Pairs |-> SecondsOf(In(ub))]
           c == Contributors(kind, p, f)
           Listed == {ub \in DOMAIN c : ub[2] = bucket}
<1>1. S \in SUBSET DOMAIN entries
  BY DEF Ended
<1>2. {i \in Ended(p, f) : Joined(kind, i)} = S
  BY DEF Joined
<1>3. c = [ub \in {x \in Pairs : SecondsOf(In(x)) > 0} |-> SecondsOf(In(ub))]
  BY <1>2 DEF Contributors
<1>4. Breakdown(kind, p, f)[bucket].tracked = SecondsOf(R)
  BY <1>2 DEF Breakdown
<1> HIDE DEF S, c
<1>5. \A T \in SUBSET S : /\ T \in SUBSET DOMAIN entries /\ IsFiniteSet(T)
                          /\ \A i \in T : Seconds[i] \in Nat /\ Seconds[i] \in Int
  BY <1>1, Countable
<1>6. IsFiniteSet(Pairs)
  <2>1. IsFiniteSet({class[i] : i \in S})
    <3> HIDE DEF class
    <3> QED
      BY <1>5, ImageIsFinite
  <2>2. {class[i] : i \in S} = Pairs
    OBVIOUS
  <2> QED
    BY <2>1, <2>2
<1>7. IsFiniteSet(Of) /\ Listed \in SUBSET Of /\ IsFiniteSet(Listed)
  <2>1. Of \in SUBSET Pairs
    OBVIOUS
  <2>2. Listed \in SUBSET Of
    BY <1>3
  <2> QED
    BY <1>6, <2>1, <2>2, FS_Subset
<1>8. \A ub \in Pairs : k[ub] = Sum(Seconds, In(ub)) /\ k[ub] \in Nat
  <2> SUFFICES ASSUME NEW ub \in Pairs PROVE k[ub] = Sum(Seconds, In(ub)) /\ k[ub] \in Nat
    OBVIOUS
  <2>1. k[ub] = SecondsOf(In(ub)) /\ In(ub) \in SUBSET S
    OBVIOUS
  <2> HIDE DEF k, In
  <2> QED
    BY <1>5, <2>1, SecondsAreSum, SumIsNatural
<1>9. \A ub \in Listed : k[ub] = c[ub]
  BY <1>3
<1>10. \A ub \in Of \ Listed : k[ub] = 0
  <2> SUFFICES ASSUME NEW ub \in Of \ Listed PROVE k[ub] = 0
    OBVIOUS
  <2>1. ub \in Pairs /\ ~(SecondsOf(In(ub)) > 0) /\ k[ub] = SecondsOf(In(ub))
    BY <1>3
  <2>2. k[ub] \in Nat
    BY <1>8, <2>1
  <2> QED
    BY <2>1, <2>2
<1>11. R \in SUBSET S /\ \A i \in R : class[i] \in Of
  OBVIOUS
<1>12. \A ub \in Of : k[ub] = Sum(Seconds, {i \in R : class[i] = ub})
  <2> SUFFICES ASSUME NEW ub \in Of PROVE k[ub] = Sum(Seconds, {i \in R : class[i] = ub})
    OBVIOUS
  <2>1. {i \in R : class[i] = ub} = In(ub)
    OBVIOUS
  <2>2. ub \in Pairs
    OBVIOUS
  <2> HIDE DEF R, class, In, k, Pairs
  <2> QED
    BY <1>8, <2>1, <2>2
<1>13. \A ub \in Of : k[ub] \in Int
  BY <1>8
<1> HIDE DEF In, Pairs, class, R, Of, k, Listed
<1>14. Sum(k, Of) = Sum(Seconds, R)
  <2>1. IsFiniteSet(R) /\ \A i \in R : Seconds[i] \in Int
    BY <1>5, <1>11
  <2>2. IsFiniteSet(Of)
    BY <1>7
  <2>3. SumsClasses(k, Of, Seconds, R, class)
    BY <1>11, <1>12, <2>1 DEF SumsClasses
  <2> QED
    BY <2>1, <2>2, <2>3, SumByClass
<1>15. Sum(k, Of) = Sum(k, Listed)
  BY <1>7, <1>10, <1>13, SumWithout
<1>16. Sum(k, Listed) = Sum(c, Listed)
  BY <1>7, <1>9, <1>13, SameSum
<1>17. Total(c, LAMBDA x : x, Listed) = Sum(c, Listed)
  BY <1>7, TotalPlain
<1>18. SecondsOf(R) = Sum(Seconds, R)
  BY <1>5, <1>11, SecondsAreSum
<1> QED
  BY <1>4, <1>14, <1>15, <1>16, <1>17, <1>18 DEF c, Listed

LEMMA PartsAddUp ==
    ASSUME TypeOK, NEW p, NEW f
    PROVE  LET d == ProjectDashboard(p, f) IN d.billableSeconds + d.nonBillableSeconds = d.tracked
<1> DEFINE S == Ended(p, f)
           d == ProjectDashboard(p, f)
<1>1. /\ d.billableSeconds = SecondsOf(BillableOf(S))
      /\ d.nonBillableSeconds = SecondsOf(S \ BillableOf(S)) /\ d.tracked = SecondsOf(S)
  BY DEF ProjectDashboard
<1>2. S \in SUBSET DOMAIN entries /\ BillableOf(S) \in SUBSET S
  BY DEF Ended, BillableOf
<1> HIDE DEF S, d
<1>3. /\ BillableOf(S) \in SUBSET DOMAIN entries /\ S \ BillableOf(S) \in SUBSET DOMAIN entries
      /\ IsFiniteSet(S) /\ \A i \in S : Seconds[i] \in Int
  BY <1>2, Countable
<1>4. Sum(Seconds, S) = Sum(Seconds, BillableOf(S)) + Sum(Seconds, S \ BillableOf(S))
  BY <1>2, <1>3, SumOfParts
<1> QED
  BY <1>1, <1>2, <1>3, <1>4, SecondsAreSum DEF d

\* The watchlist counts running entries too, but they have no time yet.
LEMMA RunningCountNothing ==
    ASSUME TypeOK, NEW S \in SUBSET DOMAIN entries, NEW T \in SUBSET S,
           \A i \in S \ T : IsRunning(i)
    PROVE  SecondsOf(S) = SecondsOf(T) /\ CentsOf(S) = CentsOf(T)
<1>1. /\ IsFiniteSet(S) /\ T \in SUBSET DOMAIN entries
      /\ \A i \in S : Seconds[i] \in Int /\ Amounts[i] \in Int
      /\ \A i \in S \ T : Seconds[i] = 0 /\ Amounts[i] = 0
  BY Countable
<1>2. Sum(Seconds, S) = Sum(Seconds, T) /\ Sum(Amounts, S) = Sum(Amounts, T)
  BY <1>1, SumWithout
<1> QED
  BY <1>1, <1>2, SecondsAreSum, CentsAreSum

LEMMA WatchAgrees ==
    ASSUME TypeOK, NEW p
    PROVE  LET d == ProjectDashboard(p, NoFilter)
               w == ProjectWatch(p)
           IN  /\ w.tracked = d.tracked /\ w.billable = d.billable
               /\ w.unbilledSeconds = d.unbilledSeconds /\ w.unbilledCents = d.unbilledCents
               /\ d.alert = (w.estimateAlert \/ w.budgetAlert)
<1> DEFINE S == {i \in DOMAIN entries : entries[i].project = p /\ entries[i].ws = Home}
           T == Ended(p, NoFilter)
<1>1. \A i \in DOMAIN entries : ProjectDashboardFilter(NoFilter, entries[i])
  BY DEF ProjectDashboardFilter, NoFilter
<1>2. /\ S \in SUBSET DOMAIN entries /\ T \in SUBSET S
      /\ \A i \in S \ T : IsRunning(i)
  BY <1>1 DEF Ended
<1>3. SecondsOf(S) = SecondsOf(T)
  BY <1>2, RunningCountNothing
<1>4. CentsOf(BillableOf(S)) = CentsOf(BillableOf(T))
  <2>1. /\ BillableOf(S) \in SUBSET DOMAIN entries /\ BillableOf(T) \in SUBSET BillableOf(S)
        /\ \A i \in BillableOf(S) \ BillableOf(T) : IsRunning(i)
    BY <1>2 DEF BillableOf
  <2> QED
    BY <2>1, RunningCountNothing
<1>5. SecondsOf(UnbilledOf(S)) = SecondsOf(UnbilledOf(T)) /\ CentsOf(UnbilledOf(S)) = CentsOf(UnbilledOf(T))
  <2>1. /\ UnbilledOf(S) \in SUBSET DOMAIN entries /\ UnbilledOf(T) \in SUBSET UnbilledOf(S)
        /\ \A i \in UnbilledOf(S) \ UnbilledOf(T) : IsRunning(i)
    BY <1>2 DEF UnbilledOf
  <2> QED
    BY <2>1, RunningCountNothing
<1> HIDE DEF S, T
<1> QED
  BY <1>3, <1>4, <1>5 DEF ProjectWatch, ProjectDashboard, S, T

PageAddsUp(p, f) ==
    LET d == ProjectDashboard(p, f)
    IN  /\ d.billableSeconds + d.nonBillableSeconds = d.tracked
        /\ \A kind \in {"workstream", "activity", "task"} :
             LET b == Breakdown(kind, p, f)
                 c == Contributors(kind, p, f)
             IN  /\ Total(b, LAMBDA x : x.tracked, DOMAIN b) = d.tracked
                 /\ Total(b, LAMBDA x : x.unbilled, DOMAIN b) = d.unbilledSeconds
                 /\ \A bucket \in DOMAIN b :
                      Total(c, LAMBDA x : x, {ub \in DOMAIN c : ub[2] = bucket}) = b[bucket].tracked

LEMMA ProjectPageAddsUp ==
    ASSUME TypeOK, NEW p, NEW f
    PROVE  PageAddsUp(p, f)
<1>1. /\ ProjectDashboard(p, f).tracked = SecondsOf(Ended(p, f))
      /\ ProjectDashboard(p, f).unbilledSeconds = SecondsOf(UnbilledOf(Ended(p, f)))
  BY DEF ProjectDashboard
<1>2. ASSUME NEW kind
      PROVE  /\ Total(Breakdown(kind, p, f), LAMBDA x : x.tracked, DOMAIN Breakdown(kind, p, f))
                  = ProjectDashboard(p, f).tracked
             /\ Total(Breakdown(kind, p, f), LAMBDA x : x.unbilled, DOMAIN Breakdown(kind, p, f))
                  = ProjectDashboard(p, f).unbilledSeconds
  BY <1>1, BreakdownAddsUp
<1>3. ASSUME NEW kind, NEW bucket \in DOMAIN Breakdown(kind, p, f)
      PROVE  Total(Contributors(kind, p, f), LAMBDA x : x,
                   {ub \in DOMAIN Contributors(kind, p, f) : ub[2] = bucket})
               = Breakdown(kind, p, f)[bucket].tracked
  BY ContributorsAddUp
<1>4. LET d == ProjectDashboard(p, f) IN d.billableSeconds + d.nonBillableSeconds = d.tracked
  BY PartsAddUp
<1> QED
  BY <1>2, <1>3, <1>4 DEF PageAddsUp

LEMMA PagesAddUp == TypeOK => DashboardsAddUp
<1> SUFFICES ASSUME TypeOK, NEW p \in Projects
             PROVE  /\ \A f \in Filters \cup {NoFilter} : PageAddsUp(p, f)
                    /\ LET d == ProjectDashboard(p, NoFilter)
                           w == ProjectWatch(p)
                       IN  /\ w.tracked = d.tracked /\ w.billable = d.billable
                           /\ w.unbilledSeconds = d.unbilledSeconds
                           /\ w.unbilledCents = d.unbilledCents
                           /\ d.alert = (w.estimateAlert \/ w.budgetAlert)
  BY DEF DashboardsAddUp, PageAddsUp
<1> QED
  BY ProjectPageAddsUp, WatchAgrees

-----------------------------------------------------------------------------
(* Reports by different rows.                                              *)

Ones == [i \in DOMAIN entries |-> 1]

LEMMA TotalSeconds ==
    ASSUME NEW page, NEW S, IsFiniteSet(S), NEW k, \A x \in S : k[x] = page[x].seconds
    PROVE  Total(page, LAMBDA x : x.seconds, S) = Sum(k, S)
<1> DEFINE Eq(g) == g = [s \in SUBSET S |-> IF s = {} THEN 0
                                            ELSE page[Picked(s)].seconds + g[s \ {Picked(s)}]]
           count == CHOOSE g : Eq(g)
<1>1. \A s \in SUBSET S : s # {} => k[Picked(s)] = page[Picked(s)].seconds
  BY DEF Picked
<1>2. Total(page, LAMBDA x : x.seconds, S) = count[S]
  BY DEF Total, MapThenSumSet, MapThenFoldSet, Picked
<1>3. \E g : Eq(g)
  <2>1. PICK g : Iterates(g, k, S)
    BY SomeIteration
  <2>2. Eq(g)
    BY <1>1, <2>1 DEF Iterates
  <2> QED
    BY <2>2
<1>4. Eq(count)
  <2> HIDE DEF Eq
  <2> QED
    BY <1>3
<1> HIDE DEF count
<1>5. Counts(count, k, S)
  BY <1>1, <1>4 DEF Adds, Counts
<1> QED
  BY <1>2, <1>5, CountsAsSum

\* The fold of a report over its rows is the three sums.
Columns(r) ==
    FoldSet(LAMBDA row, t : <<t[1] + r[row].count, t[2] + r[row].seconds, t[3] + r[row].cents>>,
            <<0, 0, 0>>, DOMAIN r)

HasColumns(r, B, c, d, e) ==
    /\ DOMAIN r = B
    /\ \A row \in B : /\ c[row] \in Int /\ d[row] \in Int /\ e[row] \in Int
                      /\ c[row] = r[row].count /\ d[row] = r[row].seconds
                      /\ e[row] = r[row].cents

LEMMA RowsFold ==
    ASSUME NEW r, NEW B, IsFiniteSet(B), NEW c, NEW d, NEW e, HasColumns(r, B, c, d, e)
    PROVE  Columns(r) = <<Sum(c, B), Sum(d, B), Sum(e, B)>>
<1> DEFINE Step(g, s) == <<g[s \ {Picked(s)}][1] + r[Picked(s)].count,
                           g[s \ {Picked(s)}][2] + r[Picked(s)].seconds,
                           g[s \ {Picked(s)}][3] + r[Picked(s)].cents>>
           Eq(g) == g = [s \in SUBSET B |-> IF s = {} THEN <<0, 0, 0>> ELSE Step(g, s)]
           fold == CHOOSE g : Eq(g)
           sums == [s \in SUBSET B |-> <<Sum(c, s), Sum(d, s), Sum(e, s)>>]
<1>1. Columns(r) = fold[B]
  BY DEF Columns, FoldSet, MapThenFoldSet, Picked, HasColumns
<1>2. \A s \in SUBSET B :
        /\ IsFiniteSet(s) /\ Cardinality(s) \in Nat
        /\ Sum(c, s) \in Int /\ Sum(d, s) \in Int /\ Sum(e, s) \in Int
        /\ s # {} => Picked(s) \in s
  BY FS_Subset, FS_CardinalityType, SumType DEF Picked, HasColumns
<1>3. /\ sums[{}] = <<0, 0, 0>>
      /\ \A s \in SUBSET B : s # {} => sums[s] = Step(sums, s)
  <2>1. Sum(c, {}) = 0 /\ Sum(d, {}) = 0 /\ Sum(e, {}) = 0
    BY SumUnfolds
  <2>2. ASSUME NEW s \in SUBSET B, s # {}
        PROVE  sums[s] = Step(sums, s)
    <3> DEFINE x == Picked(s)
               q == s \ {x}
    <3>1. /\ Sum(c, s) = c[x] + Sum(c, q) /\ Sum(d, s) = d[x] + Sum(d, q)
          /\ Sum(e, s) = e[x] + Sum(e, q)
      BY <1>2, <2>2, SumUnfolds
    <3>2. /\ Sum(c, q) \in Int /\ Sum(d, q) \in Int /\ Sum(e, q) \in Int /\ x \in B
      BY <1>2, <2>2
    <3>3. sums[q] = <<Sum(c, q), Sum(d, q), Sum(e, q)>> /\ sums[s] = <<Sum(c, s), Sum(d, s), Sum(e, s)>>
      OBVIOUS
    <3> HIDE DEF sums
    <3>4. /\ Sum(c, s) = sums[q][1] + r[x].count /\ Sum(d, s) = sums[q][2] + r[x].seconds
          /\ Sum(e, s) = sums[q][3] + r[x].cents
      BY <3>1, <3>2, <3>3 DEF HasColumns
    <3> QED
      BY <3>3, <3>4
  <2> QED
    BY <2>1, <2>2
<1>4. Eq(sums)
  <2> DEFINE other == [s \in SUBSET B |-> IF s = {} THEN <<0, 0, 0>> ELSE Step(sums, s)]
  <2>1. \A s \in SUBSET B : other[s] = sums[s]
    <3> HIDE DEF sums, Step
    <3> QED
      BY <1>3
  <2>2. other = sums
    <3> HIDE DEF Step
    <3>1. other = [s \in SUBSET B |-> other[s]] /\ sums = [s \in SUBSET B |-> sums[s]]
      OBVIOUS
    <3> HIDE DEF other, sums
    <3> QED
      BY <2>1, <3>1
  <2> QED
    BY <2>2
<1>5. Eq(fold)
  <2> HIDE DEF Eq
  <2> QED
    BY <1>4
<1> DEFINE T == {n \in Nat : \A s \in SUBSET B : Cardinality(s) = n => fold[s] = sums[s]}
<1>6. \A s \in SUBSET B : fold[s] = IF s = {} THEN <<0, 0, 0>> ELSE Step(fold, s)
  <2> HIDE DEF fold, Step
  <2> QED
    BY <1>5
<1> HIDE DEF fold, sums, Eq
<1>7. 0 \in T
  BY <1>2, <1>3, <1>6, FS_EmptySet
<1>8. ASSUME NEW n \in Nat, n \in T
      PROVE  n + 1 \in T
  <2> SUFFICES ASSUME NEW s \in SUBSET B, Cardinality(s) = n + 1
               PROVE  fold[s] = sums[s]
    OBVIOUS
  <2>1. s # {}
    BY FS_EmptySet
  <2>2. Cardinality(s \ {Picked(s)}) = n
    <3>1. Cardinality(s \ {Picked(s)}) = Cardinality(s) - 1
      BY <1>2, <2>1, FS_RemoveElement
    <3> QED
      BY <3>1
  <2>3. fold[s \ {Picked(s)}] = sums[s \ {Picked(s)}]
    BY <1>8, <2>2
  <2>4. Step(fold, s) = Step(sums, s)
    BY <2>3
  <2> HIDE DEF Step
  <2> QED
    BY <1>3, <1>6, <2>1, <2>4
<1> HIDE DEF T
<1>9. \A n \in Nat : n \in T
  BY <1>7, <1>8, AllNumbers
<1>10. fold[B] = sums[B]
  BY <1>2, <1>9 DEF T
<1> QED
  BY <1>1, <1>10 DEF sums

InRow(group, a, f, row) == {i \in Reported(group, a, f) : entries[i][group] = row}

\* The rows a report shows.
LEMMA ReportRows ==
    ASSUME TypeOK, NEW a, NEW f, NEW group, NEW row \in GroupRows[group]
    PROVE  /\ InRow(group, a, f, row) \in SUBSET DOMAIN entries
           /\ IsFiniteSet(InRow(group, a, f, row))
           /\ ListReports(group, a, f)[row].count = Cardinality(InRow(group, a, f, row))
           /\ ListReports(group, a, f)[row].seconds = SecondsOf(InRow(group, a, f, row))
           /\ ListReports(group, a, f)[row].cents = CentsOf(InRow(group, a, f, row))
<1>1. Reported(group, a, f) \in SUBSET DOMAIN entries
  BY DEF Reported
<1>2. \A S \in SUBSET DOMAIN entries : IsFiniteSet(S)
  BY Countable
<1> QED
  BY <1>1, <1>2 DEF ListReports, InRow

\* A report by whatever row adds up to the entries it is about.
LEMMA WholeIsSums ==
    ASSUME TypeOK, NEW a, NEW f, NEW group, IsFiniteSet(GroupRows[group])
    PROVE  LET S == Reported(group, a, f)
           IN  Whole(group, a, f) = <<Cardinality(S), SecondsOf(S), CentsOf(S)>>
<1> DEFINE S == Reported(group, a, f)
           B == GroupRows[group]
           r == ListReports(group, a, f)
           class == [i \in S |-> entries[i][group]]
           c == [row \in B |-> r[row].count]
           d == [row \in B |-> r[row].seconds]
           e == [row \in B |-> r[row].cents]
<1>1. S \in SUBSET DOMAIN entries /\ \A i \in S : class[i] \in B
  BY DEF Reported
<1>2. DOMAIN r = B
  BY DEF ListReports
<1>3. Whole(group, a, f) = Columns(r)
  BY DEF Whole, Columns
<1>4. ASSUME NEW row \in B
      PROVE  /\ c[row] = Sum(Ones, {i \in S : class[i] = row})
             /\ d[row] = Sum(Seconds, {i \in S : class[i] = row})
             /\ e[row] = Sum(Amounts, {i \in S : class[i] = row})
             /\ c[row] \in Int /\ d[row] \in Int /\ e[row] \in Int
  <2> DEFINE R == {i \in S : class[i] = row}
  <2>1. R = InRow(group, a, f, row)
    BY DEF InRow
  <2>2. /\ R \in SUBSET DOMAIN entries /\ IsFiniteSet(R)
        /\ c[row] = Cardinality(R) /\ d[row] = SecondsOf(R) /\ e[row] = CentsOf(R)
    <3>1. c[row] = r[row].count /\ d[row] = r[row].seconds /\ e[row] = r[row].cents
      OBVIOUS
    <3> HIDE DEF R, S, class, c, d, e
    <3> QED
      BY <2>1, <3>1, ReportRows
  <2> HIDE DEF R, S, r, class, c, d, e, B
  <2>3. \A i \in R : Ones[i] = 1 /\ Ones[i] \in Int /\ Seconds[i] \in Int /\ Amounts[i] \in Int
    BY <2>2, Countable DEF Ones
  <2>4. c[row] = Sum(Ones, R)
    BY <2>2, <2>3, SumOfOnes
  <2>5. d[row] = Sum(Seconds, R) /\ e[row] = Sum(Amounts, R)
    BY <2>2, SecondsAreSum, CentsAreSum
  <2>6. Sum(Ones, R) \in Int /\ Sum(Seconds, R) \in Int /\ Sum(Amounts, R) \in Int
    BY <2>2, <2>3, SumType
  <2> QED
    BY <2>4, <2>5, <2>6 DEF R
<1>5. /\ IsFiniteSet(S)
      /\ \A i \in S : Ones[i] = 1 /\ Ones[i] \in Int /\ Seconds[i] \in Int /\ Amounts[i] \in Int
  BY <1>1, Countable DEF Ones
<1>6. \A row \in B : c[row] = r[row].count /\ d[row] = r[row].seconds /\ e[row] = r[row].cents
  OBVIOUS
<1>7. IsFiniteSet(B)
  OBVIOUS
<1> HIDE DEF S, B, r, class, c, d, e
<1>8. Whole(group, a, f) = <<Sum(c, B), Sum(d, B), Sum(e, B)>>
  <2>1. HasColumns(r, B, c, d, e)
    BY <1>2, <1>4, <1>6 DEF HasColumns
  <2> QED
    BY <1>3, <1>7, <2>1, RowsFold
<1>9. Sum(c, B) = Sum(Ones, S)
  <2>1. SumsClasses(c, B, Ones, S, class)
    BY <1>1, <1>4, <1>5 DEF SumsClasses
  <2> QED
    BY <1>5, <1>7, <2>1, SumByClass
<1>10. Sum(d, B) = Sum(Seconds, S)
  <2>1. SumsClasses(d, B, Seconds, S, class)
    BY <1>1, <1>4, <1>5 DEF SumsClasses
  <2> QED
    BY <1>5, <1>7, <2>1, SumByClass
<1>11. Sum(e, B) = Sum(Amounts, S)
  <2>1. SumsClasses(e, B, Amounts, S, class)
    BY <1>1, <1>4, <1>5 DEF SumsClasses
  <2> QED
    BY <1>5, <1>7, <2>1, SumByClass
<1>12. /\ Sum(Ones, S) = Cardinality(S) /\ Sum(Seconds, S) = SecondsOf(S)
       /\ Sum(Amounts, S) = CentsOf(S)
  BY <1>1, <1>5, SumOfOnes, SecondsAreSum, CentsAreSum
<1> QED
  BY <1>8, <1>9, <1>10, <1>11, <1>12 DEF S

Groups == {"user", "customer", "project", "activity"}

LEMMA GroupsAreFinite == \A group \in Groups : IsFiniteSet(GroupRows[group])
BY TablesAssumption DEF Groups, GroupRows

\* As long as no form has moved a row, the rows of these kinds report the same entries.
LEMMA SettledReportsTheSame ==
    ASSUME TypeOK, Settled, NEW a, NEW f, NEW group \in Groups
    PROVE  Reported(group, a, f) = Reported("user", a, f)
<1>1. ASSUME NEW i \in DOMAIN entries
      PROVE  /\ entries[i]["user"] \in Users /\ entries[i]["customer"] \in Customers
             /\ entries[i]["project"] \in Projects /\ entries[i]["activity"] \in Activities
             /\ place[entries[i]["customer"]] = entries[i].ws
             /\ place[entries[i]["project"]] = entries[i].ws
             /\ place[entries[i]["activity"]] = entries[i].ws
  <2>1. entries[i] \in Entry
    BY DEF TypeOK
  <2> QED
    BY <2>1 DEF Entry, Settled
<1>2. /\ GroupRows["user"] = Users /\ GroupRows["customer"] = Customers
      /\ GroupRows["project"] = Projects /\ GroupRows["activity"] = Activities
  BY DEF GroupRows
<1>3. CASE group = "user"
  BY <1>3
<1>4. CASE group = "customer"
  BY <1>1, <1>2, <1>4 DEF Reported
<1>5. CASE group = "project"
  BY <1>1, <1>2, <1>5 DEF Reported
<1>6. CASE group = "activity"
  BY <1>1, <1>2, <1>6 DEF Reported
<1> QED
  BY <1>3, <1>4, <1>5, <1>6 DEF Groups

LEMMA SettledReportsAgree ==
    ASSUME TypeOK, Settled, NEW a, NEW f, NEW group \in {"customer", "project", "activity"}
    PROVE  Whole(group, a, f) = Whole("user", a, f)
<1>1. group \in Groups /\ "user" \in Groups
  BY DEF Groups
<1>2. IsFiniteSet(GroupRows[group]) /\ IsFiniteSet(GroupRows["user"])
  BY <1>1, GroupsAreFinite
<1>3. Reported(group, a, f) = Reported("user", a, f)
  BY <1>1, SettledReportsTheSame
<1> QED
  BY <1>2, <1>3, WholeIsSums

LEMMA NoFilterLetsPass == \A e : ReportFilter(NoFilter, e)
BY DEF ReportFilter, NoFilter

\* The dashboard counts nothing outside the report's scope.
LEMMA DashboardInScope ==
    ASSUME TypeOK, NEW a
    PROVE  ActiveTimers(a) \cup Unexported(a) \subseteq Reported("user", a, NoFilter)
<1>1. \A i \in DOMAIN entries : entries[i]["user"] \in Users
  <2>1. \A i \in DOMAIN entries : entries[i] \in Entry
    BY DEF TypeOK
  <2> QED
    BY <2>1 DEF Entry
<1>2. \A e : DashboardScope(a, e) => ReportScope(a, e)
  BY DEF DashboardScope, ReportScope
<1>3. GroupRows["user"] = Users
  BY DEF GroupRows
<1> QED
  BY <1>1, <1>2, <1>3, NoFilterLetsPass DEF ActiveTimers, Unexported, UnbilledOf, Reported

\* For whoever sees all, the report of groups is that of their members.
LEMMA GroupsAgree ==
    ASSUME TypeOK, NEW a, SeesAll(a), NEW g \in DOMAIN GroupMembers
    PROVE  GroupReport(g) = Total(ListReports("user", a, NoFilter), LAMBDA x : x.seconds, GroupMembers[g])
<1> DEFINE M == GroupMembers[g]
           S == {i \in DOMAIN entries : entries[i].user \in M /\ entries[i].ws = Home}
           class == [i \in S |-> entries[i].user]
           r == ListReports("user", a, NoFilter)
           k == [u \in M |-> SecondsOf({i \in S : class[i] = u})]
<1>1. M \subseteq Users /\ IsFiniteSet(M)
  BY TablesAssumption, FS_Subset
<1>2. S \in SUBSET DOMAIN entries /\ IsFiniteSet(S) /\ \A i \in S : Seconds[i] \in Int /\ class[i] \in M
  BY Countable
<1>3. GroupRows["user"] = Users
  BY DEF GroupRows
<1>4. ASSUME NEW u \in M
      PROVE  k[u] = r[u].seconds /\ k[u] = Sum(Seconds, {i \in S : class[i] = u})
  <2> DEFINE R == InRow("user", a, NoFilter, u)
  <2>1. {i \in S : class[i] = u} = R
    BY <1>1, <1>3, NoFilterLetsPass DEF Reported, ReportScope, InRow
  <2>2. u \in GroupRows["user"]
    BY <1>1, <1>3
  <2>3. r[u].seconds = SecondsOf(R) /\ R \in SUBSET DOMAIN entries
    BY <2>2, ReportRows
  <2>4. k[u] = SecondsOf(R)
    <3> HIDE DEF R, S, class
    <3> QED
      BY <2>1
  <2> HIDE DEF R, S, class, k
  <2> QED
    BY <2>1, <2>3, <2>4, SecondsAreSum
<1> HIDE DEF M, S, class, r, k
<1>5. Sum(k, M) = Sum(Seconds, S)
  <2>1. SumsClasses(k, M, Seconds, S, class)
    BY <1>2, <1>4 DEF SumsClasses
  <2> QED
    BY <1>1, <1>2, <2>1, SumByClass
<1>6. Total(r, LAMBDA x : x.seconds, M) = Sum(k, M)
  <2>1. \A u \in M : k[u] = r[u].seconds
    BY <1>4
  <2>2. IsFiniteSet(M)
    BY <1>1
  <2> QED
    BY <2>1, <2>2, TotalSeconds
<1>7. GroupReport(g) = SecondsOf(S)
  BY DEF GroupReport, S, M
<1> QED
  BY <1>2, <1>5, <1>6, <1>7, SecondsAreSum DEF M, r

\* And the row of a project is its dashboard, which leaves out what is still running.
LEMMA ProjectsAgree ==
    ASSUME TypeOK, Settled, NEW a, SeesAll(a), NEW p \in Projects
    PROVE  ListReports("project", a, NoFilter)[p].seconds = ProjectDashboard(p, NoFilter).tracked
<1> DEFINE S == InRow("project", a, NoFilter, p)
           T == Ended(p, NoFilter)
<1>1. p \in GroupRows["project"]
  BY DEF GroupRows
<1>2. ListReports("project", a, NoFilter)[p].seconds = SecondsOf(S) /\ S \in SUBSET DOMAIN entries
  BY <1>1, ReportRows
<1>3. \A i \in DOMAIN entries : entries[i]["project"] = p =>
        (place[p] = Home <=> entries[i].ws = Home)
  BY DEF Settled
<1>4. S = {i \in DOMAIN entries : entries[i]["project"] = p /\ entries[i].ws = Home}
  BY <1>1, <1>3, NoFilterLetsPass DEF Reported, ReportScope, InRow
<1>5. \A i \in DOMAIN entries : ProjectDashboardFilter(NoFilter, entries[i])
  BY DEF ProjectDashboardFilter, NoFilter
<1>6. T \in SUBSET S /\ \A i \in S \ T : IsRunning(i)
  BY <1>4, <1>5 DEF Ended
<1>7. ProjectDashboard(p, NoFilter).tracked = SecondsOf(T)
  BY DEF ProjectDashboard
<1> HIDE DEF S, T
<1> QED
  BY <1>2, <1>6, <1>7, RunningCountNothing

\* Without two rates of a user and project that begin on the same day, an entry is joined once.
RatesDiffer == \A r, other \in DOMAIN rates : rates[r] = rates[other] => r = other

LEMMA JoinedOnce ==
    ASSUME TypeOK, RatesDiffer, NEW e
    PROVE  JoinedRows(e) = 1
<1>1. \A r \in DOMAIN rates : rates[r] \in [user : Users, project : Projects, from : Nat]
  BY TablesAssumption DEF TypeOK
<1>2. ASSUME NEW r \in LatestRates(e), NEW other \in LatestRates(e)
      PROVE  r = other
  <2>1. /\ r \in DOMAIN rates /\ other \in DOMAIN rates
        /\ rates[r].user = rates[other].user /\ rates[r].project = rates[other].project
        /\ rates[other].from <= rates[r].from /\ rates[r].from <= rates[other].from
    BY <1>2 DEF LatestRates
  <2>2. rates[r].from = rates[other].from
    BY <1>1, <2>1
  <2>3. rates[r] = rates[other]
    BY <1>1, <2>1, <2>2
  <2> QED
    BY <2>1, <2>3 DEF RatesDiffer
<1>3. CASE LatestRates(e) = {}
  BY <1>3 DEF JoinedRows
<1>4. CASE LatestRates(e) # {}
  <2>1. PICK r : LatestRates(e) = {r}
    BY <1>2, <1>4
  <2> QED
    BY <1>4, <2>1, FS_Singleton DEF JoinedRows
<1> QED
  BY <1>3, <1>4

JoinedSeconds(S) == MapThenSumSet(LAMBDA i : entries[i].seconds * JoinedRows(entries[i]), S)

LEMMA JoinedSecondsAreSeconds ==
    ASSUME TypeOK, RatesDiffer, NEW S \in SUBSET DOMAIN entries
    PROVE  JoinedSeconds(S) = SecondsOf(S)
<1> DEFINE Eq(g) == g = [s \in SUBSET S |-> IF s = {} THEN 0
                           ELSE entries[Picked(s)].seconds * JoinedRows(entries[Picked(s)])
                                  + g[s \ {Picked(s)}]]
           count == CHOOSE g : Eq(g)
<1>1. IsFiniteSet(S)
  BY Countable
<1>2. \A s \in SUBSET S : s # {} =>
        Seconds[Picked(s)] = entries[Picked(s)].seconds * JoinedRows(entries[Picked(s)])
  <2> SUFFICES ASSUME NEW s \in SUBSET S, s # {}
               PROVE  Seconds[Picked(s)] = entries[Picked(s)].seconds * JoinedRows(entries[Picked(s)])
    OBVIOUS
  <2>1. Picked(s) \in DOMAIN entries
    BY DEF Picked
  <2>2. Seconds[Picked(s)] = entries[Picked(s)].seconds /\ Seconds[Picked(s)] \in Nat
    BY <2>1, Countable
  <2>3. JoinedRows(entries[Picked(s)]) = 1
    BY JoinedOnce
  <2> QED
    BY <2>2, <2>3
<1>3. JoinedSeconds(S) = count[S]
  BY DEF JoinedSeconds, MapThenSumSet, MapThenFoldSet, Picked
<1>4. \E g : Eq(g)
  <2>1. PICK g : Iterates(g, Seconds, S)
    BY <1>1, SomeIteration
  <2>2. Eq(g)
    BY <1>2, <2>1 DEF Iterates
  <2> QED
    BY <2>2
<1>5. Eq(count)
  <2> HIDE DEF Eq
  <2> QED
    BY <1>4
<1> HIDE DEF count
<1>6. Counts(count, Seconds, S)
  BY <1>2, <1>5 DEF Adds, Counts
<1> QED
  BY <1>1, <1>3, <1>6, CountsAsSum, SecondsAreSum

\* Then the utilization of a user is his row of the report of users, and its parts add up.
LEMMA UtilizationAgrees ==
    ASSUME TypeOK, RatesDiffer, NEW a \in Viewers, NEW u \in UtilizedUsers(a)
    PROVE  LET t == UtilizationReport(a, NoFilter)[u]
           IN  /\ t.total = t.billable + t.other
               /\ t.total = ListReports("user", a, NoFilter)[u].seconds
<1> DEFINE S == Utilized(a, NoFilter, u)
           R == InRow("user", a, NoFilter, u)
           t == UtilizationReport(a, NoFilter)[u]
<1>1. u \in Users /\ u \in GroupRows["user"]
  BY TablesAssumption DEF UtilizedUsers, GroupRows
<1>2. /\ t.total = JoinedSeconds(S) /\ t.billable = JoinedSeconds(BillableOf(S))
      /\ t.other = JoinedSeconds(S \ BillableOf(S))
  BY <1>1 DEF UtilizationReport, JoinedSeconds
<1>3. \A i \in DOMAIN entries : UtilizationFilter(NoFilter, entries[i])
  BY DEF UtilizationFilter, NoFilter
<1>4. \A i \in DOMAIN entries : entries[i]["user"] = u => ReportScope(a, entries[i])
  BY DEF UtilizedUsers, ReportScope, SeesAll
<1>5. R = {i \in DOMAIN entries : entries[i]["user"] = u /\ entries[i].ws = Home}
  BY <1>1, <1>4, NoFilterLetsPass DEF InRow, Reported
<1>6. S \in SUBSET R /\ R \in SUBSET DOMAIN entries /\ \A i \in R \ S : IsRunning(i)
  BY <1>3, <1>5 DEF Utilized
<1>7. ListReports("user", a, NoFilter)[u].seconds = SecondsOf(R)
  BY <1>1, ReportRows
<1> HIDE DEF S, R, t
<1>8. SecondsOf(R) = SecondsOf(S)
  BY <1>6, RunningCountNothing
<1>9. /\ S \in SUBSET DOMAIN entries /\ BillableOf(S) \in SUBSET S
      /\ BillableOf(S) \in SUBSET DOMAIN entries /\ S \ BillableOf(S) \in SUBSET DOMAIN entries
      /\ IsFiniteSet(S) /\ \A i \in S : Seconds[i] \in Int
  BY <1>6, Countable DEF BillableOf
<1>10. /\ t.total = SecondsOf(S) /\ t.billable = SecondsOf(BillableOf(S))
       /\ t.other = SecondsOf(S \ BillableOf(S))
  BY <1>2, <1>9, JoinedSecondsAreSeconds
<1>11. Sum(Seconds, S) = Sum(Seconds, BillableOf(S)) + Sum(Seconds, S \ BillableOf(S))
  BY <1>9, SumOfParts
<1>12. /\ SecondsOf(S) = Sum(Seconds, S) /\ SecondsOf(BillableOf(S)) = Sum(Seconds, BillableOf(S))
       /\ SecondsOf(S \ BillableOf(S)) = Sum(Seconds, S \ BillableOf(S))
  BY <1>9, SecondsAreSum
<1> QED
  BY <1>7, <1>8, <1>10, <1>11, <1>12 DEF t

LEMMA PagesAgree == TypeOK => ReportsAgree
<1> SUFFICES ASSUME TypeOK PROVE ReportsAgree
  OBVIOUS
<1>1. ASSUME Settled, NEW a \in Viewers, NEW f
      PROVE  LET whole == Whole("user", a, f)
             IN  \A group \in {"customer", "project", "activity"} : Whole(group, a, f) = whole
  BY <1>1, SettledReportsAgree
<1>2. ASSUME NEW a \in Viewers
      PROVE  ActiveTimers(a) \cup Unexported(a) \subseteq Reported("user", a, NoFilter)
  BY DashboardInScope
<1>3. ASSUME NEW a \in Viewers, SeesAll(a)
      PROVE  LET users == ListReports("user", a, NoFilter)
             IN  /\ \A g \in DOMAIN GroupMembers :
                      GroupReport(g) = Total(users, LAMBDA x : x.seconds, GroupMembers[g])
                 /\ Settled => \A p \in Projects :
                      ListReports("project", a, NoFilter)[p].seconds = ProjectDashboard(p, NoFilter).tracked
  <2>1. ASSUME NEW g \in DOMAIN GroupMembers
        PROVE  GroupReport(g) = Total(ListReports("user", a, NoFilter), LAMBDA x : x.seconds, GroupMembers[g])
    BY <1>3, GroupsAgree
  <2>2. ASSUME Settled, NEW p \in Projects
        PROVE  ListReports("project", a, NoFilter)[p].seconds = ProjectDashboard(p, NoFilter).tracked
    BY <1>3, <2>2, ProjectsAgree
  <2> QED
    BY <2>1, <2>2
<1>4. ASSUME NEW a \in Viewers, \A r, other \in DOMAIN rates : rates[r] = rates[other] => r = other
      PROVE  \A u \in UtilizedUsers(a) :
               LET t == UtilizationReport(a, NoFilter)[u]
               IN  /\ t.total = t.billable + t.other
                   /\ t.total = ListReports("user", a, NoFilter)[u].seconds
  BY <1>4, UtilizationAgrees DEF RatesDiffer
<1> QED
  BY <1>1, <1>2, <1>3, <1>4 DEF ReportsAgree

\* Every breakdown of a project's dashboard adds up to its totals and the watchlist shows
\* the same ones, for any number of entries and whatever was moved or deleted under them.
THEOREM DashboardsAreSums == Spec => []DashboardsAddUp
BY TypeCorrect, PagesAddUp, PTL

\* The reports by user, customer, project and activity, the dashboards, the groups and the
\* utilization agree on the entries they share, for every filter and viewer.
THEOREM ReportsAreSums == Spec => []ReportsAgree
BY TypeCorrect, PagesAgree, PTL
=============================================================================
