--------------------------- MODULE ProjectSetupProofs ---------------------------
(***************************************************************************)
(* Theorems about ProjectSetup and the module Catalogue it extends, for    *)
(* every set of handlers, workspaces, names and users, every first state   *)
(* of the tables, drafts and templates, and all bounds.                    *)
(*                                                                         *)
(* A step of any request keeps the rows that are stored (Kept), numbers    *)
(* those it adds within the count of their workspace (NewRows), and leaves *)
(* the requests it does not serve as they are (Stays); what a request      *)
(* knows of the tables is stated so that it survives both. NumbersExplained*)
(* and EntriesFit follow from the invariant IInv, and SetupIsWhole from    *)
(* what CreateProjectFromDraft and CreateProjectFromTemplate store in one  *)
(* transaction.                                                            *)
(***************************************************************************)
EXTENDS ProjectSetup, SequenceTheorems, FiniteSetTheorems, TLAPS

-----------------------------------------------------------------------------
(* The strengthening.                                                      *)

Moved(k, i) == <<k, i>> \in moved
Left(k, w)  == <<k, w>> \in left

\* The rows of workspace w among the first n of a table.
RowsOf(table, n, w) == {i \in 1..n : table[i].ws = w}
Count(table, n, w)  == Cardinality(RowsOf(table, n, w))

\* Only workstreams are deleted.
RowsLive == \A k \in Kinds \ {"workstreams"} : \A i \in DOMAIN rows[k] : rows[k][i].ws # 0

\* A generated number was counted from rows stored before, and is no larger than the rows
\* of the workspace up to its own, while none has left and this one was not moved.
Bounded(k, i) ==
    LET row == rows[k][i]
    IN  /\ row.after < i
        /\ row.number > 0 => \/ Left(k, row.ws) \/ Moved(k, i)
                             \/ row.number <= Count(rows[k], i, row.ws)
NumbersBounded == \A k \in Kinds : \A i \in DOMAIN rows[k] : Bounded(k, i)

\* What NumbersExplained says of the later row of a pair.
Explained(k, j) ==
    \A i \in DOMAIN rows[k] :
        LET a == rows[k][i]  b == rows[k][j]
        IN  i < j /\ a.ws = b.ws /\ a.number = b.number /\ b.number > 0
            => b.after < i \/ Left(k, b.ws) \/ Moved(k, i) \/ Moved(k, j)

\* A form that has a statement to go names rows that exist.
FormKnown(p) ==
    /\ pc[p] \in {"upsert", "insert"} =>
          /\ req[p].kind \in Kinds /\ req[p].ws \in Workspaces
          /\ req[p].id \in 0..Len(rows[req[p].kind]) /\ req[p].project \in 0..Len(Projects)
    /\ pc[p] = "upsert" => req[p].number = 0 /\ req[p].after = 0
    /\ pc[p] = "insert" => req[p].after <= Len(rows[req[p].kind])
    /\ pc[p] \in {"list", "assign"} => req[p].ws \in Workspaces /\ req[p].project \in DOMAIN Projects

\* A number that is about to be stored is larger than those of the rows it was counted from.
NumberFresh(p) ==
    pc[p] = "insert" /\ req[p].number > 0 =>
        LET k == req[p].kind  w == req[p].ws
        IN  /\ req[p].after <= Len(rows[k])
            /\ \/ Left(k, w)
               \/ /\ req[p].number <= Count(rows[k], req[p].after, w) + 1
                  /\ \A i \in 1..req[p].after :
                       rows[k][i].ws = w => Moved(k, i) \/ rows[k][i].number < req[p].number

\* What a selection names, and what the checks found stays so unless a form moves it.
Known(e) ==
    /\ e \in Entry /\ e.project \in DOMAIN Projects /\ e.activity \in DOMAIN Activities
    /\ e.task \in 0..Len(Tasks)
ProjectStays(e)    == Moved("projects", e.project) \/ ProjectFits(e)
ActivityStays(e)   == Moved("activities", e.activity) \/ ActivityFits(e)
WorkstreamStays(e) == e.workstream # 0 => <<e.project, e.workstream>> \in assigned \cup dropped
TaskStays(e)       == Moved("tasks", e.task) \/ TaskFits(e)

SelectionHolds(p) ==
    LET e == req[p].entry
    IN  /\ pc[p] \in {"track", "activity", "workstreams", "task", "record"} =>
              Known(e) /\ ProjectStays(e)
        /\ pc[p] \in {"workstreams", "task", "record"} => ActivityStays(e)
        /\ pc[p] \in {"task", "record"} => WorkstreamStays(e)
        /\ pc[p] = "record" => TaskStays(e)

EntryHolds(e) ==
    Known(e) /\ ProjectStays(e) /\ ActivityStays(e) /\ WorkstreamStays(e) /\ TaskStays(e)
EntriesHold == \A e \in entries : EntryHolds(e)

\* A draft that was accepted names workstreams of its workspace, or deleted ones; a template
\* that is being read exists.
DraftKnown(p) ==
    pc[p] = "create" =>
        /\ req[p].ws \in Workspaces
        /\ \A i \in draft[p].workstreams \cap Ids :
             i \in DOMAIN Workstreams /\ Workstreams[i].ws \in {req[p].ws, 0}
CopyKnown(p) ==
    pc[p] \in {"template tasks", "template activities", "template customer", "copy"} =>
        copy[p].ws \in Workspaces /\ copy[p].id \in DOMAIN templates

RequestHolds(p) ==
    FormKnown(p) /\ NumberFresh(p) /\ SelectionHolds(p) /\ DraftKnown(p) /\ CopyKnown(p)

IInv ==
    /\ TypeOK /\ RowsLive /\ NumbersBounded /\ NumbersExplained /\ EntriesHold
    /\ \A p \in Handlers : RequestHolds(p)

-----------------------------------------------------------------------------
(* Tables.                                                                 *)

LEMMA Appended ==
    ASSUME NEW S, NEW s \in Seq(S), NEW e \in S
    PROVE  /\ Append(s, e) \in Seq(S) /\ Len(Append(s, e)) = Len(s) + 1
           /\ DOMAIN Append(s, e) = DOMAIN s \cup {Len(s) + 1}
           /\ \A i \in DOMAIN s : Append(s, e)[i] = s[i]
           /\ Append(s, e)[Len(s) + 1] = e
OBVIOUS

LEMMA Replaced ==
    ASSUME NEW S, NEW s \in Seq(S), NEW i \in DOMAIN s, NEW e \in S
    PROVE  /\ [s EXCEPT ![i] = e] \in Seq(S) /\ Len([s EXCEPT ![i] = e]) = Len(s)
           /\ DOMAIN [s EXCEPT ![i] = e] = DOMAIN s
           /\ \A j \in DOMAIN s : [s EXCEPT ![i] = e][j] = IF j = i THEN e ELSE s[j]
BY ExceptSeq, LenProperties

LEMMA ElementTypes ==
    ASSUME NEW S, NEW s \in Seq(S), NEW i \in DOMAIN s
    PROVE  s[i] \in S /\ i \in Nat /\ i > 0 /\ i <= Len(s)
BY LenProperties, ElementOfSeq

LEMMA TableDomain ==
    ASSUME NEW S, NEW s \in Seq(S)
    PROVE  DOMAIN s = 1..Len(s) /\ Len(s) \in Nat
BY LenProperties

\* The order of a set: each element has one place.
LEMMA SetInOrder ==
    ASSUME NEW S, IsFiniteSet(S)
    PROVE  /\ Cardinality(S) \in Nat /\ SetToSeq(S) \in Seq(S)
           /\ DOMAIN SetToSeq(S) = 1..Cardinality(S) /\ Len(SetToSeq(S)) = Cardinality(S)
           /\ \A i, j \in 1..Cardinality(S) : SetToSeq(S)[i] = SetToSeq(S)[j] => i = j
           /\ \A x \in S : \E i \in 1..Cardinality(S) : SetToSeq(S)[i] = x
<1> DEFINE n == Cardinality(S)
           f == SetToSeq(S)
<1>1. n \in Nat /\ ExistsBijection(1..n, S)
  BY FS_CardinalityType
<1>2. PICK g : g \in Bijection(1..n, S)
  BY <1>1 DEF ExistsBijection
<1>3. g \in [1..n -> S] /\ IsInjective(g)
  BY <1>2 DEF Bijection, Injection, IsInjective
<1>4. f \in [1..n -> S] /\ IsInjective(f)
  BY <1>3 DEF SetToSeq
<1>5. \A i, j \in 1..n : f[i] = f[j] => i = j
  BY <1>4 DEF IsInjective
<1>6. f \in Injection(1..n, S)
  BY <1>4 DEF Injection
<1>7. Cardinality(1..n) = n
  BY <1>1, FS_Interval
<1>8. f \in Surjection(1..n, S)
  BY <1>6, <1>7, FS_Injection
<1>9. \A x \in S : \E i \in 1..n : f[i] = x
  BY <1>8 DEF Surjection
<1>10. f \in Seq(S) /\ DOMAIN f = 1..n /\ Len(f) = n
  BY <1>1, <1>4
<1> QED
  BY <1>1, <1>5, <1>9, <1>10

-----------------------------------------------------------------------------
(* Counting the rows of a workspace.                                       *)

LEMMA Counted ==
    ASSUME NEW table, NEW n \in Nat, NEW w
    PROVE  /\ IsFiniteSet(RowsOf(table, n, w))
           /\ Count(table, n, w) \in 0..n
<1> DEFINE S == RowsOf(table, n, w)
<1>1. IsFiniteSet(1..n) /\ Cardinality(1..n) = n
  BY FS_Interval
<1>2. IsFiniteSet(S) /\ Cardinality(S) <= n
  <2>1. S \in SUBSET (1..n)
    BY DEF RowsOf
  <2> QED
    BY <1>1, <2>1, FS_Subset
<1>3. Cardinality(S) \in Nat
  BY <1>2, FS_CardinalityType
<1> QED
  BY <1>2, <1>3 DEF Count

LEMMA CountOfMore ==
    ASSUME NEW table, NEW m \in Nat, NEW n \in Nat, m <= n, NEW w
    PROVE  Count(table, m, w) <= Count(table, n, w)
<1> DEFINE S == RowsOf(table, m, w)
           T == RowsOf(table, n, w)
<1>1. IsFiniteSet(T)
  BY Counted
<1>2. S \in SUBSET T
  BY DEF RowsOf
<1>3. Cardinality(S) <= Cardinality(T)
  BY <1>1, <1>2, FS_Subset
<1> QED
  BY <1>3 DEF Count

LEMMA CountOfNext ==
    ASSUME NEW table, NEW n \in Nat, NEW w, table[n + 1].ws = w
    PROVE  Count(table, n + 1, w) = Count(table, n, w) + 1
<1> DEFINE S == RowsOf(table, n, w)
           T == RowsOf(table, n + 1, w)
<1>1. IsFiniteSet(S)
  BY Counted
<1>2. T = S \cup {n + 1} /\ n + 1 \notin S
  BY DEF RowsOf
<1>3. Cardinality(T) = Cardinality(S) + 1
  BY <1>1, <1>2, FS_AddElement
<1> QED
  BY <1>3 DEF Count

\* The count of a workspace that no row has left.
LEMMA CountKept ==
    ASSUME NEW table, NEW later, NEW n \in Nat, NEW w,
           \A i \in 1..n : table[i].ws = w => later[i].ws = w
    PROVE  Count(table, n, w) <= Count(later, n, w)
<1> DEFINE S == RowsOf(table, n, w)
           T == RowsOf(later, n, w)
<1>1. IsFiniteSet(T)
  BY Counted
<1>2. S \in SUBSET T
  BY DEF RowsOf
<1>3. Cardinality(S) <= Cardinality(T)
  BY <1>1, <1>2, FS_Subset
<1> QED
  BY <1>3 DEF Count

LEMMA CountOfSame ==
    ASSUME NEW table, NEW later, NEW n \in Nat, NEW w,
           \A i \in 1..n : table[i].ws = later[i].ws
    PROVE  Count(table, n, w) = Count(later, n, w)
<1>1. RowsOf(table, n, w) = RowsOf(later, n, w)
  BY DEF RowsOf
<1> QED
  BY <1>1 DEF Count

LEMMA CountOfPrefix ==
    ASSUME NEW table \in Seq(Row), NEW n \in 0..Len(table), NEW w
    PROVE  /\ CountIn(SubSeq(table, 1, n), w) = Count(table, n, w)
           /\ CountIn(table, w) = Count(table, Len(table), w)
<1> DEFINE part == SubSeq(table, 1, n)
<1>1. n \in Nat /\ DOMAIN part = 1..n /\ \A i \in 1..n : part[i] = table[i]
  BY LenProperties
<1>2. {i \in DOMAIN part : part[i].ws = w} = RowsOf(table, n, w)
  BY <1>1 DEF RowsOf
<1>3. DOMAIN table = 1..Len(table)
  BY LenProperties
<1> QED
  BY <1>2, <1>3 DEF CountIn, Count, RowsOf

-----------------------------------------------------------------------------
(* Rows.                                                                   *)

LEMMA UnnumberedRow ==
    ASSUME NEW w \in Workspaces \cup {0}, NEW of \in Ids, NEW name \in Names \cup {"none"}
    PROVE  /\ Unnumbered(w, of, name) \in Row
           /\ Unnumbered(w, of, name).ws = w /\ Unnumbered(w, of, name).of = of
           /\ Unnumbered(w, of, name).name = name
           /\ Unnumbered(w, of, name).number = 0 /\ Unnumbered(w, of, name).after = 0
BY CatalogueAssumption DEF Unnumbered, Row, Ids

LEMMA Concatenated ==
    ASSUME NEW S, NEW s \in Seq(S), NEW t \in Seq(S)
    PROVE  /\ s \o t \in Seq(S) /\ Len(s \o t) = Len(s) + Len(t)
           /\ DOMAIN (s \o t) = 1..(Len(s) + Len(t))
           /\ \A i \in DOMAIN s : (s \o t)[i] = s[i]
           /\ \A i \in (Len(s) + 1)..(Len(s) + Len(t)) :
                (s \o t)[i] = t[i - Len(s)] /\ i - Len(s) \in DOMAIN t
<1>1. Len(s) \in Nat /\ Len(t) \in Nat /\ DOMAIN s = 1..Len(s) /\ DOMAIN t = 1..Len(t)
  BY LenProperties
<1>2. s \o t \in Seq(S) /\ Len(s \o t) = Len(s) + Len(t)
  BY ConcatProperties
<1>3. \A i \in 1..(Len(s) + Len(t)) :
        (s \o t)[i] = IF i <= Len(s) THEN s[i] ELSE t[i - Len(s)]
  BY ConcatProperties
<1>4. DOMAIN (s \o t) = 1..(Len(s) + Len(t))
  BY <1>2, LenProperties
<1> QED
  BY <1>1, <1>2, <1>3, <1>4

\* A function on the first numbers is a sequence.
LEMMA SequenceOf ==
    ASSUME NEW S, NEW n \in Nat, NEW f \in [1..n -> S]
    PROVE  f \in Seq(S)
OBVIOUS

LEMMA LengthOf ==
    ASSUME NEW n \in Nat, NEW f, DOMAIN f = 1..n
    PROVE  Len(f) = n
OBVIOUS

\* Storing rows one after the other: what was there stays, and each new row has the number
\* that its predecessors make the next.
LEMMA StoredOneByOne ==
    ASSUME NEW table \in Seq(Row), NEW new \in Seq(Row), Len(StoreNumbered(table, new)) <= MaxRows
    PROVE  /\ StoreNumbered(table, new) \in Seq(Row)
           /\ Len(StoreNumbered(table, new)) = Len(table) + Len(new)
           /\ \A i \in DOMAIN table : StoreNumbered(table, new)[i] = table[i]
           /\ \A i \in (Len(table) + 1)..(Len(table) + Len(new)) :
                LET row == StoreNumbered(table, new)[i]
                IN  /\ i - Len(table) \in DOMAIN new
                    /\ row.ws = new[i - Len(table)].ws /\ row.of = new[i - Len(table)].of
                    /\ row.name = new[i - Len(table)].name
                    /\ row.after = i - 1
                    /\ row.number = Count(StoreNumbered(table, new), i - 1, row.ws) + 1
<1> DEFINE all == table \o new
           s   == StoreNumbered(table, new)
           n   == Len(table) + Len(new)
           number(i) == generateEntityID(SubSeq(all, 1, i - 1), all[i].ws)
<1>1. /\ all \in Seq(Row) /\ Len(all) = n /\ DOMAIN all = 1..n
      /\ \A i \in DOMAIN table : all[i] = table[i]
      /\ \A i \in (Len(table) + 1)..n : all[i] = new[i - Len(table)] /\ i - Len(table) \in DOMAIN new
  BY Concatenated
<1>2. n \in Nat /\ Len(table) \in Nat /\ Len(new) \in Nat /\ DOMAIN table = 1..Len(table)
  BY LenProperties
<1>3. s = [i \in 1..n |-> IF i <= Len(table) THEN table[i]
                          ELSE [all[i] EXCEPT !.number = number(i), !.after = i - 1]]
  BY <1>1 DEF StoreNumbered
<1> HIDE DEF s, all
<1>4. Len(s) = n /\ DOMAIN s = 1..n
  <2>1. DOMAIN s = 1..n
    BY <1>3
  <2> QED
    BY <1>2, <2>1, LengthOf
<1>5. n <= MaxRows
  BY <1>4 DEF s
<1>6. ASSUME NEW i \in (Len(table) + 1)..n
      PROVE  /\ number(i) = Count(all, i - 1, all[i].ws) + 1 /\ number(i) \in 0..MaxRows + 1
             /\ all[i] \in Row /\ i \in 1..n /\ i - 1 \in 0..MaxRows
  <2>1. i \in 1..n /\ i - 1 \in 0..Len(all) /\ i - 1 \in Nat /\ ~(i <= Len(table))
    BY <1>1, <1>2
  <2>2. CountIn(SubSeq(all, 1, i - 1), all[i].ws) = Count(all, i - 1, all[i].ws)
    BY <1>1, <2>1, CountOfPrefix
  <2>3. Count(all, i - 1, all[i].ws) \in 0..(i - 1)
    BY <2>1, Counted
  <2>4. all[i] \in Row
    BY <1>1, <2>1, ElementTypes
  <2>5. number(i) = Count(all, i - 1, all[i].ws) + 1
    BY <2>2 DEF generateEntityID
  <2> QED
    BY <1>2, <1>5, <2>1, <2>3, <2>4, <2>5, CatalogueAssumption
<1>7. \A i \in (Len(table) + 1)..n :
        /\ s[i] = [all[i] EXCEPT !.number = number(i), !.after = i - 1]
        /\ s[i] \in Row /\ s[i].ws = all[i].ws /\ s[i].of = all[i].of /\ s[i].name = all[i].name
        /\ s[i].after = i - 1 /\ s[i].number = number(i)
  <2> SUFFICES ASSUME NEW i \in (Len(table) + 1)..n
               PROVE  /\ s[i] = [all[i] EXCEPT !.number = number(i), !.after = i - 1]
                      /\ s[i] \in Row /\ s[i].ws = all[i].ws /\ s[i].of = all[i].of /\ s[i].name = all[i].name
                      /\ s[i].after = i - 1 /\ s[i].number = number(i)
    OBVIOUS
  <2>1. i \in 1..n /\ ~(i <= Len(table))
    BY <1>2
  <2>2. s[i] = [all[i] EXCEPT !.number = number(i), !.after = i - 1]
    BY <1>3, <2>1
  <2> HIDE DEF number
  <2> QED
    BY <1>6, <2>2 DEF Row
<1>8. \A i \in DOMAIN table : s[i] = table[i] /\ i \in 1..n
  <2> SUFFICES ASSUME NEW i \in DOMAIN table PROVE s[i] = table[i] /\ i \in 1..n
    OBVIOUS
  <2>1. i \in 1..n /\ i <= Len(table)
    BY <1>2
  <2> HIDE DEF number
  <2> QED
    BY <1>3, <2>1
<1>9. s \in Seq(Row)
  <2>1. \A i \in 1..n : s[i] \in Row
    <3>1. \A i \in 1..n : i \in DOMAIN table \/ i \in (Len(table) + 1)..n
      BY <1>2
    <3> QED
      BY <1>7, <1>8, <3>1, ElementTypes
  <2> QED
    <3>1. s \in [1..n -> Row]
      <4>1. s = [i \in 1..n |-> s[i]]
        BY <1>3
      <4> QED
        BY <2>1, <4>1
    <3> QED
      BY <1>2, <3>1, SequenceOf
<1>10. \A i \in 1..n : s[i].ws = all[i].ws
  <2>1. \A i \in 1..n : i \in DOMAIN table \/ i \in (Len(table) + 1)..n
    BY <1>2
  <2> QED
    BY <1>1, <1>7, <1>8, <2>1
<1>11. ASSUME NEW i \in (Len(table) + 1)..n
       PROVE  s[i].number = Count(s, i - 1, s[i].ws) + 1
  <2>1. i - 1 \in Nat /\ \A j \in 1..(i - 1) : j \in 1..n
    BY <1>2
  <2>2. Count(s, i - 1, s[i].ws) = Count(all, i - 1, s[i].ws)
    BY <1>10, <2>1, CountOfSame
  <2> HIDE DEF number
  <2> QED
    BY <1>6, <1>7, <2>2
<1> HIDE DEF n, number
<1>12. /\ s \in Seq(Row) /\ Len(s) = n /\ \A i \in DOMAIN table : s[i] = table[i]
       /\ \A i \in (Len(table) + 1)..n :
            /\ i - Len(table) \in DOMAIN new
            /\ s[i].ws = new[i - Len(table)].ws /\ s[i].of = new[i - Len(table)].of
            /\ s[i].name = new[i - Len(table)].name
            /\ s[i].after = i - 1 /\ s[i].number = Count(s, i - 1, s[i].ws) + 1
  BY <1>1, <1>4, <1>7, <1>8, <1>9, <1>11
<1> QED
  BY <1>12 DEF s, n

-----------------------------------------------------------------------------
(* Who moves.                                                              *)

\* The step moves the request of p and no other.
MovesOnly(p) == pc' = [pc EXCEPT ![p] = pc'[p]] /\ req' = [req EXCEPT ![p] = req'[p]]

Served == pc \in [Handlers -> Stages \cup SetupStages] /\ req \in [Handlers -> Request]

LEMMA Moving ==
    ASSUME Served, NEW p \in Handlers,
           UNCHANGED pc \/ \E stage : Goto(p, stage),
           UNCHANGED req \/ \E r : req' = [req EXCEPT ![p] = r]
    PROVE  MovesOnly(p)
<1>1. pc' = [pc EXCEPT ![p] = pc'[p]]
  BY DEF Served, Goto
<1>2. req' = [req EXCEPT ![p] = req'[p]]
  BY DEF Served
<1> QED
  BY <1>1, <1>2 DEF MovesOnly

LEMMA Finishing ==
    ASSUME Served, NEW p \in Handlers, Finish(p)
    PROVE  MovesOnly(p) /\ pc'[p] = "idle"
<1>1. Goto(p, "idle") /\ req' = [req EXCEPT ![p] = NoRequest]
  BY DEF Finish
<1>2. MovesOnly(p)
  BY <1>1, Moving
<1> QED
  BY <1>1, <1>2 DEF Goto, Served

LEMMA UpsertMoves ==
    ASSUME Served, NEW p \in Handlers, NEW form, Upsert(p, form)
    PROVE  MovesOnly(p)
<1>1. CASE form.id = 0
  <2>1. Goto(p, "insert") /\ \E r : req' = [req EXCEPT ![p] = r]
    BY <1>1 DEF Upsert, NextNumber
  <2> QED
    BY <2>1, Moving
<1>2. CASE form.id # 0
  BY <1>2, Finishing DEF Upsert, Update
<1> QED
  BY <1>1, <1>2

LEMMA ArriveMoves ==
    ASSUME Served, NEW p \in Handlers, NEW form, NEW holds, NEW stage, Arrive(p, form, holds, stage)
    PROVE  MovesOnly(p)
BY Moving DEF Arrive

LEMMA FormMoves ==
    ASSUME Served, NEW p \in Handlers, Form(p)
    PROVE  MovesOnly(p)
<1>1. ASSUME NEW w, NEW id, saveCustomer(p, w, id) PROVE MovesOnly(p)
  BY <1>1, UpsertMoves DEF saveCustomer
<1>2. ASSUME NEW w, NEW id, NEW of, saveProject(p, w, id, of) PROVE MovesOnly(p)
  BY <1>2, ArriveMoves DEF saveProject
<1>3. ASSUME NEW w, NEW id, NEW of, saveActivity(p, w, id, of) PROVE MovesOnly(p)
  BY <1>3, ArriveMoves, UpsertMoves DEF saveActivity
<1>4. ASSUME NEW w, NEW id, NEW of, saveTask(p, w, id, of) PROVE MovesOnly(p)
  BY <1>4, ArriveMoves DEF saveTask
<1>5. ASSUME NEW w, NEW id, NEW name, saveWorkstream(p, w, id, name) PROVE MovesOnly(p)
  BY <1>5, UpsertMoves DEF saveWorkstream
<1>6. ASSUME NEW w, NEW id, DeleteWorkstream(p, w, id) PROVE MovesOnly(p)
  BY <1>6, Moving DEF DeleteWorkstream
<1>7. ASSUME NEW w, NEW id, NEW project,
             saveProjectWorkstream(p, w, project, id) \/ removeProjectWorkstream(p, w, project, id)
      PROVE  MovesOnly(p)
  BY <1>7, ArriveMoves DEF saveProjectWorkstream, removeProjectWorkstream
<1> QED
  BY <1>1, <1>2, <1>3, <1>4, <1>5, <1>6, <1>7 DEF Form

LEMMA GuardMoves ==
    ASSUME Served, NEW p \in Handlers, NEW holds, NEW stage, GuardedBy(p, holds, stage)
    PROVE  MovesOnly(p)
BY Moving, Finishing DEF GuardedBy

LEMMA ServeMoves ==
    ASSUME Served, NEW p \in Handlers, Serve(p)
    PROVE  MovesOnly(p)
<1>1. CASE UpsertStatement(p)
  BY <1>1, UpsertMoves DEF UpsertStatement
<1>2. CASE Insert(p)
  <2>1. \/ Finish(p)
        \/ (\E stage : Goto(p, stage)) /\ \E r : req' = [req EXCEPT ![p] = r]
    BY <1>2 DEF Insert
  <2> QED
    BY <2>1, Moving, Finishing
<1>3. CASE ListWorkstreams(p)
  <2>1. (\E stage : Goto(p, stage)) /\ \E r : req' = [req EXCEPT ![p] = r]
    BY <1>3 DEF ListWorkstreams
  <2> QED
    BY <2>1, Moving
<1>4. CASE UpsertProjectWorkstream(p) \/ RemoveProjectWorkstream(p) \/ CreateTimesheet(p)
  BY <1>4, Finishing DEF UpsertProjectWorkstream, RemoveProjectWorkstream, CreateTimesheet
<1>5. CASE TrackProject(p) \/ SelectActivity(p) \/ SelectTask(p)
  BY <1>5, GuardMoves DEF TrackProject, SelectActivity, SelectTask
<1>6. CASE SelectWorkstream(p)
  <2>1. \/ Finish(p)
        \/ (\E stage : Goto(p, stage)) /\ (UNCHANGED req \/ \E r : req' = [req EXCEPT ![p] = r])
    BY <1>6 DEF SelectWorkstream
  <2> QED
    BY <2>1, Moving, Finishing
<1> QED
  BY <1>1, <1>2, <1>3, <1>4, <1>5, <1>6 DEF Serve

-----------------------------------------------------------------------------
(* What every step keeps.                                                  *)

\* A row stays where it is with the number it has, or a form has moved it, or it was a
\* workstream that is deleted.
RowKept(k, i) ==
    LET old == rows[k][i]  new == rows'[k][i]
    IN  /\ new.after \in {0, old.after}
        /\ new.number # 0 => new.number = old.number /\ new.after = old.after
        /\ \/ new.ws = old.ws /\ (new.of = old.of \/ <<k, i>> \in moved')
           \/ k # "workstreams" /\ new.ws # 0 /\ <<k, i>> \in moved' /\ <<k, old.ws>> \in left'
           \/ k = "workstreams" /\ new.ws = 0 /\ new.number = 0 /\ <<k, old.ws>> \in left'

Kept ==
    /\ \A k \in Kinds : /\ Len(rows'[k]) >= Len(rows[k])
                        /\ \A i \in DOMAIN rows[k] : RowKept(k, i)
    /\ moved \subseteq moved' /\ left \subseteq left' /\ dropped \subseteq dropped'
    /\ assigned \subseteq assigned' \cup dropped'

NewRows ==
    \A k \in Kinds : \A i \in DOMAIN rows'[k] :
        i > Len(rows[k]) => rows'[k][i].ws \in Workspaces /\ Bounded(k, i)' /\ Explained(k, i)'

\* The tables alone.
TablesTyped ==
    /\ rows \in [Kinds -> Seq(Row)]
    /\ \A k \in Kinds : Len(rows[k]) <= MaxRows
    /\ assigned \subseteq Ids \X Ids
    /\ \A pair \in assigned : /\ pair[1] \in DOMAIN Projects
                               /\ pair[2] \in DOMAIN Workstreams /\ Workstreams[pair[2]].ws # 0
    /\ entries \subseteq Entry
    /\ moved \subseteq Kinds \X Ids /\ dropped \subseteq Ids \X Ids
    /\ left \subseteq Kinds \X Workspaces

LEMMA RowFacts ==
    ASSUME TablesTyped, NEW k \in Kinds
    PROVE  /\ rows[k] \in Seq(Row) /\ DOMAIN rows[k] = 1..Len(rows[k]) /\ Len(rows[k]) \in Ids
           /\ \A i \in DOMAIN rows[k] : /\ rows[k][i] \in Row /\ i \in Nat /\ i > 0
                                        /\ rows[k][i].ws \in Workspaces \cup {0}
                                        /\ rows[k][i].number \in Nat /\ rows[k][i].after \in Nat
                                        /\ rows[k][i].of \in Ids
<1>1. rows[k] \in Seq(Row) /\ Len(rows[k]) <= MaxRows
  BY DEF TablesTyped
<1>2. DOMAIN rows[k] = 1..Len(rows[k]) /\ Len(rows[k]) \in Nat
  BY <1>1, TableDomain
<1>3. \A i \in DOMAIN rows[k] : rows[k][i] \in Row /\ i \in Nat /\ i > 0
  BY <1>1, ElementTypes
<1>4. \A row \in Row : /\ row.ws \in Workspaces \cup {0} /\ row.number \in Nat /\ row.after \in Nat
                       /\ row.of \in Ids
  BY CatalogueAssumption DEF Row, Ids
<1> QED
  BY <1>1, <1>2, <1>3, <1>4, CatalogueAssumption DEF Ids

LEMMA RowFactsAfter ==
    ASSUME TablesTyped', NEW k \in Kinds
    PROVE  /\ rows'[k] \in Seq(Row) /\ DOMAIN rows'[k] = 1..Len(rows'[k]) /\ Len(rows'[k]) \in Ids
           /\ \A i \in DOMAIN rows'[k] : /\ rows'[k][i] \in Row /\ i \in Nat /\ i > 0
                                         /\ rows'[k][i].ws \in Workspaces \cup {0}
                                         /\ rows'[k][i].number \in Nat /\ rows'[k][i].after \in Nat
                                         /\ rows'[k][i].of \in Ids
<1>1. rows'[k] \in Seq(Row) /\ Len(rows'[k]) <= MaxRows
  BY DEF TablesTyped
<1>2. DOMAIN rows'[k] = 1..Len(rows'[k]) /\ Len(rows'[k]) \in Nat
  BY <1>1, TableDomain
<1>3. \A i \in DOMAIN rows'[k] : rows'[k][i] \in Row /\ i \in Nat /\ i > 0
  BY <1>1, ElementTypes
<1>4. \A row \in Row : /\ row.ws \in Workspaces \cup {0} /\ row.number \in Nat /\ row.after \in Nat
                       /\ row.of \in Ids
  BY CatalogueAssumption DEF Row, Ids
<1> QED
  BY <1>1, <1>2, <1>3, <1>4, CatalogueAssumption DEF Ids

\* The rows of a workspace that none has left are counted again.
LEMMA CountStays ==
    ASSUME TablesTyped, Kept, NEW k \in Kinds, NEW n \in 0..Len(rows[k]), NEW w, <<k, w>> \notin left'
    PROVE  Count(rows[k], n, w) <= Count(rows'[k], n, w)
<1>1. n \in Nat /\ \A i \in 1..n : i \in DOMAIN rows[k]
  BY RowFacts
<1>2. \A i \in 1..n : rows[k][i].ws = w => rows'[k][i].ws = w
  BY <1>1 DEF Kept, RowKept
<1> QED
  BY <1>1, <1>2, CountKept

LEMMA BoundedStays ==
    ASSUME TablesTyped, TablesTyped', Kept, NEW k \in Kinds, NEW i \in DOMAIN rows[k], Bounded(k, i)
    PROVE  Bounded(k, i)'
<1> DEFINE old == rows[k][i]
           new == rows'[k][i]
<1>1. RowKept(k, i) /\ moved \subseteq moved' /\ left \subseteq left'
  BY DEF Kept
<1>2. i \in 0..Len(rows[k]) /\ i \in Nat /\ i > 0 /\ Len(rows[k]) \in Nat
  BY RowFacts DEF Ids
<1>3. i \in DOMAIN rows'[k] /\ new.number \in Nat
  BY <1>2, RowFactsAfter DEF Kept
<1>4. new.after < i
  BY <1>1, <1>2 DEF RowKept, Bounded
<1>5. ASSUME new.number > 0, <<k, new.ws>> \notin left', ~Moved(k, i)'
      PROVE  new.number <= Count(rows'[k], i, new.ws)
  <2>1. new.ws = old.ws /\ new.number = old.number
    BY <1>1, <1>5 DEF RowKept, Moved
  <2>2. ~Left(k, old.ws) /\ ~Moved(k, i)
    BY <1>1, <1>5, <2>1 DEF Left, Moved
  <2>3. old.number <= Count(rows[k], i, old.ws)
    BY <1>5, <2>1, <2>2 DEF Bounded
  <2>4. Count(rows[k], i, old.ws) <= Count(rows'[k], i, old.ws)
    BY <1>2, <1>5, <2>1, CountStays
  <2>5. Count(rows[k], i, old.ws) \in Nat /\ Count(rows'[k], i, old.ws) \in Nat
    BY <1>2, Counted
  <2> HIDE DEF old, new
  <2> QED
    BY <1>3, <2>1, <2>3, <2>4, <2>5
<1> QED
  BY <1>4, <1>5 DEF Bounded, Left

\* The numbers of the tables, from the rows that were there and the new ones.
LEMMA NumbersStay ==
    ASSUME TablesTyped, TablesTyped', Kept, NewRows, RowsLive, NumbersBounded, NumbersExplained
    PROVE  RowsLive' /\ NumbersBounded' /\ NumbersExplained'
<1>1. ASSUME NEW k \in Kinds, NEW i \in DOMAIN rows'[k]
      PROVE  /\ i \in DOMAIN rows[k] \/ i > Len(rows[k])
             /\ i \in DOMAIN rows[k] => RowKept(k, i)
  BY <1>1, RowFacts, RowFactsAfter DEF Kept, Ids
<1>2. RowsLive'
  <2> SUFFICES ASSUME NEW k \in Kinds \ {"workstreams"}, NEW i \in DOMAIN rows'[k]
               PROVE  rows'[k][i].ws # 0
    BY DEF RowsLive
  <2>1. CASE i > Len(rows[k])
    <3>1. rows'[k][i].ws \in Workspaces
      BY <2>1 DEF NewRows
    <3>2. 0 \notin Workspaces
      BY CatalogueAssumption
    <3> QED
      BY <3>1, <3>2
  <2>2. CASE i \in DOMAIN rows[k]
    <3>1. rows[k][i].ws # 0 /\ RowKept(k, i)
      BY <1>1, <2>2 DEF RowsLive
    <3> HIDE DEF RowsLive
    <3> QED
      BY <3>1 DEF RowKept
  <2> QED
    BY <1>1, <2>1, <2>2
<1>3. NumbersBounded'
  <2> SUFFICES ASSUME NEW k \in Kinds, NEW i \in DOMAIN rows'[k]
               PROVE  Bounded(k, i)'
    BY DEF NumbersBounded
  <2>1. CASE i > Len(rows[k])
    BY <2>1 DEF NewRows
  <2>2. CASE i \in DOMAIN rows[k]
    BY <2>2, BoundedStays DEF NumbersBounded
  <2> QED
    BY <1>1, <2>1, <2>2
<1>4. NumbersExplained'
  <2> SUFFICES ASSUME NEW k \in Kinds, NEW i \in DOMAIN rows'[k], NEW j \in DOMAIN rows'[k],
                      i < j, rows'[k][i].ws = rows'[k][j].ws,
                      rows'[k][i].number = rows'[k][j].number, rows'[k][j].number > 0
               PROVE  rows'[k][j].after < i \/ <<k, rows'[k][j].ws>> \in left' \/ Moved(k, i)' \/ Moved(k, j)'
    BY DEF NumbersExplained, Left, Moved
  <2>1. CASE j > Len(rows[k])
    <3>1. Explained(k, j)'
      BY <2>1 DEF NewRows
    <3> QED
      BY <3>1 DEF Explained, Left
  <2>2. CASE j \in DOMAIN rows[k]
    <3>1. i \in DOMAIN rows[k]
      BY <1>1, <2>2, RowFacts, RowFactsAfter DEF Ids
    <3>2. RowKept(k, i) /\ RowKept(k, j) /\ moved \subseteq moved' /\ left \subseteq left'
      BY <1>1, <2>2, <3>1 DEF Kept
    <3> DEFINE a == rows[k][i]
               b == rows[k][j]
               c == rows'[k][i]
               d == rows'[k][j]
    <3>3. c.number = a.number /\ d.number = b.number /\ d.after = b.after /\ a.number = b.number
          /\ b.number > 0
      BY <3>2 DEF RowKept
    <3>4. CASE Moved(k, i)' \/ Moved(k, j)'
      BY <3>4
    <3>5. CASE ~Moved(k, i)' /\ ~Moved(k, j)'
      <4>1. c.ws = a.ws /\ d.ws = b.ws
        BY <3>2, <3>3, <3>5 DEF RowKept, Moved
      <4>2. ~Moved(k, i) /\ ~Moved(k, j)
        BY <3>2, <3>5 DEF Moved
      <4>3. b.after < i \/ Left(k, b.ws)
        BY <2>2, <3>1, <3>3, <4>1, <4>2 DEF NumbersExplained, Left, Moved
      <4> QED
        BY <3>2, <3>3, <4>1, <4>3 DEF Left
    <3> QED
      BY <3>4, <3>5
  <2> QED
    BY <1>1, <2>1, <2>2
<1> QED
  BY <1>2, <1>3, <1>4

-----------------------------------------------------------------------------
(* What a request knows stays true while others are served.                *)

\* A selection after a step, by the rows as they are then.
SelectedAfter(e) ==
    /\ e.project \in DOMAIN rows'["projects"] /\ e.activity \in DOMAIN rows'["activities"]
    /\ e.task \in 0..Len(rows'["tasks"])
ProjectAfter(e) ==
    \/ <<"projects", e.project>> \in moved'
    \/ rows'["projects"][e.project].ws = e.ws /\ rows'["projects"][e.project].of = e.customer
ActivityAfter(e) ==
    \/ <<"activities", e.activity>> \in moved'
    \/ /\ rows'["activities"][e.activity].ws = e.ws
       /\ rows'["activities"][e.activity].of \in {0, e.project}
WorkstreamAfter(e) == e.workstream # 0 => <<e.project, e.workstream>> \in assigned' \cup dropped'
TaskAfter(e) ==
    \/ <<"tasks", e.task>> \in moved'
    \/ e.task # 0 => rows'["tasks"][e.task].ws = e.ws /\ rows'["tasks"][e.task].of = e.project

LEMMA RowIsThere ==
    ASSUME TablesTyped, TablesTyped', Kept, NEW k \in Kinds, NEW i \in DOMAIN rows[k]
    PROVE  /\ i \in DOMAIN rows'[k]
           /\ k # "workstreams" => \/ <<k, i>> \in moved'
                                   \/ rows'[k][i].ws = rows[k][i].ws /\ rows'[k][i].of = rows[k][i].of
           /\ k = "workstreams" => rows'[k][i].ws \in {rows[k][i].ws, 0}
<1>1. i \in DOMAIN rows'[k]
  BY RowFacts, RowFactsAfter DEF Kept, Ids
<1>2. RowKept(k, i)
  BY DEF Kept
<1> QED
  BY <1>1, <1>2 DEF RowKept, Moved

LEMMA SelectionStays ==
    ASSUME TablesTyped, TablesTyped', Kept, NEW e, Known(e)
    PROVE  /\ SelectedAfter(e)
           /\ ProjectStays(e) => ProjectAfter(e)
           /\ ActivityStays(e) => ActivityAfter(e)
           /\ WorkstreamStays(e) => WorkstreamAfter(e)
           /\ TaskStays(e) => TaskAfter(e)
<1> DEFINE i == e.project
           j == e.activity
           k == e.task
<1>1. {"projects", "activities", "tasks"} \subseteq Kinds
  BY DEF Kinds
<1>2. /\ i \in DOMAIN rows["projects"] /\ j \in DOMAIN rows["activities"]
      /\ k \in 0..Len(rows["tasks"])
  BY DEF Known, Projects, Activities, Tasks
<1>3. Len(rows["tasks"]) \in Nat /\ Len(rows'["tasks"]) \in Nat /\ DOMAIN rows["tasks"] = 1..Len(rows["tasks"])
      /\ Len(rows'["tasks"]) >= Len(rows["tasks"])
  BY <1>1, RowFacts, RowFactsAfter, CatalogueAssumption DEF Kept, Ids
<1>4. i \in DOMAIN rows'["projects"] /\ j \in DOMAIN rows'["activities"] /\ k \in 0..Len(rows'["tasks"])
  <2>1. i \in DOMAIN rows'["projects"] /\ j \in DOMAIN rows'["activities"]
    BY <1>1, <1>2, RowIsThere
  <2>2. k \in 0..Len(rows'["tasks"])
    BY <1>2, <1>3
  <2> QED
    BY <2>1, <2>2
<1>5. \/ <<"projects", i>> \in moved'
      \/ /\ rows'["projects"][i].ws = rows["projects"][i].ws
         /\ rows'["projects"][i].of = rows["projects"][i].of
  BY <1>1, <1>2, RowIsThere
<1>6. \/ <<"activities", j>> \in moved'
      \/ /\ rows'["activities"][j].ws = rows["activities"][j].ws
         /\ rows'["activities"][j].of = rows["activities"][j].of
  BY <1>1, <1>2, RowIsThere
<1>7. k # 0 => \/ <<"tasks", k>> \in moved'
               \/ /\ rows'["tasks"][k].ws = rows["tasks"][k].ws
                  /\ rows'["tasks"][k].of = rows["tasks"][k].of
  <2>1. k # 0 => k \in DOMAIN rows["tasks"]
    BY <1>2, <1>3
  <2> QED
    BY <1>1, <2>1, RowIsThere
<1>8. moved \subseteq moved' /\ dropped \subseteq dropped' /\ assigned \subseteq assigned' \cup dropped'
  BY DEF Kept
<1>9. SelectedAfter(e)
  BY <1>4 DEF SelectedAfter
<1>10. ProjectStays(e) => ProjectAfter(e)
  BY <1>5, <1>8 DEF ProjectStays, ProjectFits, ProjectAfter, Projects, Moved
<1>11. ActivityStays(e) => ActivityAfter(e)
  BY <1>6, <1>8 DEF ActivityStays, ActivityFits, ActivityAfter, Activities, Moved
<1>12. WorkstreamStays(e) => WorkstreamAfter(e)
  BY <1>8 DEF WorkstreamStays, WorkstreamAfter
<1>13. TaskStays(e) => TaskAfter(e)
  BY <1>7, <1>8 DEF TaskStays, TaskFits, TaskAfter, Tasks, Moved
<1> QED
  BY <1>9, <1>10, <1>11, <1>12, <1>13

Stays(q) == pc'[q] = pc[q] /\ req'[q] = req[q] /\ draft'[q] = draft[q] /\ copy'[q] = copy[q]

LEMMA FormStays ==
    ASSUME TablesTyped, TablesTyped', Kept, NEW q \in Handlers, Stays(q), req[q] \in Request, FormKnown(q)
    PROVE  FormKnown(q)'
<1>1. "projects" \in Kinds /\ \A k \in Kinds : /\ Len(rows[k]) \in Nat /\ Len(rows'[k]) \in Nat
                                               /\ Len(rows'[k]) >= Len(rows[k])
                                               /\ DOMAIN rows[k] = 1..Len(rows[k])
                                               /\ DOMAIN rows'[k] = 1..Len(rows'[k])
  BY RowFacts, RowFactsAfter, CatalogueAssumption DEF Kept, Ids, Kinds
<1> DEFINE r == req[q]
           n == Len(rows["projects"])
<1>2. pc[q] \in {"upsert", "insert"} =>
        r.kind \in Kinds /\ r.ws \in Workspaces /\ r.id \in 0..Len(rows'[r.kind])
        /\ r.project \in 0..Len(rows'["projects"])
  BY <1>1 DEF FormKnown, Projects
<1>3. pc[q] \in {"list", "assign"} => r.ws \in Workspaces /\ r.project \in DOMAIN rows'["projects"]
  BY <1>1 DEF FormKnown, Projects
<1>4. /\ pc[q] = "upsert" => r.number = 0 /\ r.after = 0
      /\ pc[q] = "insert" => r.after <= Len(rows'[r.kind])
  <2>1. r.after \in Nat
    BY CatalogueAssumption DEF Request, Ids
  <2> QED
    BY <1>1, <2>1 DEF FormKnown
<1>5. req'[q] = r /\ pc'[q] = pc[q]
  BY DEF Stays
<1> HIDE DEF r
<1> QED
  BY <1>2, <1>3, <1>4, <1>5 DEF FormKnown, Projects

LEMMA NumberStays ==
    ASSUME TablesTyped, TablesTyped', Kept, NEW q \in Handlers, Stays(q), req[q] \in Request,
           FormKnown(q), NumberFresh(q)
    PROVE  NumberFresh(q)'
<1> DEFINE r == req[q]
           k == r.kind
           w == r.ws
<1>1. req'[q] = r /\ pc'[q] = pc[q]
  BY DEF Stays
<1>2. CASE ~(pc[q] = "insert" /\ r.number > 0)
  BY <1>1, <1>2 DEF NumberFresh
<1>3. CASE pc[q] = "insert" /\ r.number > 0
  <2>1. k \in Kinds /\ w \in Workspaces /\ r.after \in Nat /\ r.number \in Nat
    BY <1>3, CatalogueAssumption DEF FormKnown, Request, Ids
  <2>2. /\ r.after <= Len(rows[k])
        /\ \/ <<k, w>> \in left
           \/ /\ r.number <= Count(rows[k], r.after, w) + 1
              /\ \A i \in 1..r.after :
                   rows[k][i].ws = w => <<k, i>> \in moved \/ rows[k][i].number < r.number
    BY <1>3 DEF NumberFresh, Left, Moved
  <2>3. Len(rows[k]) \in Nat /\ Len(rows'[k]) \in Nat /\ Len(rows'[k]) >= Len(rows[k])
        /\ DOMAIN rows[k] = 1..Len(rows[k])
    BY <2>1, RowFacts, RowFactsAfter, CatalogueAssumption DEF Kept, Ids
  <2>4. moved \subseteq moved' /\ left \subseteq left'
    BY DEF Kept
  <2>5. CASE <<k, w>> \in left'
    BY <1>1, <2>1, <2>2, <2>3, <2>5 DEF NumberFresh, Left, Moved
  <2>6. CASE <<k, w>> \notin left'
    <3>1. r.number <= Count(rows'[k], r.after, w) + 1
      <4>1. r.after \in 0..Len(rows[k])
        BY <2>1, <2>2, <2>3
      <4>2. Count(rows[k], r.after, w) <= Count(rows'[k], r.after, w)
        BY <2>1, <2>6, <4>1, CountStays
      <4>3. Count(rows[k], r.after, w) \in Nat /\ Count(rows'[k], r.after, w) \in Nat
        BY <2>1, Counted
      <4> HIDE DEF k, w, r
      <4> QED
        BY <2>1, <2>2, <2>4, <2>6, <4>2, <4>3
    <3>2. ASSUME NEW i \in 1..r.after, rows'[k][i].ws = w
          PROVE  <<k, i>> \in moved' \/ rows'[k][i].number < r.number
      <4>1. i \in DOMAIN rows[k]
        BY <2>1, <2>2, <2>3
      <4>2. RowKept(k, i)
        BY <2>1, <4>1 DEF Kept
      <4>3. w # 0
        BY <2>1, CatalogueAssumption
      <4>4. CASE <<k, i>> \in moved'
        BY <4>4
      <4>5. CASE <<k, i>> \notin moved'
        <5>1. rows[k][i].ws = w /\ rows'[k][i].number \in {0, rows[k][i].number}
          BY <3>2, <4>2, <4>3, <4>5 DEF RowKept, Moved
        <5>2. <<k, i>> \notin moved
          BY <2>4, <4>5
        <5>3. rows[k][i].number < r.number
          BY <2>2, <2>4, <2>6, <5>1, <5>2
        <5> HIDE DEF k, w, r
        <5> QED
          BY <1>3, <5>1, <5>3
      <4> QED
        BY <4>4, <4>5
    <3>3. r.after <= Len(rows'[k])
      BY <2>1, <2>2, <2>3
    <3> QED
      BY <1>1, <3>1, <3>2, <3>3 DEF NumberFresh, Left, Moved
  <2> QED
    BY <2>5, <2>6
<1> QED
  BY <1>2, <1>3

LEMMA SelectionHeld ==
    ASSUME TablesTyped, TablesTyped', Kept, NEW q \in Handlers, Stays(q), SelectionHolds(q)
    PROVE  SelectionHolds(q)'
<1> DEFINE e == req[q].entry
           some == {"track", "activity", "workstreams", "task", "record"}
<1>1. CASE pc[q] \notin some
  BY <1>1 DEF SelectionHolds, Stays
<1>2. CASE pc[q] \in some
  <2>1. Known(e) /\ ProjectStays(e)
    BY <1>2 DEF SelectionHolds
  <2>2. /\ SelectedAfter(e) /\ ProjectAfter(e)
        /\ ActivityStays(e) => ActivityAfter(e)
        /\ WorkstreamStays(e) => WorkstreamAfter(e)
        /\ TaskStays(e) => TaskAfter(e)
    BY <2>1, SelectionStays
  <2>3. e \in Entry
    BY <2>1 DEF Known
  <2>4. /\ pc[q] \in {"workstreams", "task", "record"} => ActivityAfter(e)
        /\ pc[q] \in {"task", "record"} => WorkstreamAfter(e)
        /\ pc[q] = "record" => TaskAfter(e)
    BY <2>2 DEF SelectionHolds
  <2>5. req'[q].entry = e /\ pc'[q] = pc[q]
    BY DEF Stays
  <2> HIDE DEF e
  <2>6. Known(req[q].entry)' /\ ProjectStays(req[q].entry)'
    BY <2>2, <2>3, <2>5 DEF Known, ProjectStays, SelectedAfter, ProjectAfter, ProjectFits, Moved,
                            Projects, Activities, Tasks
  <2>7. pc'[q] \in {"workstreams", "task", "record"} => ActivityStays(req[q].entry)'
    BY <2>4, <2>5 DEF ActivityStays, ActivityAfter, ActivityFits, Moved, Activities
  <2>8. pc'[q] \in {"task", "record"} => WorkstreamStays(req[q].entry)'
    BY <2>4, <2>5 DEF WorkstreamStays, WorkstreamAfter
  <2>9. pc'[q] = "record" => TaskStays(req[q].entry)'
    BY <2>4, <2>5 DEF TaskStays, TaskAfter, TaskFits, Moved, Tasks
  <2> QED
    BY <2>6, <2>7, <2>8, <2>9 DEF SelectionHolds
<1> QED
  BY <1>1, <1>2

LEMMA SetupHeld ==
    ASSUME TablesTyped, TablesTyped', Kept, NEW q \in Handlers, Stays(q), DraftKnown(q), CopyKnown(q),
           templates \in Seq(Template), templates' \in Seq(Template), Len(templates') = Len(templates)
    PROVE  DraftKnown(q)' /\ CopyKnown(q)'
<1>1. "workstreams" \in Kinds
  BY DEF Kinds
<1>2. \A i \in DOMAIN rows["workstreams"] :
        i \in DOMAIN rows'["workstreams"] /\ rows'["workstreams"][i].ws \in {rows["workstreams"][i].ws, 0}
  BY <1>1, RowIsThere
<1>3. DraftKnown(q)'
  BY <1>2 DEF DraftKnown, Stays, Workstreams
<1>4. DOMAIN templates' = DOMAIN templates
  BY TableDomain
<1> QED
  BY <1>3, <1>4 DEF CopyKnown, Stays

LEMMA RequestStays ==
    ASSUME TablesTyped, TablesTyped', Kept, NEW q \in Handlers, Stays(q), RequestHolds(q), req[q] \in Request,
           templates \in Seq(Template), templates' \in Seq(Template), Len(templates') = Len(templates)
    PROVE  RequestHolds(q)'
<1>1. FormKnown(q) /\ NumberFresh(q) /\ SelectionHolds(q) /\ DraftKnown(q) /\ CopyKnown(q)
  BY DEF RequestHolds
<1>2. FormKnown(q)'
  BY <1>1, FormStays
<1>3. NumberFresh(q)'
  BY <1>1, NumberStays
<1>4. SelectionHolds(q)'
  BY <1>1, SelectionHeld
<1>5. DraftKnown(q)' /\ CopyKnown(q)'
  BY <1>1, SetupHeld
<1> QED
  BY <1>2, <1>3, <1>4, <1>5 DEF RequestHolds

LEMMA EntryStays ==
    ASSUME TablesTyped, TablesTyped', Kept, NEW e, EntryHolds(e)
    PROVE  EntryHolds(e)'
<1>1. Known(e) /\ ProjectStays(e) /\ ActivityStays(e) /\ WorkstreamStays(e) /\ TaskStays(e)
  BY DEF EntryHolds
<1>2. SelectedAfter(e) /\ ProjectAfter(e) /\ ActivityAfter(e) /\ WorkstreamAfter(e) /\ TaskAfter(e)
  BY <1>1, SelectionStays
<1>3. Known(e)' /\ ProjectStays(e)'
  BY <1>1, <1>2 DEF Known, ProjectStays, SelectedAfter, ProjectAfter, ProjectFits, Moved,
                    Projects, Activities, Tasks
<1>4. ActivityStays(e)' /\ WorkstreamStays(e)' /\ TaskStays(e)'
  BY <1>2 DEF ActivityStays, ActivityAfter, ActivityFits, WorkstreamStays, WorkstreamAfter,
              TaskStays, TaskAfter, TaskFits, Moved, Activities, Tasks
<1> QED
  BY <1>3, <1>4 DEF EntryHolds

LEMMA RequestAtRest ==
    ASSUME NEW q, pc'[q] \in {"idle", "respond"}
    PROVE  RequestHolds(q)'
BY DEF RequestHolds, FormKnown, NumberFresh, SelectionHolds, DraftKnown, CopyKnown

\* A step that keeps the rows preserves the invariant if its new rows, its new entries and the
\* requests it moves are as they should be.
NewEntries == \A e \in entries' : e \in entries \/ EntryHolds(e)'

LEMMA InvariantKept ==
    ASSUME IInv, TypeOK', Kept, NewRows, NewEntries, Len(templates') = Len(templates),
           \A q \in Handlers : Stays(q) \/ RequestHolds(q)'
    PROVE  IInv'
<1>1. TypeOK /\ RowsLive /\ NumbersBounded /\ NumbersExplained /\ EntriesHold
  BY DEF IInv
<1>2. TablesTyped /\ req \in [Handlers -> Request] /\ templates \in Seq(Template)
  BY <1>1 DEF TypeOK, TypedWith, TablesTyped
<1>3. TablesTyped' /\ templates' \in Seq(Template)
  BY DEF TypeOK, TypedWith, TablesTyped, Projects, Workstreams
<1>4. RowsLive' /\ NumbersBounded' /\ NumbersExplained'
  BY <1>1, <1>2, <1>3, NumbersStay
<1>5. EntriesHold'
  <2> SUFFICES ASSUME NEW e \in entries' PROVE EntryHolds(e)'
    BY DEF EntriesHold
  <2>1. CASE e \in entries
    BY <1>1, <1>2, <1>3, <2>1, EntryStays DEF EntriesHold
  <2> QED
    BY <2>1 DEF NewEntries
<1>6. ASSUME NEW q \in Handlers PROVE RequestHolds(q)'
  <2>1. CASE Stays(q)
    <3>1. RequestHolds(q) /\ req[q] \in Request
      BY <1>2 DEF IInv
    <3> QED
      BY <1>2, <1>3, <2>1, <3>1, RequestStays
  <2> QED
    BY <2>1
<1> QED
  BY <1>4, <1>5, <1>6 DEF IInv

-----------------------------------------------------------------------------
(* The ways a step changes the tables.                                     *)

LEMMA NoRowStored ==
    ASSUME TablesTyped, UNCHANGED <<rows, moved, left>>, dropped \subseteq dropped',
           assigned \subseteq assigned' \cup dropped'
    PROVE  Kept /\ NewRows
<1>1. ASSUME NEW k \in Kinds PROVE Len(rows'[k]) >= Len(rows[k]) /\ \A i \in DOMAIN rows[k] : RowKept(k, i)
  BY RowFacts, CatalogueAssumption DEF RowKept, Ids
<1>2. ASSUME NEW k \in Kinds, NEW i \in DOMAIN rows'[k] PROVE ~(i > Len(rows[k]))
  BY RowFacts, CatalogueAssumption DEF Ids
<1>3. Kept
  BY <1>1 DEF Kept
<1>4. NewRows
  BY <1>2 DEF NewRows
<1> QED
  BY <1>3, <1>4

LEMMA NothingStored ==
    ASSUME TablesTyped, Reading
    PROVE  Kept /\ NewRows /\ NewEntries /\ TablesTyped' /\ Len(Projects') = Len(Projects)
<1>1. UNCHANGED <<rows, assigned, entries, moved, dropped, left>>
  BY DEF Reading, tables, ghosts
<1>2. Kept /\ NewRows
  BY <1>1, NoRowStored
<1>3. TablesTyped' /\ NewEntries /\ Len(Projects') = Len(Projects)
  BY <1>1 DEF TablesTyped, NewEntries, Projects, Workstreams
<1> QED
  BY <1>2, <1>3

\* Rows are stored behind those that were there, without numbers or with the next ones.
Extends(table, later) ==
    /\ Len(later) >= Len(table)
    /\ \A i \in DOMAIN table : later[i] = table[i]
    /\ \A i \in DOMAIN later :
         i > Len(table) =>
           /\ later[i].ws \in Workspaces
           /\ \/ later[i].number = 0 /\ later[i].after = 0
              \/ later[i].number = Count(later, i - 1, later[i].ws) + 1 /\ later[i].after = i - 1

LEMMA ExtendsItself ==
    ASSUME NEW table \in Seq(Row)
    PROVE  Extends(table, table)
BY TableDomain DEF Extends

LEMMA ExtensionTyped ==
    ASSUME TablesTyped, rows' \in [Kinds -> Seq(Row)], UNCHANGED <<entries, ghosts>>,
           \A k \in Kinds : Len(rows'[k]) <= MaxRows /\ Extends(rows[k], rows'[k]),
           assigned' \subseteq Ids \X Ids,
           \A pair \in assigned' \ assigned :
               /\ pair[1] \in DOMAIN rows'["projects"] /\ pair[2] \in DOMAIN rows'["workstreams"]
               /\ rows'["workstreams"][pair[2]].ws # 0
    PROVE  TablesTyped'
<1>1. \A k \in Kinds : DOMAIN rows[k] = 1..Len(rows[k]) /\ Len(rows[k]) \in Nat
                       /\ DOMAIN rows'[k] = 1..Len(rows'[k]) /\ Len(rows'[k]) \in Nat
                       /\ Len(rows'[k]) >= Len(rows[k])
  BY TableDomain DEF TablesTyped, Extends
<1>2. "projects" \in Kinds /\ "workstreams" \in Kinds
  BY DEF Kinds
<1>3. \A pair \in assigned : /\ pair[1] \in DOMAIN rows["projects"] /\ pair[2] \in DOMAIN rows["workstreams"]
                             /\ rows["workstreams"][pair[2]].ws # 0
  BY DEF TablesTyped, Projects, Workstreams
<1>4. \A pair \in assigned : /\ pair[1] \in DOMAIN rows'["projects"] /\ pair[2] \in DOMAIN rows'["workstreams"]
                             /\ rows'["workstreams"][pair[2]].ws # 0
  BY <1>1, <1>2, <1>3 DEF Extends
<1>5. \A pair \in assigned' : /\ pair[1] \in DOMAIN rows'["projects"] /\ pair[2] \in DOMAIN rows'["workstreams"]
                              /\ rows'["workstreams"][pair[2]].ws # 0
  BY <1>4
<1>6. UNCHANGED <<entries, moved, dropped, left>>
  BY DEF ghosts
<1>7. entries' \subseteq Entry /\ moved' \subseteq Kinds \X Ids /\ dropped' \subseteq Ids \X Ids
      /\ left' \subseteq Kinds \X Workspaces
  BY <1>6 DEF TablesTyped
<1> QED
  BY <1>5, <1>7 DEF TablesTyped, Projects, Workstreams

LEMMA ExtensionKeeps ==
    ASSUME TablesTyped, TablesTyped', NumbersBounded, UNCHANGED ghosts, assigned \subseteq assigned',
           \A k \in Kinds : Extends(rows[k], rows'[k])
    PROVE  Kept /\ NewRows
<1>1. UNCHANGED <<moved, dropped, left>>
  BY DEF ghosts
<1>2. Kept
  <2> SUFFICES ASSUME NEW k \in Kinds
               PROVE  Len(rows'[k]) >= Len(rows[k]) /\ \A i \in DOMAIN rows[k] : RowKept(k, i)
    BY <1>1 DEF Kept
  <2>1. Len(rows'[k]) >= Len(rows[k]) /\ \A i \in DOMAIN rows[k] : rows'[k][i] = rows[k][i]
    BY DEF Extends
  <2> QED
    BY <2>1 DEF RowKept
<1>3. ASSUME NEW k \in Kinds, NEW i \in DOMAIN rows'[k], i > Len(rows[k])
      PROVE  rows'[k][i].ws \in Workspaces /\ rows'[k][i].after < i
             /\ (rows'[k][i].number > 0 =>
                   /\ rows'[k][i].number = Count(rows'[k], i - 1, rows'[k][i].ws) + 1
                   /\ rows'[k][i].number = Count(rows'[k], i, rows'[k][i].ws)
                   /\ rows'[k][i].after = i - 1)
  <2> DEFINE row == rows'[k][i]
             n   == i - 1
  <2>1. row.ws \in Workspaces
        /\ (\/ row.number = 0 /\ row.after = 0
            \/ row.number = Count(rows'[k], i - 1, row.ws) + 1 /\ row.after = i - 1)
    BY <1>3 DEF Extends
  <2>2. i \in Nat /\ i > 0 /\ n \in Nat /\ n + 1 = i /\ rows'[k][n + 1].ws = row.ws
    BY RowFactsAfter
  <2>3. Count(rows'[k], n + 1, row.ws) = Count(rows'[k], n, row.ws) + 1
    BY <2>2, CountOfNext
  <2> HIDE DEF row
  <2> QED
    BY <2>1, <2>2, <2>3 DEF row
<1>4. ASSUME NEW k \in Kinds, NEW i \in DOMAIN rows'[k]
      PROVE  Bounded(k, i)'
  <2>1. CASE i > Len(rows[k])
    <3>1. rows'[k][i].number \in Nat /\ i \in Nat /\ Count(rows'[k], i, rows'[k][i].ws) \in Nat
      BY RowFactsAfter, Counted
    <3> QED
      BY <1>3, <2>1, <3>1 DEF Bounded
  <2>2. CASE i \in DOMAIN rows[k]
    BY <1>2, <2>2, BoundedStays DEF NumbersBounded
  <2>3. i \in DOMAIN rows[k] \/ i > Len(rows[k])
    BY RowFacts, RowFactsAfter DEF Ids
  <2> QED
    BY <2>1, <2>2, <2>3
<1>5. ASSUME NEW k \in Kinds, NEW j \in DOMAIN rows'[k], j > Len(rows[k])
      PROVE  Explained(k, j)'
  <2> SUFFICES ASSUME NEW i \in DOMAIN rows'[k], i < j, rows'[k][i].ws = rows'[k][j].ws,
                      rows'[k][i].number = rows'[k][j].number, rows'[k][j].number > 0
               PROVE  \/ rows'[k][j].after < i \/ <<k, rows'[k][j].ws>> \in left'
                      \/ <<k, i>> \in moved' \/ <<k, j>> \in moved'
    BY DEF Explained, Left, Moved
  <2> DEFINE w == rows'[k][j].ws
             n == rows'[k][j].number
  <2>1. i \in Nat /\ j \in Nat /\ i <= j - 1 /\ j - 1 \in Nat /\ n \in Nat
    BY RowFactsAfter
  <2>2. n = Count(rows'[k], j - 1, w) + 1
    BY <1>3, <1>5
  <2>3. \/ <<k, w>> \in left' \/ <<k, i>> \in moved'
        \/ n <= Count(rows'[k], i, w)
    BY <1>4 DEF Bounded, Left, Moved
  <2>4. Count(rows'[k], i, w) <= Count(rows'[k], j - 1, w)
    BY <2>1, CountOfMore
  <2>5. Count(rows'[k], i, w) \in Nat /\ Count(rows'[k], j - 1, w) \in Nat
    BY <2>1, Counted
  <2> HIDE DEF n
  <2>6. ~(n <= Count(rows'[k], i, w))
    BY <2>1, <2>2, <2>4, <2>5
  <2> QED
    BY <2>3, <2>6
<1>6. NewRows
  BY <1>3, <1>4, <1>5 DEF NewRows
<1> QED
  BY <1>2, <1>6

LEMMA Replacement ==
    ASSUME TablesTyped, NEW k \in Kinds, NEW id \in DOMAIN rows[k], NEW new \in Row,
           rows' = [rows EXCEPT ![k][id] = new]
    PROVE  /\ rows' \in [Kinds -> Seq(Row)]
           /\ \A l \in Kinds : Len(rows'[l]) = Len(rows[l]) /\ DOMAIN rows'[l] = DOMAIN rows[l]
           /\ \A l \in Kinds : \A i \in DOMAIN rows[l] :
                rows'[l][i] = IF l = k /\ i = id THEN new ELSE rows[l][i]
<1>1. rows \in [Kinds -> Seq(Row)] /\ rows[k] \in Seq(Row)
  BY DEF TablesTyped
<1>2. rows' = [rows EXCEPT ![k] = [rows[k] EXCEPT ![id] = new]]
  BY <1>1
<1>3. /\ [rows[k] EXCEPT ![id] = new] \in Seq(Row)
      /\ Len([rows[k] EXCEPT ![id] = new]) = Len(rows[k])
      /\ DOMAIN [rows[k] EXCEPT ![id] = new] = DOMAIN rows[k]
      /\ \A i \in DOMAIN rows[k] : [rows[k] EXCEPT ![id] = new][i] = IF i = id THEN new ELSE rows[k][i]
  BY <1>1, Replaced
<1> DEFINE table == [rows[k] EXCEPT ![id] = new]
<1>4. rows' = [rows EXCEPT ![k] = table] /\ table \in Seq(Row) /\ Len(table) = Len(rows[k])
      /\ DOMAIN table = DOMAIN rows[k]
      /\ \A i \in DOMAIN rows[k] : table[i] = IF i = id THEN new ELSE rows[k][i]
  BY <1>2, <1>3
<1> HIDE DEF table
<1>5. rows' \in [Kinds -> Seq(Row)] /\ \A l \in Kinds : rows'[l] = IF l = k THEN table ELSE rows[l]
  BY <1>1, <1>4
<1> QED
  BY <1>4, <1>5

LEMMA ReplacementKeeps ==
    ASSUME TablesTyped, NEW k \in Kinds, NEW id \in DOMAIN rows[k], NEW new \in Row,
           rows' = [rows EXCEPT ![k][id] = new],
           new.number # 0 => new.number = rows[k][id].number /\ new.after = rows[k][id].after,
           new.after \in {0, rows[k][id].after},
           \/ new.ws = rows[k][id].ws /\ (new.of = rows[k][id].of \/ <<k, id>> \in moved')
           \/ k # "workstreams" /\ new.ws # 0 /\ <<k, id>> \in moved' /\ <<k, rows[k][id].ws>> \in left'
           \/ k = "workstreams" /\ new.ws = 0 /\ new.number = 0 /\ <<k, rows[k][id].ws>> \in left',
           moved \subseteq moved', left \subseteq left', dropped \subseteq dropped',
           assigned \subseteq assigned' \cup dropped'
    PROVE  Kept /\ NewRows
<1>1. /\ \A l \in Kinds : Len(rows'[l]) = Len(rows[l]) /\ DOMAIN rows'[l] = DOMAIN rows[l]
      /\ \A l \in Kinds : \A i \in DOMAIN rows[l] :
           rows'[l][i] = IF l = k /\ i = id THEN new ELSE rows[l][i]
  BY Replacement
<1>2. RowKept(k, id)
  BY <1>1 DEF RowKept
<1>3. \A l \in Kinds : \A i \in DOMAIN rows[l] : RowKept(l, i)
  <2> SUFFICES ASSUME NEW l \in Kinds, NEW i \in DOMAIN rows[l] PROVE RowKept(l, i)
    OBVIOUS
  <2>1. CASE l = k /\ i = id
    BY <1>2, <2>1
  <2>2. CASE ~(l = k /\ i = id)
    <3>1. rows'[l][i] = rows[l][i]
      BY <1>1, <2>2
    <3> QED
      BY <3>1 DEF RowKept
  <2> QED
    BY <2>1, <2>2
<1>4. \A l \in Kinds : Len(rows'[l]) >= Len(rows[l])
  BY <1>1, RowFacts, CatalogueAssumption DEF Ids
<1>5. \A l \in Kinds : \A i \in DOMAIN rows'[l] : ~(i > Len(rows[l]))
  <2> SUFFICES ASSUME NEW l \in Kinds, NEW i \in DOMAIN rows'[l] PROVE ~(i > Len(rows[l]))
    OBVIOUS
  <2> QED
    BY <1>1, RowFacts, CatalogueAssumption DEF Ids
<1>6. Kept
  BY <1>3, <1>4 DEF Kept
<1>7. NewRows
  BY <1>5 DEF NewRows
<1> QED
  BY <1>6, <1>7

ValidForm(form) ==
    /\ form \in Request /\ form.kind \in Kinds /\ form.ws \in Workspaces
    /\ form.id \in 0..Len(rows[form.kind]) /\ form.project \in 0..Len(Projects) /\ form.number = 0
    /\ form.after = 0

LEMMA UpdateKeeps ==
    ASSUME TablesTyped, RowsLive, NEW p \in Handlers, NEW form, ValidForm(form), form.id # 0,
           Update(p, form)
    PROVE  Kept /\ NewRows /\ NewEntries /\ TablesTyped' /\ Len(Projects') = Len(Projects)
<1> DEFINE k   == form.kind
           id  == form.id
           old == rows[k][id]
<1>1. k \in Kinds /\ id \in DOMAIN rows[k] /\ old \in Row /\ id \in Ids /\ form.ws \in Workspaces
      /\ form.of \in Ids /\ form.name \in Names \cup {"none"}
  BY RowFacts, CatalogueAssumption DEF ValidForm, Request, Ids
<1>2. CASE Reading
  BY <1>2, NothingStored
<1>3. CASE ~Reading
  <2>1. PICK number \in {0, old.number} :
          LET new == [old EXCEPT !.ws = form.ws, !.of = form.of, !.name = form.name, !.number = number]
          IN  IF k = "workstreams" /\ (\/ old.ws # new.ws
                                       \/ old.name # new.name /\ NameTaken(rows[k], new.ws, new.name))
              THEN Reading
              ELSE /\ rows' = [rows EXCEPT ![k][id] = new]
                   /\ moved' = IF <<old.ws, old.of>> = <<new.ws, new.of>> THEN moved
                               ELSE moved \cup {<<k, id>>}
                   /\ left' = IF old.ws = new.ws THEN left ELSE left \cup {<<k, old.ws>>}
                   /\ UNCHANGED <<assigned, entries, dropped>>
    BY DEF Update
  <2> DEFINE new == [old EXCEPT !.ws = form.ws, !.of = form.of, !.name = form.name, !.number = number]
  <2> HIDE DEF k, id, old
  <2>2. /\ k = "workstreams" => old.ws = new.ws
        /\ rows' = [rows EXCEPT ![k][id] = new]
        /\ moved' = IF <<old.ws, old.of>> = <<new.ws, new.of>> THEN moved
                    ELSE moved \cup {<<k, id>>}
        /\ left' = IF old.ws = new.ws THEN left ELSE left \cup {<<k, old.ws>>}
        /\ UNCHANGED <<assigned, entries, dropped>>
    BY <1>3, <2>1
  <2>3. /\ new \in Row /\ new.ws = form.ws /\ new.of = form.of /\ new.number = number
        /\ new.after = old.after
    <3>1. old \in Row /\ number \in 0..MaxRows + 1
      BY <1>1, <2>1, CatalogueAssumption DEF Row
    <3>2. /\ form.ws \in Workspaces \cup {0} /\ form.of \in 0..MaxRows
          /\ form.name \in Names \cup {"none"}
      BY <1>1 DEF Ids
    <3> QED
      BY ONLY <3>1, <3>2 DEF Row
  <2> HIDE DEF new
  <2>4. /\ new.number # 0 => new.number = old.number /\ new.after = old.after
        /\ new.after \in {0, old.after}
    BY <2>1, <2>3
  <2>5. new.ws # 0 /\ (k # "workstreams" => old.ws # 0)
    BY <1>1, <2>3, CatalogueAssumption DEF RowsLive, old
  <2>6. \/ new.ws = old.ws /\ (new.of = old.of \/ <<k, id>> \in moved')
        \/ k # "workstreams" /\ new.ws # 0 /\ <<k, id>> \in moved' /\ <<k, old.ws>> \in left'
    BY <2>2, <2>5
  <2>7. moved \subseteq moved' /\ left \subseteq left' /\ dropped \subseteq dropped'
        /\ assigned \subseteq assigned' \cup dropped'
    BY <2>2
  <2>8. Kept /\ NewRows
    BY <1>1, <2>2, <2>3, <2>4, <2>6, <2>7, ReplacementKeeps DEF old
  <2>9. /\ rows' \in [Kinds -> Seq(Row)]
        /\ \A l \in Kinds : Len(rows'[l]) = Len(rows[l]) /\ DOMAIN rows'[l] = DOMAIN rows[l]
        /\ \A l \in Kinds : \A i \in DOMAIN rows[l] :
             rows'[l][i] = IF l = k /\ i = id THEN new ELSE rows[l][i]
    BY <1>1, <2>2, <2>3, Replacement
  <2>10. TablesTyped'
    <3>1. moved' \subseteq Kinds \X Ids /\ left' \subseteq Kinds \X Workspaces
      <4>1. old.ws \in Workspaces \cup {0}
        BY <1>1 DEF Row
      <4>2. moved \subseteq Kinds \X Ids /\ left \subseteq Kinds \X Workspaces
        BY DEF TablesTyped
      <4> QED
        BY <1>1, <2>2, <2>5, <4>1, <4>2
    <3>2. "projects" \in Kinds /\ "workstreams" \in Kinds
      BY DEF Kinds
    <3>3. \A pair \in assigned : /\ pair[1] \in DOMAIN rows["projects"] /\ pair[2] \in DOMAIN rows["workstreams"]
                                 /\ rows["workstreams"][pair[2]].ws # 0
      BY DEF TablesTyped, Projects, Workstreams
    <3>4. \A pair \in assigned' : /\ pair[1] \in DOMAIN rows'["projects"] /\ pair[2] \in DOMAIN rows'["workstreams"]
                                  /\ rows'["workstreams"][pair[2]].ws # 0
      BY <2>2, <2>5, <2>9, <3>2, <3>3
    <3>5. assigned \subseteq Ids \X Ids /\ entries \subseteq Entry /\ dropped \subseteq Ids \X Ids
          /\ \A l \in Kinds : Len(rows[l]) <= MaxRows
      BY DEF TablesTyped
    <3>6. assigned' \subseteq Ids \X Ids /\ entries' \subseteq Entry /\ dropped' \subseteq Ids \X Ids
          /\ \A l \in Kinds : Len(rows'[l]) <= MaxRows
      BY <2>2, <2>9, <3>5
    <3> QED
      BY <2>9, <3>1, <3>4, <3>6 DEF TablesTyped, Projects, Workstreams
  <2>11. NewEntries /\ Len(Projects') = Len(Projects)
    BY <2>2, <2>9 DEF NewEntries, Projects, Kinds
  <2> QED
    BY <2>8, <2>10, <2>11
<1> QED
  BY <1>2, <1>3

LEMMA DeleteKeeps ==
    ASSUME TablesTyped, NEW p, NEW w \in Workspaces, NEW id, DeleteWorkstream(p, w, id)
    PROVE  Kept /\ NewRows /\ NewEntries /\ TablesTyped' /\ Len(Projects') = Len(Projects)
<1> DEFINE new   == Unnumbered(0, 0, "none")
           pairs == {<<project, id>> : project \in DOMAIN Projects}
<1>1. /\ id \in DOMAIN rows["workstreams"] /\ rows["workstreams"][id].ws = w
      /\ rows' = [rows EXCEPT !["workstreams"][id] = new]
      /\ assigned' = assigned \ pairs /\ dropped' = dropped \cup (assigned \cap pairs)
      /\ left' = left \cup {<<"workstreams", w>>}
      /\ UNCHANGED <<entries, moved>>
  BY DEF DeleteWorkstream, Drop, Workstreams
<1>2. new \in Row /\ new.ws = 0 /\ new.of = 0 /\ new.number = 0 /\ new.after = 0
  BY UnnumberedRow, CatalogueAssumption DEF Ids
<1>3. "workstreams" \in Kinds /\ "projects" \in Kinds
  BY DEF Kinds
<1> HIDE DEF new
<1>4. /\ rows' \in [Kinds -> Seq(Row)]
      /\ \A l \in Kinds : Len(rows'[l]) = Len(rows[l]) /\ DOMAIN rows'[l] = DOMAIN rows[l]
      /\ \A l \in Kinds : \A i \in DOMAIN rows[l] :
           rows'[l][i] = IF l = "workstreams" /\ i = id THEN new ELSE rows[l][i]
  BY <1>1, <1>2, <1>3, Replacement
<1>5. moved \subseteq moved' /\ left \subseteq left' /\ dropped \subseteq dropped'
      /\ assigned \subseteq assigned' \cup dropped'
  BY <1>1
<1>6. <<"workstreams", rows["workstreams"][id].ws>> \in left'
  BY <1>1
<1>7. Kept /\ NewRows
  BY <1>1, <1>2, <1>3, <1>5, <1>6, ReplacementKeeps
<1>8. TablesTyped'
  <2>1. \A pair \in assigned : /\ pair[1] \in DOMAIN rows["projects"] /\ pair[2] \in DOMAIN rows["workstreams"]
                               /\ rows["workstreams"][pair[2]].ws # 0
    BY DEF TablesTyped, Projects, Workstreams
  <2>2. assigned \subseteq Ids \X Ids /\ entries \subseteq Entry /\ dropped \subseteq Ids \X Ids
        /\ (\A l \in Kinds : Len(rows[l]) <= MaxRows)
        /\ moved \subseteq Kinds \X Ids /\ left \subseteq Kinds \X Workspaces
    BY DEF TablesTyped
  <2>3. \A pair \in assigned' : pair \in assigned /\ pair[2] # id
    <3> SUFFICES ASSUME NEW pair \in assigned, pair \notin pairs PROVE pair[2] # id
      BY <1>1
    <3>1. pair = <<pair[1], pair[2]>> /\ pair[1] \in DOMAIN rows["projects"]
      BY <2>1, <2>2
    <3> QED
      BY <3>1 DEF Projects
  <2>4. \A pair \in assigned' : /\ pair[1] \in DOMAIN rows'["projects"] /\ pair[2] \in DOMAIN rows'["workstreams"]
                                /\ rows'["workstreams"][pair[2]].ws # 0
    BY <1>3, <1>4, <2>1, <2>3
  <2>5. assigned' \subseteq Ids \X Ids /\ entries' \subseteq Entry /\ dropped' \subseteq Ids \X Ids
        /\ (\A l \in Kinds : Len(rows'[l]) <= MaxRows)
        /\ moved' \subseteq Kinds \X Ids /\ left' \subseteq Kinds \X Workspaces
    BY <1>1, <1>3, <1>4, <2>2
  <2> QED
    BY <1>4, <2>4, <2>5 DEF TablesTyped, Projects, Workstreams
<1>9. NewEntries /\ Len(Projects') = Len(Projects)
  BY <1>1, <1>3, <1>4 DEF NewEntries, Projects
<1> QED
  BY <1>7, <1>8, <1>9

-----------------------------------------------------------------------------
(* The forms.                                                              *)

\* The request of p after a step of module Catalogue.
Sound(p) ==
    /\ pc'[p] \in Stages /\ req'[p] \in Request
    /\ FormKnown(p)' /\ NumberFresh(p)' /\ SelectionHolds(p)'

StoredWell ==
    Kept /\ NewRows /\ NewEntries /\ TablesTyped' /\ Len(Projects') \in {Len(Projects), Len(Projects) + 1}

LEMMA NoRequestTyped == NoRequest \in Request
BY CatalogueAssumption DEF NoRequest, Request, Ids

LEMMA FormOfTyped ==
    ASSUME NEW kind \in Kinds \cup {"assigned", "removed", "entries"}, NEW w \in Workspaces, NEW id \in Ids,
           NEW of \in Ids, NEW name \in Names \cup {"none"}
    PROVE  LET f == FormOf(kind, w, id, of, name)
           IN  /\ f \in Request /\ f.kind = kind /\ f.ws = w /\ f.id = id /\ f.of = of /\ f.name = name
               /\ f.number = 0 /\ f.after = 0 /\ f.project = 0 /\ f.entry = NoEntry
<1> DEFINE f == FormOf(kind, w, id, of, name)
<1>1. NoRequest \in Request /\ NoRequest.number = 0 /\ NoRequest.after = 0 /\ NoRequest.project = 0
      /\ NoRequest.entry = NoEntry
  <2>1. NoRequest.number = 0 /\ NoRequest.after = 0 /\ NoRequest.project = 0 /\ NoRequest.entry = NoEntry
    BY DEF NoRequest
  <2> QED
    BY <2>1, NoRequestTyped
<1> HIDE DEF Ids
<1>2. f \in Request /\ f.kind = kind /\ f.ws = w /\ f.id = id /\ f.of = of /\ f.name = name
  BY <1>1 DEF FormOf, Request
<1>3. /\ f.number = NoRequest.number /\ f.after = NoRequest.after /\ f.project = NoRequest.project
      /\ f.entry = NoRequest.entry
  BY <1>1 DEF FormOf, Request
<1> QED
  BY <1>1, <1>2, <1>3

LEMMA FinishSound ==
    ASSUME Served, NEW p \in Handlers, Finish(p)
    PROVE  Sound(p)
<1>1. pc'[p] = "idle" /\ req'[p] = NoRequest
  BY DEF Finish, Goto, Served
<1> QED
  BY <1>1, NoRequestTyped DEF Sound, Stages, FormKnown, NumberFresh, SelectionHolds

\* A form that has its first statement to go.
LEMMA UpsertNext ==
    ASSUME NEW p \in Handlers, NEW form, ValidForm(form), UNCHANGED rows,
           pc'[p] \in {"upsert", "list"}, req'[p] = form
    PROVE  pc'[p] = "upsert" => Sound(p)
<1>1. form \in Request /\ form.kind \in Kinds /\ form.ws \in Workspaces
      /\ form.id \in 0..Len(rows[form.kind]) /\ form.project \in 0..Len(Projects) /\ form.number = 0
      /\ form.after = 0
  BY DEF ValidForm
<1>2. pc'[p] = "upsert" => FormKnown(p)'
  BY <1>1 DEF FormKnown, Projects
<1> QED
  BY <1>1, <1>2 DEF Sound, Stages, NumberFresh, SelectionHolds

LEMMA NextNumberSound ==
    ASSUME TablesTyped, NumbersBounded, Served, NEW p \in Handlers, NEW form, ValidForm(form),
           NextNumber(p, form)
    PROVE  Sound(p)
<1> DEFINE k == form.kind
           w == form.ws
           t == rows[k]
           n == generateEntityID(t, w)
           r == [form EXCEPT !.number = n, !.after = Len(t)]
<1>1. form \in Request /\ k \in Kinds /\ w \in Workspaces
      /\ form.id \in 0..Len(rows[k]) /\ form.project \in 0..Len(Projects) /\ form.number = 0
      /\ form.after = 0
  BY DEF ValidForm
<1>2. pc'[p] = "insert" /\ (req'[p] = form \/ req'[p] = r) /\ UNCHANGED <<rows, moved, left>>
  BY DEF NextNumber, Goto, Served, Reading, tables, ghosts
<1>3. CASE req'[p] = form
  <2>1. FormKnown(p)'
    BY <1>1, <1>2, <1>3 DEF FormKnown, Projects
  <2> QED
    BY <1>1, <1>2, <1>3, <2>1 DEF Sound, Stages, NumberFresh, SelectionHolds
<1>4. CASE req'[p] = r
  <2>1. t \in Seq(Row) /\ Len(t) \in Ids /\ Len(t) \in Nat /\ DOMAIN t = 1..Len(t)
    BY <1>1, RowFacts, CatalogueAssumption DEF Ids
  <2>2. n = Count(t, Len(t), w) + 1 /\ Count(t, Len(t), w) \in 0..Len(t)
    <3>1. CountIn(t, w) = Count(t, Len(t), w)
      <4>1. Len(t) \in 0..Len(t)
        BY <2>1
      <4> QED
        BY <2>1, <4>1, CountOfPrefix
    <3> QED
      BY <2>1, <3>1, Counted DEF generateEntityID
  <2> HIDE DEF n, t
  <2>3. n \in 0..MaxRows + 1 /\ n \in Nat
    BY <2>1, <2>2, CatalogueAssumption DEF Ids
  <2>4. r \in Request /\ r.kind = k /\ r.ws = w /\ r.id = form.id /\ r.project = form.project
        /\ r.number = n /\ r.after = Len(t)
    BY <1>1, <2>1, <2>3 DEF Request
  <2> HIDE DEF r
  <2>5. FormKnown(p)'
    <3>1. Len(t) = Len(rows'[k]) /\ Len(t) <= Len(t)
      BY <1>2, <2>1 DEF t
    <3> QED
      BY <1>1, <1>2, <1>4, <2>4, <3>1 DEF FormKnown, Projects
  <2>6. ASSUME <<k, w>> \notin left, NEW i \in 1..Len(t), t[i].ws = w, <<k, i>> \notin moved
        PROVE  t[i].number < n
    <3>1. Bounded(k, i)
      BY <1>1, <2>1 DEF NumbersBounded, t
    <3>2. t[i].number > 0 => t[i].number <= Count(t, i, w)
      BY <2>6, <3>1 DEF Bounded, Left, Moved, t
    <3>3. i \in Nat /\ i <= Len(t)
      BY <2>1
    <3>4. Count(t, i, w) <= Count(t, Len(t), w)
      BY <2>1, <3>3, CountOfMore
    <3>5. t[i].number \in Nat
      BY <1>1, <2>1, RowFacts DEF t
    <3>6. Count(t, i, w) \in Nat /\ Count(t, Len(t), w) \in Nat
      BY <2>1, <3>3, Counted
    <3> QED
      BY <2>2, <3>2, <3>4, <3>5, <3>6
  <2>7. n <= Count(t, Len(t), w) + 1 /\ Len(t) <= Len(t)
    BY <2>1, <2>2
  <2>8. NumberFresh(p)'
    BY <1>2, <1>4, <2>4, <2>6, <2>7 DEF NumberFresh, Left, Moved, t
  <2> QED
    BY <1>2, <1>4, <2>4, <2>5, <2>8 DEF Sound, Stages, SelectionHolds
<1> QED
  BY <1>2, <1>3, <1>4

LEMMA UpsertSound ==
    ASSUME TablesTyped, RowsLive, NumbersBounded, Served, NEW p \in Handlers, NEW form, ValidForm(form),
           Upsert(p, form)
    PROVE  StoredWell /\ Sound(p)
<1>1. CASE form.id = 0
  <2>1. NextNumber(p, form) /\ Reading
    BY <1>1 DEF Upsert, NextNumber
  <2> QED
    BY <2>1, NothingStored, NextNumberSound DEF StoredWell
<1>2. CASE form.id # 0
  <2>1. Update(p, form) /\ Finish(p)
    BY <1>2 DEF Upsert, Update
  <2> QED
    BY <1>2, <2>1, UpdateKeeps, FinishSound DEF StoredWell
<1> QED
  BY <1>1, <1>2

LEMMA ArriveUpsert ==
    ASSUME TablesTyped, Served, NEW p \in Handlers, NEW form, ValidForm(form), NEW holds,
           Arrive(p, form, holds, "upsert")
    PROVE  StoredWell /\ Sound(p)
<1>1. Reading /\ UNCHANGED rows /\ pc'[p] = "upsert" /\ req'[p] = form
  BY DEF Arrive, Goto, Served, Reading, tables
<1> QED
  BY <1>1, NothingStored, UpsertNext DEF StoredWell

\* The form of kind for the row id, or for a new one.
LEMMA FormIsValid ==
    ASSUME TablesTyped, NEW kind \in Kinds, NEW w \in Workspaces, NEW id \in 0..Len(rows[kind]),
           NEW of \in Ids, NEW name \in Names \cup {"none"}
    PROVE  ValidForm(FormOf(kind, w, id, of, name))
<1>1. id \in Ids
  BY RowFacts, CatalogueAssumption DEF Ids
<1>2. Len(Projects) \in Nat
  BY RowFacts, CatalogueAssumption DEF Ids, Kinds, Projects
<1> HIDE DEF Ids
<1> QED
  BY <1>1, <1>2, FormOfTyped DEF ValidForm

LEMMA SelectionSound ==
    ASSUME TablesTyped, Served, NEW p \in Handlers, NEW e \in Selections, "entries" \in FormKinds[p],
           saveTimesheet(p, e)
    PROVE  StoredWell /\ Sound(p)
<1> DEFINE r == [NoRequest EXCEPT !.kind = "entries", !.ws = e.ws, !.entry = e]
<1>1. /\ ProjectFits(e) /\ req' = [req EXCEPT ![p] = r] /\ Goto(p, "track") /\ Reading
  BY DEF saveTimesheet, Arrive
<1>2. {"customers", "projects", "activities", "tasks", "workstreams"} \subseteq Kinds
  BY DEF Kinds
<1>3. \A k \in Kinds : DOMAIN rows[k] \subseteq Ids /\ 0..Len(rows[k]) \subseteq Ids
  BY RowFacts, CatalogueAssumption DEF Ids
<1>4. e \in [ws : Workspaces, customer : DOMAIN rows["customers"], project : DOMAIN rows["projects"],
             activity : DOMAIN rows["activities"], workstream : 0..Len(rows["workstreams"]),
             task : 0..Len(rows["tasks"])]
  BY DEF Selections, Customers, Projects, Activities, Workstreams, Tasks
<1>5. e \in Entry
  BY <1>2, <1>3, <1>4 DEF Entry
<1>6. r \in Request /\ r.entry = e
  BY <1>5, NoRequestTyped DEF Request, Entry
<1>7. Known(e) /\ ProjectStays(e)
  BY <1>1, <1>4, <1>5 DEF Known, ProjectStays, Projects, Activities, Tasks
<1>8. pc'[p] = "track" /\ req'[p] = r /\ UNCHANGED <<rows, moved>>
  BY <1>1 DEF Goto, Served, Reading, tables, ghosts
<1> HIDE DEF r
<1>9. SelectionHolds(p)'
  BY <1>6, <1>7, <1>8 DEF SelectionHolds, Known, ProjectStays, ProjectFits, Moved, Projects, Activities, Tasks
<1>10. Sound(p)
  BY <1>6, <1>8, <1>9 DEF Sound, Stages, FormKnown, NumberFresh
<1> QED
  BY <1>1, <1>10, NothingStored DEF StoredWell

\* A request that will be an assignment or a removal.
LEMMA AssignmentSound ==
    ASSUME TablesTyped, Served, NEW p \in Handlers, NEW w \in Workspaces, NEW project \in DOMAIN Projects,
           NEW id \in Ids, NEW kind \in {"assigned", "removed"}, NEW stage \in {"assign", "remove"}, NEW holds,
           Arrive(p, [FormOf(kind, w, id, 0, "none") EXCEPT !.project = project], holds, stage)
    PROVE  StoredWell /\ Sound(p)
<1> DEFINE f == FormOf(kind, w, id, 0, "none")
           r == [f EXCEPT !.project = project]
<1>1. pc'[p] = stage /\ req'[p] = r /\ Reading /\ UNCHANGED rows
  BY DEF Arrive, Goto, Served, Reading, tables
<1>2. f \in Request /\ f.ws = w
  BY FormOfTyped, CatalogueAssumption DEF Ids
<1>3. project \in Ids
  BY RowFacts, CatalogueAssumption DEF Projects, Kinds, Ids
<1> HIDE DEF f
<1>4. r \in Request /\ r.ws = w /\ r.project = project
  BY <1>2, <1>3 DEF Request
<1> HIDE DEF r
<1>5. FormKnown(p)'
  BY <1>1, <1>4 DEF FormKnown, Projects
<1>6. Sound(p)
  BY <1>1, <1>4, <1>5 DEF Sound, Stages, NumberFresh, SelectionHolds
<1> QED
  BY <1>1, <1>6, NothingStored DEF StoredWell

LEMMA FormSound ==
    ASSUME TablesTyped, RowsLive, NumbersBounded, Served, NEW p \in Handlers, Form(p)
    PROVE  StoredWell /\ (Sound(p) \/ UNCHANGED <<pc, req>>)
<1>1. /\ 0 \in Ids /\ "none" \in Names \cup {"none"}
      /\ Kinds = {"customers", "projects", "activities", "tasks", "workstreams"}
  BY CatalogueAssumption DEF Ids, Kinds
<1>2. ASSUME NEW w \in Workspaces, NEW id \in Ids, saveCustomer(p, w, id)
      PROVE  StoredWell /\ Sound(p)
  <2>1. ValidForm(FormOf("customers", w, id, 0, "none"))
    BY <1>1, <1>2, FormIsValid DEF saveCustomer, Customers
  <2> QED
    BY <1>2, <2>1, UpsertSound DEF saveCustomer
<1>3. ASSUME NEW w \in Workspaces, NEW id \in Ids, NEW of \in Ids, saveProject(p, w, id, of)
      PROVE  StoredWell /\ Sound(p)
  <2>1. ValidForm(FormOf("projects", w, id, of, "none"))
    BY <1>1, <1>3, FormIsValid DEF saveProject, Projects
  <2> QED
    BY <1>3, <2>1, ArriveUpsert DEF saveProject
<1>4. ASSUME NEW w \in Workspaces, NEW id \in Ids, NEW of \in Ids, saveActivity(p, w, id, of)
      PROVE  StoredWell /\ Sound(p)
  <2>1. ValidForm(FormOf("activities", w, id, of, "none")) /\ ValidForm(FormOf("activities", w, id, 0, "none"))
    BY <1>1, <1>4, FormIsValid DEF saveActivity, Activities
  <2> QED
    BY <1>4, <2>1, ArriveUpsert, UpsertSound DEF saveActivity
<1>5. ASSUME NEW w \in Workspaces, NEW id \in Ids, NEW of \in Ids, saveTask(p, w, id, of)
      PROVE  StoredWell /\ Sound(p)
  <2>1. ValidForm(FormOf("tasks", w, id, of, "none"))
    BY <1>1, <1>5, FormIsValid DEF saveTask, Tasks
  <2> QED
    BY <1>5, <2>1, ArriveUpsert DEF saveTask
<1>6. ASSUME NEW w \in Workspaces, NEW id \in Ids, NEW name \in Names, saveWorkstream(p, w, id, name)
      PROVE  StoredWell /\ Sound(p)
  <2>1. ValidForm(FormOf("workstreams", w, id, 0, name))
    BY <1>1, <1>6, FormIsValid DEF saveWorkstream, Workstreams
  <2> QED
    BY <1>6, <2>1, UpsertSound DEF saveWorkstream
<1>7. ASSUME NEW w \in Workspaces, NEW id \in Ids, DeleteWorkstream(p, w, id)
      PROVE  StoredWell /\ UNCHANGED <<pc, req>>
  BY <1>7, DeleteKeeps DEF StoredWell, DeleteWorkstream
<1>8. ASSUME NEW w \in Workspaces, NEW id \in Ids, NEW project \in Ids, saveProjectWorkstream(p, w, project, id)
      PROVE  StoredWell /\ Sound(p)
  <2>1. project \in DOMAIN Projects
        /\ Arrive(p, [FormOf("assigned", w, id, 0, "none") EXCEPT !.project = project],
                  Projects[project].ws = w, "assign")
    BY <1>8 DEF saveProjectWorkstream
  <2> QED
    BY <2>1, AssignmentSound
<1>9. ASSUME NEW w \in Workspaces, NEW id \in Ids, NEW project \in Ids, removeProjectWorkstream(p, w, project, id)
      PROVE  StoredWell /\ Sound(p)
  <2>1. project \in DOMAIN Projects
        /\ Arrive(p, [FormOf("removed", w, id, 0, "none") EXCEPT !.project = project],
                  Projects[project].ws = w, "remove")
    BY <1>9 DEF removeProjectWorkstream
  <2> QED
    BY <2>1, AssignmentSound
<1> QED
  BY <1>2, <1>3, <1>4, <1>5, <1>6, <1>7, <1>8, <1>9 DEF Form

-----------------------------------------------------------------------------
(* The statements of a request.                                            *)

LEMMA UpsertStatementSound ==
    ASSUME TablesTyped, RowsLive, NumbersBounded, Served, NEW p \in Handlers, FormKnown(p),
           UpsertStatement(p)
    PROVE  StoredWell /\ Sound(p)
<1>1. pc[p] = "upsert" /\ Upsert(p, req[p]) /\ req[p] \in Request
  BY DEF UpsertStatement, Continue, Served
<1>2. ValidForm(req[p])
  BY <1>1 DEF FormKnown, ValidForm
<1> QED
  BY <1>1, <1>2, UpsertSound

LEMMA InsertKeeps ==
    ASSUME TablesTyped, NumbersBounded, NEW k \in Kinds, NEW row \in Row, NEW n, n = Len(rows[k]) + 1,
           row.ws \in Workspaces,
           Len(rows[k]) + 1 <= MaxRows, rows' = [rows EXCEPT ![k] = Append(@, row)],
           UNCHANGED <<assigned, entries, ghosts>>,
           row.after <= Len(rows[k]),
           row.number > 0 => \/ <<k, row.ws>> \in left
                             \/ /\ row.number <= Count(rows[k], row.after, row.ws) + 1
                                /\ \A i \in 1..row.after :
                                     rows[k][i].ws = row.ws =>
                                       <<k, i>> \in moved \/ rows[k][i].number < row.number
    PROVE  /\ Kept /\ NewRows /\ NewEntries /\ TablesTyped'
           /\ \A l \in Kinds : Len(rows'[l]) = IF l = k THEN Len(rows[k]) + 1 ELSE Len(rows[l])
<1> DEFINE t == rows[k]
<1>1. UNCHANGED <<moved, dropped, left, assigned, entries>>
  BY DEF ghosts
<1>2. t \in Seq(Row) /\ DOMAIN t = 1..Len(t) /\ Len(t) \in Nat /\ n \in Nat
  BY RowFacts, CatalogueAssumption DEF Ids
<1>3. /\ Append(t, row) \in Seq(Row) /\ Len(Append(t, row)) = n
      /\ DOMAIN Append(t, row) = DOMAIN t \cup {n}
      /\ \A i \in DOMAIN t : Append(t, row)[i] = t[i]
      /\ Append(t, row)[n] = row
  BY <1>2, Appended
<1>4. rows \in [Kinds -> Seq(Row)] /\ rows' = [rows EXCEPT ![k] = Append(t, row)]
  BY DEF TablesTyped
<1> HIDE DEF t
<1>5. /\ rows' \in [Kinds -> Seq(Row)] /\ rows'[k] = Append(t, row)
      /\ \A l \in Kinds : l # k => rows'[l] = rows[l]
  BY <1>3, <1>4
<1>6. \A l \in Kinds : Len(rows'[l]) = IF l = k THEN Len(t) + 1 ELSE Len(rows[l])
  BY <1>3, <1>5
<1>7. \A l \in Kinds : \A i \in DOMAIN rows[l] : rows'[l][i] = rows[l][i] /\ i \in DOMAIN rows'[l]
  BY <1>3, <1>5 DEF t
<1>8. \A l \in Kinds : Len(rows[l]) \in Nat /\ Len(rows'[l]) >= Len(rows[l]) /\ Len(rows'[l]) <= MaxRows
  <2> SUFFICES ASSUME NEW l \in Kinds
               PROVE  Len(rows[l]) \in Nat /\ Len(rows'[l]) >= Len(rows[l]) /\ Len(rows'[l]) <= MaxRows
    OBVIOUS
  <2>1. Len(rows[l]) \in Nat /\ Len(rows[l]) <= MaxRows
    BY RowFacts, CatalogueAssumption DEF Ids
  <2> QED
    BY <1>6, <2>1, CatalogueAssumption DEF t
<1>9. Kept
  BY <1>1, <1>7, <1>8 DEF Kept, RowKept
<1>10. TablesTyped'
  <2>1. {"projects", "workstreams"} \subseteq Kinds
    BY DEF Kinds
  <2>2. /\ assigned \subseteq Ids \X Ids /\ entries \subseteq Entry /\ dropped \subseteq Ids \X Ids
        /\ moved \subseteq Kinds \X Ids /\ left \subseteq Kinds \X Workspaces
        /\ \A pair \in assigned : /\ pair[1] \in DOMAIN rows["projects"] /\ pair[2] \in DOMAIN rows["workstreams"]
                                  /\ rows["workstreams"][pair[2]].ws # 0
    BY DEF TablesTyped, Projects, Workstreams
  <2>3. \A pair \in assigned' : /\ pair[1] \in DOMAIN rows'["projects"] /\ pair[2] \in DOMAIN rows'["workstreams"]
                                /\ rows'["workstreams"][pair[2]].ws # 0
    BY <1>1, <1>7, <2>1, <2>2
  <2> QED
    BY <1>1, <1>5, <1>8, <2>2, <2>3 DEF TablesTyped, Projects, Workstreams
<1>11. ASSUME NEW l \in Kinds, NEW j \in DOMAIN rows'[l], j > Len(rows[l])
       PROVE  l = k /\ j = n /\ rows'[l][j] = row
  <2>1. l = k
    BY <1>5, <1>8, <1>11, RowFacts
  <2> QED
    BY <1>2, <1>3, <1>5, <1>11, <2>1 DEF t
<1>12. /\ row.number \in Nat /\ row.after \in Nat /\ row.after < n /\ row.after \in 0..Len(t)
  <2>1. row.number \in Nat /\ row.after \in Nat
    BY CatalogueAssumption DEF Row
  <2> QED
    BY <1>2, <2>1 DEF t
<1>13. Bounded(k, n)'
  <2>1. CASE row.number > 0 /\ <<k, row.ws>> \notin left
    <3>1. row.number <= Count(t, row.after, row.ws) + 1
      BY <2>1 DEF t
    <3>2. Count(t, row.after, row.ws) <= Count(t, Len(t), row.ws)
      BY <1>2, <1>12, CountOfMore
    <3>3. Count(rows'[k], n, row.ws) = Count(rows'[k], Len(t), row.ws) + 1
      <4>1. rows'[k][Len(t) + 1].ws = row.ws
        BY <1>3, <1>5 DEF t
      <4>2. Count(rows'[k], Len(t) + 1, row.ws) = Count(rows'[k], Len(t), row.ws) + 1
        BY <1>2, <4>1, CountOfNext
      <4> QED
        BY <4>2 DEF t
    <3>4. Count(rows'[k], Len(t), row.ws) = Count(t, Len(t), row.ws)
      <4>1. \A i \in 1..Len(t) : rows'[k][i].ws = t[i].ws
        BY <1>2, <1>3, <1>5
      <4>2. RowsOf(rows'[k], Len(t), row.ws) = RowsOf(t, Len(t), row.ws)
        BY <4>1 DEF RowsOf
      <4> QED
        BY <4>2 DEF Count
    <3>5. Count(t, row.after, row.ws) \in Nat /\ Count(t, Len(t), row.ws) \in Nat
      BY <1>2, <1>12, Counted
    <3>6. row.number <= Count(rows'[k], n, row.ws)
      BY <1>12, <3>1, <3>2, <3>3, <3>4, <3>5
    <3> QED
      BY <1>3, <1>5, <1>12, <3>6 DEF Bounded
  <2>2. CASE ~(row.number > 0 /\ <<k, row.ws>> \notin left)
    BY <1>1, <1>3, <1>5, <1>12, <2>2 DEF Bounded, Left
  <2> QED
    BY <2>1, <2>2
<1>14. Explained(k, n)'
  <2> SUFFICES ASSUME NEW i \in DOMAIN rows'[k], i < n, rows'[k][i].ws = row.ws,
                      rows'[k][i].number = row.number, row.number > 0
               PROVE  \/ row.after < i \/ <<k, row.ws>> \in left'
                      \/ <<k, i>> \in moved' \/ <<k, n>> \in moved'
    BY <1>3, <1>5 DEF Explained, Left, Moved
  <2>1. i \in DOMAIN t /\ rows'[k][i] = t[i] /\ i \in Nat /\ i > 0
    BY <1>2, <1>3, <1>5
  <2>2. CASE row.after < i
    BY <2>2
  <2>3. CASE i \in 1..row.after
    <3>1. ~(t[i].number < row.number) /\ t[i].ws = row.ws
      BY <1>12, <2>1
    <3> QED
      BY <1>1, <2>3, <3>1 DEF t
  <2> QED
    BY <1>12, <2>1, <2>2, <2>3
<1>15. NewRows
  BY <1>11, <1>13, <1>14 DEF NewRows
<1>16. NewEntries
  BY <1>1 DEF NewEntries
<1> QED
  BY <1>6, <1>9, <1>10, <1>15, <1>16 DEF t

LEMMA InsertSound ==
    ASSUME TablesTyped, NumbersBounded, Served, NEW p \in Handlers, FormKnown(p), NumberFresh(p), Insert(p)
    PROVE  StoredWell /\ Sound(p)
<1> DEFINE r  == req[p]
           k  == r.kind
           id == Len(rows[k]) + 1
           row == NewRow(r)
<1>1. pc[p] = "insert" /\ r \in Request /\ k \in Kinds /\ r.ws \in Workspaces /\ r.project \in 0..Len(Projects)
  BY DEF Insert, Continue, Served, FormKnown
<1>2. CASE Finish(p) /\ Reading
  BY <1>2, FinishSound, NothingStored DEF StoredWell
<1>3. CASE ~(Finish(p) /\ Reading)
  <2>1. /\ id <= MaxRows
        /\ rows' = [rows EXCEPT ![k] = Append(@, row)]
        /\ IF k = "projects"
           THEN Goto(p, "list") /\ req' = [req EXCEPT ![p].project = id]
           ELSE IF r.project # 0
           THEN Goto(p, "assign") /\ req' = [req EXCEPT ![p].id = id]
           ELSE Finish(p)
        /\ UNCHANGED <<assigned, entries, ghosts>>
    BY <1>3 DEF Insert
  <2>2. row \in Row /\ row.ws = r.ws /\ row.number = r.number /\ row.after = r.after
    <3>1. r.ws \in Workspaces \cup {0} /\ r.of \in 0..MaxRows /\ r.name \in Names \cup {"none"}
          /\ r.number \in 0..MaxRows + 1 /\ r.after \in 0..MaxRows
      BY <1>1 DEF Request, Ids
    <3> QED
      BY <3>1 DEF NewRow, Row
  <2>3. r.number > 0 => /\ r.after <= Len(rows[k])
                        /\ \/ <<k, r.ws>> \in left
                           \/ /\ r.number <= Count(rows[k], r.after, r.ws) + 1
                              /\ \A i \in 1..r.after :
                                   rows[k][i].ws = r.ws => <<k, i>> \in moved \/ rows[k][i].number < r.number
    BY <1>1 DEF NumberFresh, Left, Moved
  <2> HIDE DEF row
  <2>4. row.after <= Len(rows[k])
    BY <1>1, <2>2 DEF FormKnown
  <2>5. row.ws \in Workspaces
    BY <1>1, <2>2
  <2>0. id \in Ids /\ id \in Nat /\ id > 0
    <3>1. Len(rows[k]) \in Nat
      BY <1>1, RowFacts, CatalogueAssumption DEF Ids
    <3> QED
      BY <2>1, <3>1, CatalogueAssumption DEF Ids
  <2> HIDE DEF k, r
  <2>6. /\ Kept /\ NewRows /\ NewEntries /\ TablesTyped'
        /\ \A l \in Kinds : Len(rows'[l]) = IF l = k THEN Len(rows[k]) + 1 ELSE Len(rows[l])
    <3>1. row.number > 0 => \/ <<k, row.ws>> \in left
                            \/ /\ row.number <= Count(rows[k], row.after, row.ws) + 1
                               /\ \A i \in 1..row.after :
                                    rows[k][i].ws = row.ws => <<k, i>> \in moved \/ rows[k][i].number < row.number
      BY <2>2, <2>3
    <3> QED
      BY <1>1, <2>1, <2>2, <2>4, <2>5, <3>1, InsertKeeps
  <2>7. Len(Projects') \in {Len(Projects), Len(Projects) + 1} /\ Len(Projects) \in Nat
        /\ DOMAIN Projects' = 1..Len(Projects') /\ Len(Projects') >= Len(Projects)
        /\ (k = "projects" => Len(Projects') = id)
    <3>1. "projects" \in Kinds
      BY DEF Kinds
    <3>2. Len(rows["projects"]) \in Nat /\ DOMAIN rows'["projects"] = 1..Len(rows'["projects"])
      BY <2>6, <3>1, RowFacts, RowFactsAfter, CatalogueAssumption DEF Ids
    <3> QED
      BY <2>6, <3>1, <3>2 DEF Projects
  <2>8. Sound(p)
    <3>1. CASE k = "projects"
      <4>1. pc'[p] = "list" /\ req'[p] = [r EXCEPT !.project = id]
        BY <2>1, <3>1 DEF Goto, Served, r
      <4>2. id \in Ids /\ id \in DOMAIN Projects'
        <5>1. DOMAIN Projects' = 1..Len(Projects') /\ Len(Projects') = id
          BY <2>7, <3>1
        <5>2. DOMAIN Projects' = 1..id
          BY <5>1
        <5>3. id \in Nat /\ id > 0 /\ id \in Ids
          BY <2>0
        <5> HIDE DEF id
        <5> QED
          BY ONLY <5>2, <5>3
      <4>3. req'[p] \in Request /\ req'[p].ws = r.ws /\ req'[p].project = id
        BY <1>1, <4>1, <4>2 DEF Request
      <4> QED
        BY <1>1, <4>1, <4>2, <4>3 DEF Sound, Stages, FormKnown, NumberFresh, SelectionHolds
    <3>2. CASE k # "projects" /\ r.project # 0
      <4>1. pc'[p] = "assign" /\ req'[p] = [r EXCEPT !.id = id]
        BY <2>1, <3>2 DEF Goto, Served, r
      <4>2. id \in Ids /\ r.project \in DOMAIN Projects'
        <5>1. r.project \in 1..Len(Projects)
          <6>1. r.project \in 0..Len(Projects) /\ r.project # 0
            BY <1>1, <3>2
          <6>2. Len(Projects) \in Nat
            BY <2>7
          <6> QED
            BY ONLY <6>1, <6>2
        <5> QED
          <6>1. DOMAIN Projects' = 1..Len(Projects') /\ Len(Projects') >= Len(Projects) /\ Len(Projects) \in Nat
            BY <2>7
          <6>2. Len(Projects') \in {Len(Projects), Len(Projects) + 1}
            BY <2>7
          <6>3. r.project \in 1..Len(Projects')
            <7> DEFINE m == Len(Projects)
                       n == Len(Projects')
            <7>1. r.project \in 1..m /\ n >= m /\ m \in Nat /\ n \in {m, m + 1}
              BY <5>1, <6>1, <6>2
            <7> HIDE DEF m, n
            <7>2. r.project \in 1..n
              BY ONLY <7>1
            <7> QED
              BY <7>2 DEF n
          <6> QED
            BY <2>0, <6>1, <6>3
      <4>3. req'[p] \in Request /\ req'[p].ws = r.ws /\ req'[p].project = r.project
        BY <1>1, <4>1, <4>2 DEF Request
      <4> QED
        BY <1>1, <4>1, <4>2, <4>3 DEF Sound, Stages, FormKnown, NumberFresh, SelectionHolds
    <3>3. CASE k # "projects" /\ r.project = 0
      BY <2>1, <3>3, FinishSound
    <3> QED
      BY <3>1, <3>2, <3>3
  <2> QED
    BY <2>6, <2>7, <2>8 DEF StoredWell
<1> QED
  BY <1>2, <1>3

LEMMA ListWorkstreamsSound ==
    ASSUME TablesTyped, Served, NEW p \in Handlers, FormKnown(p), ListWorkstreams(p)
    PROVE  StoredWell /\ Sound(p)
<1> DEFINE r   == req[p]
           f   == FormOf("workstreams", r.ws, 0, 0, ProjectManagement)
           new == [f EXCEPT !.project = r.project]
<1>1. pc[p] = "list" /\ r.ws \in Workspaces /\ r.project \in DOMAIN Projects /\ Reading
  BY DEF ListWorkstreams, Continue, FormKnown
<1>2. "workstreams" \in Kinds /\ "projects" \in Kinds /\ 0 \in Ids
      /\ ProjectManagement \in Names \cup {"none"}
  BY CatalogueAssumption DEF Kinds, Ids
<1>3. 0 \in 0..Len(rows["workstreams"]) /\ r.project \in Ids /\ r.project \in 0..Len(Projects)
      /\ (\A i \in DOMAIN Workstreams : i \in Ids)
  BY <1>1, <1>2, RowFacts, CatalogueAssumption DEF Projects, Workstreams, Ids
<1>4. f \in Request /\ f.kind = "workstreams" /\ f.ws = r.ws /\ f.id = 0 /\ f.number = 0 /\ f.after = 0
  BY <1>1, <1>2, FormOfTyped
<1> HIDE DEF f
<1>5. new \in Request /\ new.kind = "workstreams" /\ new.ws = r.ws /\ new.id = 0 /\ new.number = 0
      /\ new.after = 0 /\ new.project = r.project
  BY <1>3, <1>4 DEF Request
<1>6. UNCHANGED rows
  BY <1>1 DEF Reading, tables
<1>7. \/ pc'[p] = "upsert" /\ req'[p] = new
      \/ \E i \in DOMAIN Workstreams : pc'[p] = "assign" /\ req'[p] = [new EXCEPT !.id = i]
  BY DEF ListWorkstreams, Goto, Served, f
<1> HIDE DEF new, r
<1>8. CASE pc'[p] = "upsert" /\ req'[p] = new
  <2>1. ValidForm(new)
    BY <1>1, <1>2, <1>3, <1>5 DEF ValidForm
  <2>2. Sound(p)
    BY <1>6, <1>8, <2>1, UpsertNext
  <2> QED
    BY <1>1, <2>2, NothingStored DEF StoredWell
<1>9. ASSUME NEW i \in DOMAIN Workstreams, pc'[p] = "assign" /\ req'[p] = [new EXCEPT !.id = i]
      PROVE  StoredWell /\ Sound(p)
  <2>1. req'[p] \in Request /\ req'[p].ws = r.ws /\ req'[p].project = r.project
    BY <1>3, <1>5, <1>9 DEF Request
  <2>2. Sound(p)
    BY <1>1, <1>6, <1>9, <2>1 DEF Sound, Stages, FormKnown, NumberFresh, SelectionHolds, Projects
  <2> QED
    BY <1>1, <2>2, NothingStored DEF StoredWell
<1> QED
  BY <1>7, <1>8, <1>9

LEMMA AssignSound ==
    ASSUME TablesTyped, Served, NEW p \in Handlers, FormKnown(p), UpsertProjectWorkstream(p)
    PROVE  StoredWell /\ Sound(p)
<1>1. Finish(p)
  BY DEF UpsertProjectWorkstream
<1>2. CASE Reading
  BY <1>1, <1>2, FinishSound, NothingStored DEF StoredWell
<1>3. CASE ~Reading
  <2> DEFINE pair == <<req[p].project, req[p].id>>
  <2>1. /\ Referable(req[p].id) /\ assigned' = assigned \cup {pair}
        /\ UNCHANGED <<rows, entries, moved, dropped, left>> /\ req[p].project \in DOMAIN Projects
        /\ req[p] \in Request
    BY <1>3 DEF UpsertProjectWorkstream, ghosts, Continue, FormKnown, Served
  <2>2. pair \in Ids \X Ids
    BY <2>1, RowFacts, CatalogueAssumption DEF Projects, Kinds, Request, Ids
  <2>3. Kept /\ NewRows
    BY <2>1, NoRowStored
  <2>4. TablesTyped'
    BY <2>1, <2>2 DEF TablesTyped, Referable, Projects, Workstreams
  <2>5. NewEntries /\ Len(Projects') = Len(Projects)
    BY <2>1 DEF NewEntries, Projects
  <2> QED
    BY <1>1, <2>3, <2>4, <2>5, FinishSound DEF StoredWell
<1> QED
  BY <1>2, <1>3

LEMMA RemoveSound ==
    ASSUME TablesTyped, Served, NEW p \in Handlers, RemoveProjectWorkstream(p)
    PROVE  StoredWell /\ Sound(p)
<1> DEFINE pairs == {<<req[p].project, req[p].id>>}
<1>1. /\ Finish(p) /\ assigned' = assigned \ pairs /\ dropped' = dropped \cup (assigned \cap pairs)
      /\ UNCHANGED <<rows, entries, moved, left>>
  BY DEF RemoveProjectWorkstream, Drop
<1> HIDE DEF pairs
<1>2. Kept /\ NewRows
  BY <1>1, NoRowStored
<1>3. TablesTyped'
  BY <1>1 DEF TablesTyped, Projects, Workstreams
<1>4. NewEntries /\ Len(Projects') = Len(Projects)
  BY <1>1 DEF NewEntries, Projects
<1> QED
  BY <1>1, <1>2, <1>3, <1>4, FinishSound DEF StoredWell

\* A selection goes on to its next check with what the last one found.
LEMMA SelectionGoesOn ==
    ASSUME TablesTyped, Served, NEW p \in Handlers, NEW e \in Entry, Reading, Known(e), ProjectStays(e),
           pc'[p] \in {"activity", "workstreams", "task", "record"},
           req'[p] \in Request, req'[p].entry = e,
           pc'[p] \in {"workstreams", "task", "record"} => ActivityStays(e),
           pc'[p] \in {"task", "record"} => WorkstreamStays(e),
           pc'[p] = "record" => TaskStays(e)
    PROVE  StoredWell /\ Sound(p)
<1>1. UNCHANGED <<rows, moved, assigned, dropped>>
  BY DEF Reading, tables, ghosts
<1>2. /\ Known(req[p].entry)' /\ ProjectStays(req[p].entry)'
      /\ pc'[p] \in {"workstreams", "task", "record"} => ActivityStays(req[p].entry)'
  BY <1>1 DEF Known, ProjectStays, ProjectFits, ActivityStays, ActivityFits, Moved, Projects, Activities, Tasks
<1>3. /\ pc'[p] \in {"task", "record"} => WorkstreamStays(req[p].entry)'
      /\ pc'[p] = "record" => TaskStays(req[p].entry)'
  BY <1>1 DEF WorkstreamStays, TaskStays, TaskFits, Moved, Tasks
<1>4. SelectionHolds(p)'
  BY <1>2, <1>3 DEF SelectionHolds
<1>5. Sound(p)
  BY <1>4 DEF Sound, Stages, FormKnown, NumberFresh
<1> QED
  BY <1>5, NothingStored DEF StoredWell

LEMMA CheckSound ==
    ASSUME TablesTyped, Served, NEW p \in Handlers, SelectionHolds(p),
           TrackProject(p) \/ SelectActivity(p) \/ SelectWorkstream(p) \/ SelectTask(p)
    PROVE  StoredWell /\ Sound(p)
<1>1. Reading
  BY DEF TrackProject, SelectActivity, SelectWorkstream, SelectTask, GuardedBy
<1>2. CASE Finish(p)
  BY <1>1, <1>2, FinishSound, NothingStored DEF StoredWell
<1>3. CASE ~Finish(p)
  <2>1. PICK e : e = req[p].entry
    OBVIOUS
  <2>2. Known(e) /\ ProjectStays(e) /\ e \in Entry /\ req[p] \in Request
    BY <2>1 DEF TrackProject, SelectActivity, SelectWorkstream, SelectTask, Continue, SelectionHolds,
                Known, Served
  <2>3. CASE TrackProject(p)
    <3>1. pc'[p] = "activity" /\ req'[p] = req[p]
      BY <1>3, <2>3 DEF TrackProject, GuardedBy, Goto, Served
    <3> QED
      BY <1>1, <2>1, <2>2, <3>1, SelectionGoesOn
  <2>4. CASE SelectActivity(p)
    <3>1. pc'[p] = "workstreams" /\ req'[p] = req[p] /\ ActivityFits(e)
      BY <1>3, <2>1, <2>4 DEF SelectActivity, GuardedBy, Goto, Served
    <3>2. ActivityStays(e)
      BY <3>1 DEF ActivityStays
    <3> QED
      BY <1>1, <2>1, <2>2, <3>1, <3>2, SelectionGoesOn
  <2>5. CASE SelectWorkstream(p)
    <3>1. ActivityStays(e)
      BY <2>1, <2>5 DEF SelectWorkstream, Continue, SelectionHolds
    <3>2. \/ /\ req' = [req EXCEPT ![p].entry.workstream = 0] /\ pc'[p] = "task"
          \/ /\ e.workstream \in ListProjectWorkstreams(e.project) /\ req'[p] = req[p] /\ pc'[p] = "task"
      BY <1>3, <2>1, <2>5 DEF SelectWorkstream, Goto, Served
    <3>3. CASE req' = [req EXCEPT ![p].entry.workstream = 0] /\ pc'[p] = "task"
      <4> DEFINE g == [e EXCEPT !.workstream = 0]
      <4>1. g \in Entry /\ g.workstream = 0 /\ g.ws = e.ws /\ g.customer = e.customer /\ g.project = e.project
            /\ g.activity = e.activity /\ g.task = e.task
        BY <2>2, CatalogueAssumption DEF Entry, Ids
      <4>2. req'[p] = [req[p] EXCEPT !.entry = g]
        BY <2>1, <3>3 DEF Served
      <4> HIDE DEF g
      <4>3. req'[p] \in Request /\ req'[p].entry = g
        BY <2>2, <4>1, <4>2 DEF Request
      <4>4. Known(g) /\ ProjectStays(g) /\ ActivityStays(g) /\ WorkstreamStays(g)
        BY <2>2, <3>1, <4>1 DEF Known, ProjectStays, ProjectFits, ActivityStays, ActivityFits, WorkstreamStays
      <4> QED
        BY <1>1, <3>3, <4>1, <4>3, <4>4, SelectionGoesOn
    <3>4. CASE e.workstream \in ListProjectWorkstreams(e.project) /\ req'[p] = req[p] /\ pc'[p] = "task"
      <4>1. WorkstreamStays(e)
        BY <3>4 DEF WorkstreamStays, ListProjectWorkstreams
      <4> QED
        BY <1>1, <2>1, <2>2, <3>1, <3>4, <4>1, SelectionGoesOn
    <3> QED
      BY <3>2, <3>3, <3>4
  <2>6. CASE SelectTask(p)
    <3>1. pc'[p] = "record" /\ req'[p] = req[p] /\ TaskFits(e)
      BY <1>3, <2>1, <2>6 DEF SelectTask, GuardedBy, Goto, Served
    <3>2. TaskStays(e) /\ ActivityStays(e) /\ WorkstreamStays(e)
      BY <2>1, <2>6, <3>1 DEF TaskStays, SelectTask, Continue, SelectionHolds
    <3> QED
      BY <1>1, <2>1, <2>2, <3>1, <3>2, SelectionGoesOn
  <2> QED
    BY <2>3, <2>4, <2>5, <2>6
<1> QED
  BY <1>2, <1>3

LEMMA RecordSound ==
    ASSUME TablesTyped, Served, NEW p \in Handlers, SelectionHolds(p), CreateTimesheet(p)
    PROVE  StoredWell /\ Sound(p)
<1>1. PICK e : e = req[p].entry
  OBVIOUS
<1>2. /\ entries' = entries \cup {e} /\ Finish(p) /\ UNCHANGED <<rows, assigned, moved, dropped, left>>
      /\ pc[p] = "record"
  BY <1>1 DEF CreateTimesheet, Continue, ghosts
<1>3. Known(e) /\ ProjectStays(e) /\ ActivityStays(e) /\ WorkstreamStays(e) /\ TaskStays(e) /\ e \in Entry
  BY <1>1, <1>2 DEF SelectionHolds, Known
<1>4. Kept /\ NewRows
  BY <1>2, NoRowStored
<1>5. TablesTyped'
  BY <1>2, <1>3 DEF TablesTyped, Projects, Workstreams
<1>6. EntryHolds(e)'
  BY <1>2, <1>3 DEF EntryHolds, Known, ProjectStays, ProjectFits, ActivityStays, ActivityFits,
                    WorkstreamStays, TaskStays, TaskFits, Moved, Projects, Activities, Tasks
<1>7. NewEntries /\ Len(Projects') = Len(Projects)
  BY <1>2, <1>6 DEF NewEntries, Projects
<1> QED
  BY <1>2, <1>4, <1>5, <1>7, FinishSound DEF StoredWell

LEMMA ServeSound ==
    ASSUME TablesTyped, RowsLive, NumbersBounded, Served, NEW p \in Handlers,
           FormKnown(p), NumberFresh(p), SelectionHolds(p), Serve(p)
    PROVE  StoredWell /\ Sound(p)
<1>1. CASE UpsertStatement(p)
  BY <1>1, UpsertStatementSound
<1>2. CASE Insert(p)
  BY <1>2, InsertSound
<1>3. CASE ListWorkstreams(p)
  BY <1>3, ListWorkstreamsSound
<1>4. CASE UpsertProjectWorkstream(p)
  BY <1>4, AssignSound
<1>5. CASE RemoveProjectWorkstream(p)
  BY <1>5, RemoveSound
<1>6. CASE TrackProject(p) \/ SelectActivity(p) \/ SelectWorkstream(p) \/ SelectTask(p)
  BY <1>6, CheckSound
<1>7. CASE CreateTimesheet(p)
  BY <1>7, RecordSound
<1> QED
  BY <1>1, <1>2, <1>3, <1>4, <1>5, <1>6, <1>7 DEF Serve

-----------------------------------------------------------------------------
(* Restarts, and a step of module Catalogue.                               *)

LEMMA StoreExtends ==
    ASSUME NEW table \in Seq(Row), NEW new \in Seq(Row), Len(StoreNumbered(table, new)) <= MaxRows,
           \A i \in DOMAIN new : new[i].ws \in Workspaces
    PROVE  Extends(table, StoreNumbered(table, new))
<1> DEFINE s == StoreNumbered(table, new)
<1>1. /\ s \in Seq(Row) /\ Len(s) = Len(table) + Len(new)
      /\ \A i \in DOMAIN table : s[i] = table[i]
      /\ \A i \in (Len(table) + 1)..(Len(table) + Len(new)) :
           /\ i - Len(table) \in DOMAIN new /\ s[i].ws = new[i - Len(table)].ws
           /\ s[i].after = i - 1 /\ s[i].number = Count(s, i - 1, s[i].ws) + 1
  BY StoredOneByOne
<1> HIDE DEF s
<1>2. Len(table) \in Nat /\ Len(new) \in Nat /\ DOMAIN s = 1..Len(s)
  BY <1>1, TableDomain
<1>3. ASSUME NEW i \in DOMAIN s, i > Len(table)
      PROVE  s[i].ws \in Workspaces /\ s[i].number = Count(s, i - 1, s[i].ws) + 1 /\ s[i].after = i - 1
  <2>1. i \in (Len(table) + 1)..(Len(table) + Len(new))
    BY <1>1, <1>2, <1>3
  <2> QED
    BY <1>1, <2>1
<1>4. Len(s) >= Len(table)
  BY <1>1, <1>2
<1> QED
  BY <1>1, <1>3, <1>4 DEF Extends, s

\* The default workstreams that are missing, as rows.
LEMMA MissingRows ==
    ASSUME NEW S \in SUBSET (Workspaces \X DefaultNames)
    PROVE  LET new == [i \in DOMAIN SetToSeq(S) |-> Unnumbered(SetToSeq(S)[i][1], 0, SetToSeq(S)[i][2])]
           IN  new \in Seq(Row) /\ \A i \in DOMAIN new : new[i].ws \in Workspaces
<1> DEFINE f == SetToSeq(S)
           n == Cardinality(S)
           new == [i \in DOMAIN f |-> Unnumbered(f[i][1], 0, f[i][2])]
<1>1. IsFiniteSet(S)
  <2>1. IsFiniteSet(DefaultNames)
    BY CatalogueAssumption, FS_Subset
  <2>2. IsFiniteSet(Workspaces \X DefaultNames)
    BY <2>1, CatalogueAssumption, FS_Product
  <2> QED
    BY <2>2, FS_Subset
<1>2. n \in Nat /\ f \in Seq(S) /\ DOMAIN f = 1..n
  BY <1>1, SetInOrder
<1> HIDE DEF f, n
<1>3. ASSUME NEW i \in 1..n
      PROVE  Unnumbered(f[i][1], 0, f[i][2]) \in Row /\ Unnumbered(f[i][1], 0, f[i][2]).ws \in Workspaces
  <2>1. f[i] \in S
    BY <1>2, ElementTypes
  <2>2. f[i][1] \in Workspaces /\ f[i][2] \in Names \cup {"none"}
    BY <2>1, CatalogueAssumption
  <2>3. 0 \in Ids /\ f[i][1] \in Workspaces \cup {0}
    BY <2>2, CatalogueAssumption DEF Ids
  <2> HIDE DEF Ids
  <2> QED
    BY <2>2, <2>3, UnnumberedRow
<1>4. new \in [1..n -> Row] /\ \A i \in 1..n : new[i].ws \in Workspaces
  BY <1>2, <1>3
<1>5. new \in Seq(Row) /\ DOMAIN new = 1..n
  <2>1. DOMAIN new = 1..n
    BY <1>2
  <2> HIDE DEF new
  <2> QED
    BY <1>2, <1>4, <2>1, SequenceOf
<1> QED
  BY <1>4, <1>5 DEF f

\* One table becomes longer.
LEMMA OneExtended ==
    ASSUME TablesTyped, NEW k \in Kinds, NEW later \in Seq(Row), Extends(rows[k], later), Len(later) <= MaxRows,
           rows' = [rows EXCEPT ![k] = later]
    PROVE  /\ rows' \in [Kinds -> Seq(Row)]
           /\ \A l \in Kinds : Len(rows'[l]) <= MaxRows /\ Extends(rows[l], rows'[l])
<1>1. rows \in [Kinds -> Seq(Row)] /\ \A l \in Kinds : Len(rows[l]) <= MaxRows
  BY DEF TablesTyped
<1>2. rows' \in [Kinds -> Seq(Row)] /\ \A l \in Kinds : rows'[l] = IF l = k THEN later ELSE rows[l]
  BY <1>1
<1> QED
  BY <1>1, <1>2, ExtendsItself

LEMMA RestartKeeps ==
    ASSUME TablesTyped, NumbersBounded, Restart
    PROVE  StoredWell
<1> DEFINE table == rows["workstreams"]
           S     == {wn \in Workspaces \X DefaultNames : ~NameTaken(table, wn[1], wn[2])}
           new   == [i \in DOMAIN SetToSeq(S) |-> Unnumbered(SetToSeq(S)[i][1], 0, SetToSeq(S)[i][2])]
           later == StoreNumbered(table, new)
<1>1. "workstreams" \in Kinds /\ "projects" \in Kinds
  BY DEF Kinds
<1>2. rows' = [rows EXCEPT !["workstreams"] = later] /\ Len(rows'["workstreams"]) <= MaxRows
      /\ UNCHANGED <<assigned, entries, ghosts>>
  BY DEF Restart, ensureDefaultWorkstreams
<1>3. new \in Seq(Row) /\ \A i \in DOMAIN new : new[i].ws \in Workspaces
  <2>1. S \in SUBSET (Workspaces \X DefaultNames)
    OBVIOUS
  <2> HIDE DEF S
  <2> QED
    BY <2>1, MissingRows
<1> HIDE DEF new
<1>4. rows \in [Kinds -> Seq(Row)] /\ table \in Seq(Row)
  BY <1>1 DEF TablesTyped
<1> HIDE DEF later
<1>5. rows'["workstreams"] = later
  BY <1>1, <1>2, <1>4
<1>6. Len(later) <= MaxRows
  BY <1>2, <1>5
<1>7. later \in Seq(Row) /\ Extends(table, later)
  BY <1>3, <1>4, <1>6, StoredOneByOne, StoreExtends DEF later
<1>8. /\ rows' \in [Kinds -> Seq(Row)]
      /\ \A l \in Kinds : Len(rows'[l]) <= MaxRows /\ Extends(rows[l], rows'[l])
  BY <1>1, <1>2, <1>6, <1>7, OneExtended
<1>9. assigned' = assigned /\ assigned \subseteq Ids \X Ids
  BY <1>2 DEF TablesTyped
<1>10. TablesTyped'
  BY <1>2, <1>8, <1>9, ExtensionTyped
<1>11. Kept /\ NewRows
  BY <1>2, <1>8, <1>9, <1>10, ExtensionKeeps
<1>12. Len(Projects') = Len(Projects) /\ NewEntries
  BY <1>1, <1>2, <1>4 DEF Projects, NewEntries
<1> QED
  BY <1>10, <1>11, <1>12 DEF StoredWell

LEMMA NextRequests ==
    ASSUME requests \in 0..MaxRequests, Next
    PROVE  requests' \in 0..MaxRequests
<1>0. MaxRequests \in Nat
  BY CatalogueAssumption
<1>1. \/ UNCHANGED requests
      \/ requests < MaxRequests /\ requests' = requests + 1
  <2>1. ASSUME NEW p, Form(p)
        PROVE  Begin(p)
    BY <2>1 DEF Form, saveCustomer, saveProject, saveActivity, saveTask, saveWorkstream, DeleteWorkstream,
                saveProjectWorkstream, removeProjectWorkstream
  <2>2. ASSUME NEW p, NEW e, saveTimesheet(p, e)
        PROVE  Begin(p)
    BY <2>2 DEF saveTimesheet
  <2>3. ASSUME NEW p, Serve(p)
        PROVE  UNCHANGED requests
    BY <2>3 DEF Serve, UpsertStatement, Insert, ListWorkstreams, UpsertProjectWorkstream,
                RemoveProjectWorkstream, TrackProject, SelectActivity, SelectWorkstream, SelectTask,
                CreateTimesheet, Continue
  <2>4. CASE Restart
    BY <2>4 DEF Restart
  <2> QED
    BY <2>1, <2>2, <2>3, <2>4 DEF Next, Begin
<1> QED
  BY <1>0, <1>1

LEMMA NextKeeps ==
    ASSUME IInv, Next
    PROVE  /\ StoredWell /\ Served' /\ requests' \in 0..MaxRequests
           /\ \A q \in Handlers : (pc'[q] = pc[q] /\ req'[q] = req[q]) \/ Sound(q)
<1>1. /\ TablesTyped /\ RowsLive /\ NumbersBounded /\ Served /\ requests \in 0..MaxRequests
      /\ \A p \in Handlers : FormKnown(p) /\ NumberFresh(p) /\ SelectionHolds(p)
  BY DEF IInv, TypeOK, TypedWith, TablesTyped, Served, RequestHolds
<1>2. requests' \in 0..MaxRequests
  BY <1>1, NextRequests
<1>3. ASSUME NEW p \in Handlers,
             Form(p) \/ Serve(p) \/ ("entries" \in FormKinds[p] /\ \E e \in Selections : saveTimesheet(p, e))
      PROVE  StoredWell /\ MovesOnly(p) /\ (Sound(p) \/ UNCHANGED <<pc, req>>)
  <2>1. CASE Form(p)
    BY <1>1, <2>1, FormMoves, FormSound
  <2>2. CASE Serve(p)
    BY <1>1, <2>2, ServeMoves, ServeSound
  <2>3. ASSUME "entries" \in FormKinds[p], NEW e \in Selections, saveTimesheet(p, e)
        PROVE  StoredWell /\ MovesOnly(p) /\ Sound(p)
    BY <1>1, <2>3, SelectionSound, ArriveMoves DEF saveTimesheet
  <2> QED
    BY <1>3, <2>1, <2>2, <2>3
<1>4. ASSUME NEW p \in Handlers, MovesOnly(p), Sound(p) \/ UNCHANGED <<pc, req>>
      PROVE  Served' /\ \A q \in Handlers : (pc'[q] = pc[q] /\ req'[q] = req[q]) \/ Sound(q)
  <2>1. \A q \in Handlers \ {p} : pc'[q] = pc[q] /\ req'[q] = req[q]
    BY <1>1, <1>4 DEF MovesOnly, Served
  <2>2. pc'[p] \in Stages \cup SetupStages /\ req'[p] \in Request
    BY <1>1, <1>4 DEF Sound, Served
  <2>3. Served'
    BY <1>1, <1>4, <2>2 DEF MovesOnly, Served
  <2> QED
    BY <1>4, <2>1, <2>3
<1>5. CASE Restart
  <2>1. StoredWell
    BY <1>1, <1>5, RestartKeeps
  <2>2. pc' = [p \in Handlers |-> "idle"] /\ req' = [p \in Handlers |-> NoRequest]
    BY <1>5 DEF Restart
  <2>3. Served'
    BY <2>2, NoRequestTyped DEF Served, Stages
  <2>4. ASSUME NEW q \in Handlers PROVE Sound(q)
    BY <2>2, NoRequestTyped DEF Sound, Stages, FormKnown, NumberFresh, SelectionHolds
  <2> QED
    BY <1>2, <2>1, <2>3, <2>4
<1> QED
  BY <1>2, <1>3, <1>4, <1>5 DEF Next

-----------------------------------------------------------------------------
(* The other forms beside the wizard and the templates.                    *)

LEMMA TypedAfter ==
    ASSUME TablesTyped', Served', requests' \in 0..MaxRequests, cookie' \in Draft, draft' \in [Handlers -> Draft],
           members' \in Seq([Users -> Roles \cup {"none"}]), Len(members') = Len(Projects'),
           templates' \in Seq(Template), copy' \in [Handlers -> Copy]
    PROVE  TypeOK'
BY DEF TypeOK, TypedWith, TablesTyped, Served, Projects, Workstreams

LEMMA NoDraftTyped == NoDraft \in Draft /\ NoCopy \in Copy
<1>1. 0 \in Ids /\ 0 \in 0..MaxParts /\ 0 \in Nat
  BY CatalogueAssumption, SetupAssumption DEF Ids
<1>2. NoDraft \in Draft
  BY <1>1 DEF NoDraft, Draft
<1>3. NoCopy \in Copy
  BY <1>1 DEF NoCopy, Copy
<1> QED
  BY <1>2, <1>3

LEMMA OthersKeep ==
    ASSUME IInv, Others
    PROVE  IInv'
<1>1. /\ TypeOK /\ Next /\ UNCHANGED <<cookie, templates>>
      /\ members' = (IF Len(Projects') > Len(members) THEN Append(members, [u \in Users |-> "none"])
                     ELSE members)
      /\ draft' = [p \in Handlers |-> IF pc'[p] = "idle" THEN NoDraft ELSE draft[p]]
      /\ copy' = [p \in Handlers |-> IF pc'[p] = "idle" THEN NoCopy ELSE copy[p]]
  BY DEF Others, IInv
<1>2. /\ cookie \in Draft /\ draft \in [Handlers -> Draft]
      /\ members \in Seq([Users -> Roles \cup {"none"}]) /\ Len(members) = Len(Projects)
      /\ templates \in Seq(Template) /\ copy \in [Handlers -> Copy]
  BY <1>1 DEF TypeOK
<1>3. /\ StoredWell /\ Served' /\ requests' \in 0..MaxRequests
      /\ \A q \in Handlers : (pc'[q] = pc[q] /\ req'[q] = req[q]) \/ Sound(q)
  BY <1>1, NextKeeps
<1>4. Kept /\ NewRows /\ NewEntries /\ TablesTyped' /\ Len(Projects') \in {Len(Projects), Len(Projects) + 1}
  BY <1>3 DEF StoredWell
<1>5. members' \in Seq([Users -> Roles \cup {"none"}]) /\ Len(members') = Len(Projects')
  <2> DEFINE nobody == [u \in Users |-> "none"]
  <2>1. nobody \in [Users -> Roles \cup {"none"}]
    OBVIOUS
  <2> HIDE DEF nobody
  <2>2. /\ Append(members, nobody) \in Seq([Users -> Roles \cup {"none"}])
        /\ Len(Append(members, nobody)) = Len(members) + 1 /\ Len(members) \in Nat
    BY <1>2, <2>1, Appended, LenProperties
  <2>3. members' = IF Len(Projects') > Len(members) THEN Append(members, nobody) ELSE members
    BY <1>1 DEF nobody
  <2> QED
    BY <1>2, <1>4, <2>2, <2>3
<1>6. draft' \in [Handlers -> Draft] /\ copy' \in [Handlers -> Copy]
  BY <1>1, <1>2, NoDraftTyped
<1>7. TypeOK'
  BY <1>1, <1>2, <1>3, <1>4, <1>5, <1>6, TypedAfter
<1>8. ASSUME NEW q \in Handlers PROVE Stays(q) \/ RequestHolds(q)'
  <2>1. CASE pc'[q] = "idle"
    BY <2>1, RequestAtRest
  <2>2. CASE pc'[q] # "idle" /\ pc'[q] = pc[q] /\ req'[q] = req[q]
    BY <1>1, <2>2 DEF Stays
  <2>3. CASE Sound(q)
    <3>1. FormKnown(q)' /\ NumberFresh(q)' /\ SelectionHolds(q)' /\ pc'[q] \in Stages
      BY <2>3 DEF Sound
    <3>2. DraftKnown(q)' /\ CopyKnown(q)'
      BY <3>1 DEF Stages, DraftKnown, CopyKnown
    <3> QED
      BY <3>1, <3>2 DEF RequestHolds
  <2> QED
    BY <1>3, <2>1, <2>2, <2>3
<1>9. Len(templates') = Len(templates)
  BY <1>1
<1> QED
  BY <1>4, <1>7, <1>8, <1>9, InvariantKept

-----------------------------------------------------------------------------
(* What a project made at once adds.                                       *)

\* The rows of new, wherever their numbers come from, are stored behind those of table.
Behind(table, new, later) ==
    /\ later \in Seq(Row) /\ Len(later) = Len(table) + Len(new) /\ Extends(table, later)
    /\ \A i \in (Len(table) + 1)..(Len(table) + Len(new)) :
         /\ i - Len(table) \in DOMAIN new
         /\ later[i].ws = new[i - Len(table)].ws /\ later[i].of = new[i - Len(table)].of

\* Rows without numbers, all of one workspace, that refer to one row.
NewFor(new, n, w, of) ==
    /\ new \in Seq(Row) /\ DOMAIN new = 1..n /\ Len(new) = n
    /\ \A i \in 1..n : new[i].ws = w /\ new[i].of = of /\ new[i].number = 0 /\ new[i].after = 0

LEMMA StoredBehind ==
    ASSUME NEW table \in Seq(Row), NEW n \in Nat, NEW w \in Workspaces, NEW of, NEW new, NewFor(new, n, w, of),
           Len(StoreNumbered(table, new)) <= MaxRows
    PROVE  Behind(table, new, StoreNumbered(table, new))
<1>1. new \in Seq(Row) /\ \A i \in DOMAIN new : new[i].ws \in Workspaces
  BY DEF NewFor
<1>2. Extends(table, StoreNumbered(table, new))
  BY <1>1, StoreExtends
<1> QED
  BY <1>1, <1>2, StoredOneByOne DEF Behind

LEMMA AppendedBehind ==
    ASSUME NEW table \in Seq(Row), NEW n \in Nat, NEW w \in Workspaces, NEW of, NEW new, NewFor(new, n, w, of)
    PROVE  Behind(table, new, table \o new)
<1> DEFINE s == table \o new
<1>1. /\ new \in Seq(Row) /\ DOMAIN new = 1..n /\ Len(new) = n
      /\ \A i \in 1..n : new[i].ws = w /\ new[i].of = of /\ new[i].number = 0 /\ new[i].after = 0
  BY DEF NewFor
<1>2. /\ s \in Seq(Row) /\ Len(s) = Len(table) + Len(new) /\ DOMAIN s = 1..(Len(table) + Len(new))
      /\ \A i \in DOMAIN table : s[i] = table[i]
      /\ \A i \in (Len(table) + 1)..(Len(table) + Len(new)) :
           s[i] = new[i - Len(table)] /\ i - Len(table) \in DOMAIN new
  BY <1>1, Concatenated
<1>3. Len(table) \in Nat
  BY TableDomain
<1> HIDE DEF s
<1>4. \A i \in DOMAIN s : i > Len(table) => s[i].ws \in Workspaces /\ s[i].number = 0 /\ s[i].after = 0
  <2> SUFFICES ASSUME NEW i \in DOMAIN s, i > Len(table)
               PROVE  s[i].ws \in Workspaces /\ s[i].number = 0 /\ s[i].after = 0
    OBVIOUS
  <2>1. i \in (Len(table) + 1)..(Len(table) + Len(new))
    BY <1>1, <1>2, <1>3
  <2>2. s[i] = new[i - Len(table)] /\ i - Len(table) \in 1..n
    BY <1>1, <1>2, <2>1
  <2> QED
    BY <1>1, <2>2
<1>5. Len(s) >= Len(table)
  BY <1>1, <1>2, <1>3
<1>6. Extends(table, s)
  BY <1>2, <1>4, <1>5 DEF Extends
<1> QED
  BY <1>2, <1>6 DEF Behind, s

LEMMA RowsFor ==
    ASSUME NEW n \in Nat, NEW w \in Workspaces, NEW of \in Ids, NEW names,
           \A i \in 1..n : names[i] \in Names \cup {"none"}
    PROVE  NewFor([i \in 1..n |-> Unnumbered(w, of, names[i])], n, w, of)
<1> DEFINE new == [i \in 1..n |-> Unnumbered(w, of, names[i])]
<1>1. ASSUME NEW i \in 1..n
      PROVE  new[i] \in Row /\ new[i].ws = w /\ new[i].of = of /\ new[i].number = 0 /\ new[i].after = 0
  BY UnnumberedRow
<1>2. new \in [1..n -> Row] /\ DOMAIN new = 1..n
  BY <1>1
<1> HIDE DEF new
<1>3. new \in Seq(Row) /\ Len(new) = n
  BY <1>2, SequenceOf, LengthOf
<1> QED
  BY <1>1, <1>2, <1>3 DEF NewFor, new

LEMMA PartsFor ==
    ASSUME NEW n \in Nat, NEW w \in Workspaces, NEW of \in Ids
    PROVE  NewFor([i \in 1..n |-> Unnumbered(w, of, "none")], n, w, of)
<1> DEFINE new == [i \in 1..n |-> Unnumbered(w, of, "none")]
<1>1. ASSUME NEW i \in 1..n
      PROVE  new[i] \in Row /\ new[i].ws = w /\ new[i].of = of /\ new[i].number = 0 /\ new[i].after = 0
  BY UnnumberedRow
<1>2. new \in [1..n -> Row] /\ DOMAIN new = 1..n
  BY <1>1
<1> HIDE DEF new
<1>3. new \in Seq(Row) /\ Len(new) = n
  BY <1>2, SequenceOf, LengthOf
<1> QED
  BY <1>1, <1>2, <1>3 DEF NewFor, new

\* The rows that are new in the end: n of them, all of one workspace, that refer to one row.
Adds(table, later, n, w, of) ==
    /\ Len(later) = Len(table) + n
    /\ IsPrefix(table, later)
    /\ {i \in DOMAIN later : i > Len(table)} = (Len(table) + 1)..(Len(table) + n)
    /\ Cardinality({i \in DOMAIN later : i > Len(table)}) = n
    /\ \A i \in (Len(table) + 1)..(Len(table) + n) : later[i].ws = w /\ later[i].of = of

LEMMA BehindAdds ==
    ASSUME NEW table \in Seq(Row), NEW n \in Nat, NEW w, NEW of, NEW new, NewFor(new, n, w, of),
           NEW later, Behind(table, new, later)
    PROVE  Adds(table, later, n, w, of)
<1>1. /\ DOMAIN new = 1..n /\ Len(new) = n /\ \A i \in 1..n : new[i].ws = w /\ new[i].of = of
      /\ later \in Seq(Row) /\ Len(later) = Len(table) + Len(new)
      /\ \A i \in DOMAIN table : later[i] = table[i]
      /\ \A i \in (Len(table) + 1)..(Len(table) + Len(new)) :
           /\ i - Len(table) \in DOMAIN new
           /\ later[i].ws = new[i - Len(table)].ws /\ later[i].of = new[i - Len(table)].of
  BY DEF NewFor, Behind, Extends
<1>2. DOMAIN table = 1..Len(table) /\ Len(table) \in Nat /\ DOMAIN later = 1..Len(later)
  BY <1>1, TableDomain
<1>3. {i \in DOMAIN later : i > Len(table)} = (Len(table) + 1)..(Len(table) + n)
  BY <1>1, <1>2
<1>4. Cardinality((Len(table) + 1)..(Len(table) + n)) = n
  <2> DEFINE a == Len(table) + 1
             b == Len(table) + n
  <2>1. a \in Int /\ b \in Int /\ b - a + 1 = n /\ (a > b => n = 0)
    BY <1>2
  <2> HIDE DEF a, b
  <2>2. Cardinality(a..b) = IF a > b THEN 0 ELSE b - a + 1
    BY <2>1, FS_Interval
  <2> QED
    BY <2>1, <2>2 DEF a, b
<1>5. IsPrefix(table, later)
  <2>1. Len(table) <= Len(later) /\ \A i \in 1..Len(table) : table[i] = later[i]
    BY <1>1, <1>2
  <2>2. SubSeq(later, 1, Len(table)) = table
    <3> DEFINE part == SubSeq(later, 1, Len(table))
    <3>1. Len(table) \in 0..Len(later)
      BY <1>1, <1>2
    <3>2. part \in Seq(Row) /\ Len(part) = Len(table) /\ \A i \in 1..Len(table) : part[i] = later[i]
      BY <1>1, <3>1, <1>2
    <3> HIDE DEF part
    <3>3. \A i \in 1..Len(table) : part[i] = table[i]
      BY <2>1, <3>2
    <3> QED
      BY <3>2, <3>3, SeqEqual DEF part
  <2> QED
    BY <2>1, <2>2 DEF IsPrefix
<1> QED
  BY <1>1, <1>2, <1>3, <1>4, <1>5 DEF Adds

\* The tables t are as the draft d of workspace w asks.
AsAsked(d, w, t) ==
    /\ t.rows \in [Kinds -> Seq(Row)]
    /\ \E new : NewFor(new, 1, w, d.customer) /\ Behind(Projects, new, t.rows["projects"])
    /\ \E n \in Nat : \E new : NewFor(new, n, w, 0) /\ Behind(Workstreams, new, t.rows["workstreams"])
    /\ \E new : /\ NewFor(new, Cardinality(d.activities), w, Len(Projects) + 1)
                /\ Behind(Activities, new, t.rows["activities"])
    /\ t.rows["customers"] = Customers /\ t.rows["tasks"] = Tasks
    /\ assigned \subseteq t.assigned /\ t.assigned \subseteq Ids \X Ids
    /\ \A pair \in t.assigned \ assigned :
         /\ pair[1] = Len(Projects) + 1 /\ pair[2] \in DOMAIN t.rows["workstreams"]
         /\ t.rows["workstreams"][pair[2]].ws = w
    /\ Cardinality(t.assigned \ assigned) = Cardinality(d.workstreams)

LEMMA PairsCounted ==
    ASSUME NEW S, IsFiniteSet(S), NEW id
    PROVE  Cardinality({<<id, i>> : i \in S}) = Cardinality(S)
<1> DEFINE T == {<<id, i>> : i \in S}
           f == [i \in S |-> <<id, i>>]
<1>1. f \in Bijection(S, T)
  <2>1. f \in [S -> T]
    OBVIOUS
  <2>2. \A a, b \in S : f[a] = f[b] => a = b
    OBVIOUS
  <2>3. \A y \in T : \E x \in S : f[x] = y
    OBVIOUS
  <2> QED
    BY <2>1, <2>2, <2>3 DEF Bijection, Injection, Surjection, IsInjective
<1>2. ExistsBijection(S, T)
  BY <1>1 DEF ExistsBijection
<1> QED
  BY <1>2, FS_Bijection

LEMMA DraftStored ==
    ASSUME TablesTyped, NEW d \in Draft, NEW w \in Workspaces, NEW numbered \in BOOLEAN, DraftHolds(d, w),
           \A i \in d.workstreams \cap Ids : i \in DOMAIN Workstreams /\ Workstreams[i].ws \in {w, 0},
           NEW t, t = FromDraft(d, w, numbered), \A k \in Kinds : Len(t.rows[k]) <= MaxRows
    PROVE  AsAsked(d, w, t)
<1> DEFINE id         == Len(Projects) + 1
           project    == <<Unnumbered(w, d.customer, "none")>>
           fresh      == d.workstreams \cap Names
           kept       == d.workstreams \cap Ids
           names      == SetToSeq(fresh)
           new        == [i \in DOMAIN names |-> Unnumbered(w, 0, names[i])]
           activities == [i \in 1..Cardinality(d.activities) |-> Unnumbered(w, id, "none")]
           stored     == kept \cup {Len(Workstreams) + i : i \in DOMAIN names}
           n          == Cardinality(fresh)
<1>1. /\ t.rows = [rows EXCEPT !["projects"] = IF numbered THEN StoreNumbered(@, project) ELSE @ \o project,
                               !["workstreams"] = StoreNumbered(@, new),
                               !["activities"] = StoreNumbered(@, activities)]
      /\ t.assigned = assigned \cup {<<id, i>> : i \in stored}
  BY DEF FromDraft
<1>2. /\ d.customer \in Ids /\ d.workstreams \subseteq Ids \cup Names /\ d.activities \subseteq Ids
      /\ 0 \in Ids /\ "none" \in Names \cup {"none"}
  BY CatalogueAssumption DEF Draft, Ids
<1>3. IsFiniteSet(Ids) /\ IsFiniteSet(d.activities) /\ IsFiniteSet(fresh) /\ IsFiniteSet(kept)
  <2>1. IsFiniteSet(Ids)
    <3>1. 0 \in Int /\ MaxRows \in Int
      BY CatalogueAssumption
    <3> QED
      BY <3>1, FS_Interval DEF Ids
  <2> QED
    BY <1>2, <2>1, CatalogueAssumption, FS_Subset
<1>4. /\ n \in Nat /\ DOMAIN names = 1..n /\ \A i \in 1..n : names[i] \in Names
      /\ Cardinality(d.activities) \in Nat
  <2>1. n \in Nat /\ names \in Seq(fresh) /\ DOMAIN names = 1..n
    BY <1>3, SetInOrder
  <2>2. \A i \in 1..n : names[i] \in fresh
    BY <2>1, ElementTypes
  <2> QED
    BY <1>3, <2>1, <2>2, FS_CardinalityType
<1>5. /\ Projects \in Seq(Row) /\ Workstreams \in Seq(Row) /\ Activities \in Seq(Row)
      /\ Len(Projects) \in Nat /\ Len(Workstreams) \in Nat
      /\ DOMAIN Projects = 1..Len(Projects) /\ DOMAIN Workstreams = 1..Len(Workstreams)
  BY RowFacts, CatalogueAssumption DEF Projects, Workstreams, Activities, Kinds, Ids
<1>6. NewFor(project, 1, w, d.customer)
  <2>1. Unnumbered(w, d.customer, "none") \in Row
        /\ Unnumbered(w, d.customer, "none").ws = w /\ Unnumbered(w, d.customer, "none").of = d.customer
        /\ Unnumbered(w, d.customer, "none").number = 0 /\ Unnumbered(w, d.customer, "none").after = 0
    BY <1>2, UnnumberedRow
  <2> QED
    BY <2>1 DEF NewFor
<1>7. NewFor(new, n, w, 0)
  <2>1. new = [i \in 1..n |-> Unnumbered(w, 0, names[i])]
    BY <1>4
  <2>2. \A i \in 1..n : names[i] \in Names \cup {"none"}
    BY <1>4
  <2> HIDE DEF names
  <2> QED
    BY <1>2, <1>4, <2>1, <2>2, RowsFor
<1> HIDE DEF project, new
<1>8. /\ t.rows["projects"] = (IF numbered THEN StoreNumbered(Projects, project) ELSE Projects \o project)
      /\ t.rows["workstreams"] = StoreNumbered(Workstreams, new)
      /\ t.rows["activities"] = StoreNumbered(Activities, activities)
      /\ t.rows["customers"] = Customers /\ t.rows["tasks"] = Tasks
      /\ DOMAIN t.rows = Kinds
  <2>1. DOMAIN rows = Kinds
    BY DEF TablesTyped
  <2> HIDE DEF activities
  <2> QED
    BY <1>1, <2>1 DEF Projects, Workstreams, Activities, Customers, Tasks, Kinds
<1>9. Behind(Projects, project, t.rows["projects"])
  <2>1. Len(t.rows["projects"]) <= MaxRows
    BY DEF Kinds
  <2>2. CASE numbered
    BY <1>5, <1>6, <1>8, <2>1, <2>2, StoredBehind
  <2>3. CASE ~numbered
    BY <1>5, <1>6, <1>8, <2>3, AppendedBehind
  <2> QED
    BY <2>2, <2>3
<1>10. id \in Ids /\ id \in Nat
  <2>1. Len(t.rows["projects"]) <= MaxRows
    BY DEF Kinds
  <2>2. Len(t.rows["projects"]) = Len(Projects) + 1
    BY <1>6, <1>9 DEF Behind, NewFor
  <2> QED
    BY <1>5, <2>1, <2>2, CatalogueAssumption DEF Ids
<1>11. Behind(Workstreams, new, t.rows["workstreams"])
  <2>1. Len(t.rows["workstreams"]) <= MaxRows
    BY DEF Kinds
  <2> QED
    BY <1>4, <1>5, <1>7, <1>8, <2>1, StoredBehind
<1>12. NewFor(activities, Cardinality(d.activities), w, id)
  <2> HIDE DEF id
  <2> QED
    BY <1>4, <1>10, PartsFor
<1> HIDE DEF activities
<1>13. Behind(Activities, activities, t.rows["activities"])
  <2>1. Len(t.rows["activities"]) <= MaxRows
    BY DEF Kinds
  <2> QED
    BY <1>4, <1>5, <1>8, <1>12, <2>1, StoredBehind
<1>14. t.rows \in [Kinds -> Seq(Row)]
  <2>1. \A k \in Kinds : t.rows[k] \in Seq(Row)
    <3>1. /\ t.rows["projects"] \in Seq(Row) /\ t.rows["workstreams"] \in Seq(Row)
          /\ t.rows["activities"] \in Seq(Row)
      BY <1>9, <1>11, <1>13 DEF Behind
    <3>2. Customers \in Seq(Row) /\ Tasks \in Seq(Row)
      BY DEF TablesTyped, Kinds, Customers, Tasks
    <3> QED
      BY <1>8, <3>1, <3>2 DEF Kinds
  <2>2. t.rows = [k \in Kinds |-> t.rows[k]]
    BY <1>1 DEF TablesTyped
  <2> QED
    BY <2>1, <2>2
<1>15. \A i \in stored : i \in Ids /\ i \in DOMAIN t.rows["workstreams"] /\ t.rows["workstreams"][i].ws = w
  <2> DEFINE later == t.rows["workstreams"]
  <2>1. /\ Len(later) = Len(Workstreams) + n /\ later \in Seq(Row) /\ Len(later) <= MaxRows
        /\ \A i \in (Len(Workstreams) + 1)..(Len(Workstreams) + n) : later[i].ws = w
        /\ \A i \in DOMAIN Workstreams : later[i] = Workstreams[i]
    <3>1. Len(later) <= MaxRows
      BY DEF Kinds
    <3>2. /\ Len(later) = Len(Workstreams) + n
          /\ \A i \in (Len(Workstreams) + 1)..(Len(Workstreams) + n) : later[i].ws = w
      <4>1. Workstreams \in Seq(Row) /\ n \in Nat /\ NewFor(new, n, w, 0) /\ Behind(Workstreams, new, later)
        BY <1>4, <1>5, <1>7, <1>11
      <4> HIDE DEF later, n
      <4>2. Adds(Workstreams, later, n, w, 0)
        BY ONLY <4>1, BehindAdds
      <4> QED
        BY <4>2 DEF Adds
    <3>3. later \in Seq(Row) /\ \A i \in DOMAIN Workstreams : later[i] = Workstreams[i]
      BY <1>11 DEF Behind, Extends
    <3> QED
      BY <3>1, <3>2, <3>3
  <2>2. DOMAIN later = 1..Len(later) /\ Len(later) \in Nat
    BY <2>1, TableDomain
  <2> HIDE DEF later
  <2>3. ASSUME NEW i \in kept PROVE i \in Ids /\ i \in DOMAIN later /\ later[i].ws = w
    <3>1. i \in DOMAIN Workstreams /\ Workstreams[i].ws \in {w, 0} /\ Workstreams[i].ws # 0
      BY DEF DraftHolds, Referable
    <3>2. i \in DOMAIN later
      BY <1>4, <1>5, <2>1, <2>2, <3>1
    <3> QED
      BY <2>1, <3>1, <3>2
  <2>4. ASSUME NEW i \in 1..n PROVE LET j == Len(Workstreams) + i IN j \in Ids /\ j \in DOMAIN later /\ later[j].ws = w
    <3>1. Len(Workstreams) + i \in (Len(Workstreams) + 1)..(Len(Workstreams) + n)
          /\ Len(Workstreams) + i \in 1..Len(later) /\ Len(Workstreams) + i \in 0..MaxRows
      BY <1>4, <1>5, <2>1, <2>2, CatalogueAssumption
    <3> QED
      BY <2>1, <2>2, <3>1 DEF Ids
  <2>5. \A i \in stored : i \in kept \/ \E j \in 1..n : i = Len(Workstreams) + j
    BY <1>4
  <2> HIDE DEF stored, kept
  <2> QED
    BY <2>3, <2>4, <2>5 DEF later
<1>16. \A pair \in assigned : pair[1] # id
  <2>1. \A pair \in assigned : pair[1] \in DOMAIN Projects
    BY DEF TablesTyped
  <2> QED
    BY <1>5, <2>1
<1> DEFINE pairs == {<<id, i>> : i \in stored}
<1>17. t.assigned \ assigned = pairs
  <2> HIDE DEF id, stored
  <2>1. t.assigned = assigned \cup pairs
    BY <1>1
  <2>2. \A pair \in pairs : pair[1] = id
    OBVIOUS
  <2> HIDE DEF pairs
  <2> QED
    BY <1>16, <2>1, <2>2
<1>18. /\ assigned \subseteq t.assigned /\ t.assigned \subseteq Ids \X Ids
       /\ \A pair \in t.assigned \ assigned :
            /\ pair[1] = id /\ pair[2] \in DOMAIN t.rows["workstreams"]
            /\ t.rows["workstreams"][pair[2]].ws = w
  <2>1. assigned \subseteq Ids \X Ids
    BY DEF TablesTyped
  <2> HIDE DEF stored, id
  <2>2. pairs \subseteq Ids \X Ids
    BY <1>10, <1>15
  <2>3. t.assigned = assigned \cup pairs
    BY <1>1
  <2>4. \A pair \in pairs : /\ pair[1] = id /\ pair[2] \in DOMAIN t.rows["workstreams"]
                            /\ t.rows["workstreams"][pair[2]].ws = w
    BY <1>15
  <2> HIDE DEF pairs
  <2> QED
    BY <1>17, <2>1, <2>2, <2>3, <2>4
<1>19. Cardinality(t.assigned \ assigned) = Cardinality(d.workstreams)
  <2> DEFINE added == {Len(Workstreams) + i : i \in DOMAIN names}
             m     == Len(Workstreams)
  <2>1. added = (m + 1)..(m + n)
    <3>1. \A i \in 1..n : m + i \in (m + 1)..(m + n)
      BY <1>4, <1>5
    <3>2. \A j \in (m + 1)..(m + n) : j - m \in 1..n /\ j = m + (j - m)
      BY <1>4, <1>5
    <3> QED
      BY <1>4, <3>1, <3>2
  <2>2. IsFiniteSet(added) /\ Cardinality(added) = n
    <3>1. m + 1 \in Int /\ m + n \in Int /\ (m + n) - (m + 1) + 1 = n /\ (m + 1 > m + n => n = 0)
      BY <1>4, <1>5
    <3> HIDE DEF m, n
    <3>2. /\ IsFiniteSet((m + 1)..(m + n))
          /\ Cardinality((m + 1)..(m + n)) = IF m + 1 > m + n THEN 0 ELSE (m + n) - (m + 1) + 1
      BY <3>1, FS_Interval
    <3> QED
      BY <2>1, <3>1, <3>2
  <2>3. kept \cap added = {} /\ kept \cap fresh = {} /\ d.workstreams = kept \cup fresh
    <3>1. \A i \in kept : i \in DOMAIN Workstreams
      OBVIOUS
    <3>2. kept \cap added = {}
      <4>1. \A i \in kept : i \in Int /\ i <= m /\ m \in Int
        BY <1>5, <3>1
      <4> HIDE DEF kept, added, m
      <4>2. \A i \in (m + 1)..(m + n) : i > m \/ m \notin Int
        BY <1>4
      <4> QED
        BY <2>1, <4>1, <4>2
    <3>3. kept \cap fresh = {}
      BY CatalogueAssumption DEF Ids
    <3> QED
      BY <1>2, <3>2, <3>3
  <2> HIDE DEF kept, fresh, added, n
  <2>4. Cardinality(kept \cup added) = Cardinality(kept) + n /\ IsFiniteSet(kept \cup added)
    <3>1. Cardinality(kept \cap added) = 0
      <4>1. kept \cap added = {}
        BY <2>3
      <4> QED
        BY ONLY <4>1, FS_EmptySet
    <3>2. Cardinality(kept) \in Nat
      BY <1>3, FS_CardinalityType
    <3>3. /\ IsFiniteSet(kept \cup added)
          /\ Cardinality(kept \cup added) = Cardinality(kept) + Cardinality(added) - Cardinality(kept \cap added)
      BY <1>3, <2>2, FS_Union
    <3> QED
      BY <1>4, <2>2, <2>3, <3>1, <3>2, <3>3
  <2>5. Cardinality(kept \cup fresh) = Cardinality(kept) + Cardinality(fresh)
    <3>1. Cardinality(kept \cap fresh) = 0
      <4>1. kept \cap fresh = {}
        BY <2>3
      <4> QED
        BY ONLY <4>1, FS_EmptySet
    <3>2. Cardinality(kept) \in Nat /\ Cardinality(fresh) \in Nat
      BY <1>3, FS_CardinalityType
    <3>3. Cardinality(kept \cup fresh) = Cardinality(kept) + Cardinality(fresh) - Cardinality(kept \cap fresh)
      BY <1>3, FS_Union
    <3> QED
      BY <2>3, <3>1, <3>2, <3>3
  <2>6. stored = kept \cup added
    BY DEF added
  <2>7. Cardinality(pairs) = Cardinality(stored)
    <3> HIDE DEF stored, id
    <3>1. IsFiniteSet(stored)
      BY <2>4, <2>6
    <3> QED
      BY <3>1, PairsCounted
  <2> HIDE DEF pairs, stored
  <2> QED
    BY <1>17, <2>3, <2>4, <2>5, <2>6, <2>7 DEF n
<1> HIDE DEF id
<1>20. /\ \E some : NewFor(some, 1, w, d.customer) /\ Behind(Projects, some, t.rows["projects"])
       /\ \E m \in Nat : \E some : NewFor(some, m, w, 0) /\ Behind(Workstreams, some, t.rows["workstreams"])
       /\ \E some : NewFor(some, Cardinality(d.activities), w, id) /\ Behind(Activities, some, t.rows["activities"])
  <2> HIDE DEF n
  <2> QED
    BY <1>4, <1>6, <1>7, <1>9, <1>11, <1>12, <1>13
<1> QED
  BY <1>8, <1>14, <1>18, <1>19, <1>20 DEF AsAsked, id

-----------------------------------------------------------------------------
(* The steps of the wizard and of the templates.                           *)

\* The step moves p alone.
SetupMoves(p) ==
    /\ pc' = [pc EXCEPT ![p] = pc'[p]] /\ req' = [req EXCEPT ![p] = req'[p]]
    /\ draft' = [draft EXCEPT ![p] = draft'[p]] /\ copy' = [copy EXCEPT ![p] = copy'[p]]
    /\ pc'[p] \in Stages \cup SetupStages /\ req'[p] \in Request
    /\ draft'[p] \in Draft /\ copy'[p] \in Copy

LEMMA SetupKeeps ==
    ASSUME IInv, NEW p \in Handlers, SetupMoves(p), RequestHolds(p)', Kept, NewRows, NewEntries, TablesTyped',
           requests' \in 0..MaxRequests, cookie' \in Draft,
           members' \in Seq([Users -> Roles \cup {"none"}]), Len(members') = Len(Projects'),
           templates' \in Seq(Template), Len(templates') = Len(templates)
    PROVE  IInv'
<1>1. /\ pc \in [Handlers -> Stages \cup SetupStages] /\ req \in [Handlers -> Request]
      /\ draft \in [Handlers -> Draft] /\ copy \in [Handlers -> Copy]
  BY DEF IInv, TypeOK, TypedWith
<1>2. Served' /\ draft' \in [Handlers -> Draft] /\ copy' \in [Handlers -> Copy]
  BY <1>1 DEF SetupMoves, Served
<1>3. \A q \in Handlers \ {p} : Stays(q)
  BY <1>1 DEF SetupMoves, Stays
<1>4. TypeOK'
  BY <1>2, TypedAfter
<1> QED
  BY <1>3, <1>4, InvariantKept

\* A step that stores nothing in the tables.
LEMMA QuietKeeps ==
    ASSUME IInv, NEW p \in Handlers, SetupMoves(p), RequestHolds(p)', Reading, Begin(p) \/ UNCHANGED requests,
           cookie' \in Draft, UNCHANGED members, templates' \in Seq(Template), Len(templates') = Len(templates)
    PROVE  IInv'
<1>1. TablesTyped /\ requests \in 0..MaxRequests /\ MaxRequests \in Nat
      /\ members \in Seq([Users -> Roles \cup {"none"}]) /\ Len(members) = Len(Projects)
  BY CatalogueAssumption DEF IInv, TypeOK, TypedWith, TablesTyped
<1>2. Kept /\ NewRows /\ NewEntries /\ TablesTyped' /\ Len(Projects') = Len(Projects)
  BY <1>1, NothingStored
<1>3. requests' \in 0..MaxRequests
  BY <1>1 DEF Begin
<1> QED
  BY <1>1, <1>2, <1>3, SetupKeeps

LEMMA StepKeeps ==
    ASSUME IInv, NEW p \in Handlers, NEW d \in Draft, Step(p, d)
    PROVE  IInv'
<1>1. /\ pc \in [Handlers -> Stages \cup SetupStages] /\ req \in [Handlers -> Request] /\ cookie \in Draft
      /\ draft \in [Handlers -> Draft] /\ copy \in [Handlers -> Copy] /\ templates \in Seq(Template)
  BY DEF IInv, TypeOK, TypedWith
<1>2. /\ Begin(p) /\ draft' = [draft EXCEPT ![p] = d] /\ pc' = [pc EXCEPT ![p] = "respond"]
      /\ Reading /\ UNCHANGED <<req, cookie, members, templates, copy>>
  BY DEF Step, Goto
<1>3. SetupMoves(p) /\ pc'[p] = "respond"
  BY <1>1, <1>2 DEF SetupMoves, SetupStages
<1> QED
  BY <1>1, <1>2, <1>3, RequestAtRest, QuietKeeps

LEMMA SubmitKeeps ==
    ASSUME IInv, NEW p \in Handlers, NEW w \in Workspaces, Submit(p, w)
    PROVE  IInv'
<1>1. /\ pc \in [Handlers -> Stages \cup SetupStages] /\ req \in [Handlers -> Request] /\ cookie \in Draft
      /\ draft \in [Handlers -> Draft] /\ copy \in [Handlers -> Copy] /\ templates \in Seq(Template)
  BY DEF IInv, TypeOK, TypedWith
<1>2. CASE validateProjectDraftAll(cookie, w)
  <2> DEFINE r == FormOf("projects", w, 0, cookie.customer, "none")
  <2>1. /\ Begin(p) /\ draft' = [draft EXCEPT ![p] = cookie] /\ req' = [req EXCEPT ![p] = r]
        /\ pc' = [pc EXCEPT ![p] = "create"]
        /\ Reading /\ UNCHANGED <<cookie, members, templates, copy>>
    BY <1>2 DEF Submit, Goto
  <2>2. r \in Request /\ r.ws = w
    <3>1. cookie.customer \in Ids /\ 0 \in Ids /\ "projects" \in Kinds
      BY <1>1, CatalogueAssumption DEF Draft, Ids, Kinds
    <3> QED
      BY <3>1, FormOfTyped
  <2> HIDE DEF r
  <2>3. SetupMoves(p) /\ pc'[p] = "create" /\ req'[p] = r /\ draft'[p] = cookie
    BY <1>1, <2>1, <2>2 DEF SetupMoves, SetupStages
  <2>4. UNCHANGED rows
    BY <2>1 DEF Reading, tables
  <2>5. DraftKnown(p)'
    BY <1>2, <2>2, <2>3, <2>4 DEF DraftKnown, validateProjectDraftAll, validateProjectDraftWorkstreams,
                                  OfferedWorkstreams, Workstreams
  <2>6. RequestHolds(p)'
    BY <2>3, <2>5 DEF RequestHolds, FormKnown, NumberFresh, SelectionHolds, CopyKnown
  <2> QED
    BY <1>1, <2>1, <2>3, <2>6, QuietKeeps
<1>3. CASE ~validateProjectDraftAll(cookie, w)
  BY <1>1, <1>3, StepKeeps DEF Submit
<1> QED
  BY <1>2, <1>3

LEMMA DraftStepsKeep ==
    ASSUME IInv, NEW p \in Handlers, Wizard(p), ~CreateProjectFromDraft(p)
    PROVE  IInv'
<1>1. /\ pc \in [Handlers -> Stages \cup SetupStages] /\ req \in [Handlers -> Request] /\ cookie \in Draft
      /\ draft \in [Handlers -> Draft] /\ copy \in [Handlers -> Copy] /\ templates \in Seq(Template)
      /\ TablesTyped
  BY DEF IInv, TypeOK, TypedWith, TablesTyped
<1>2. 0 \in Ids /\ DOMAIN Customers \subseteq Ids /\ DOMAIN Activities \subseteq Ids
      /\ DOMAIN Workstreams \subseteq Ids
  BY <1>1, RowFacts, CatalogueAssumption DEF Customers, Activities, Workstreams, Kinds, Ids
<1> HIDE DEF Ids
<1>3. ASSUME NEW customer \in DOMAIN Customers \cup {0}, readProjectDraftDetails(p, customer)
      PROVE  IInv'
  <2>1. [cookie EXCEPT !.customer = customer] \in Draft
    BY <1>1, <1>2 DEF Draft
  <2> QED
    BY <1>3, <2>1, StepKeeps DEF readProjectDraftDetails
<1>4. ASSUME NEW w \in Workspaces, NEW item \in Ids \cup Names, addDraftWorkstream(p, w, item)
      PROVE  IInv'
  <2>1. [cookie EXCEPT !.workstreams = @ \cup {item}] \in Draft
    BY <1>1 DEF Draft
  <2> QED
    BY <1>4, <2>1, StepKeeps DEF addDraftWorkstream
<1>5. ASSUME NEW w \in Workspaces, NEW item \in Ids, addDraftActivity(p, w, item)
      PROVE  IInv'
  <2>1. [cookie EXCEPT !.activities = @ \cup {item}] \in Draft
    BY <1>1 DEF Draft
  <2> QED
    BY <1>5, <2>1, StepKeeps DEF addDraftActivity
<1>6. ASSUME NEW w \in Workspaces, NEW us \in SUBSET Users \ {{}}, NEW role \in Roles,
             addDraftUsers(p, w, us, role)
      PROVE  IInv'
  <2>1. [cookie EXCEPT !.members = [u \in Users |-> IF u \in us THEN role ELSE @[u]]] \in Draft
    BY <1>1 DEF Draft
  <2> QED
    BY <1>6, <2>1, StepKeeps DEF addDraftUsers
<1>7. ASSUME NEW w \in Workspaces, Submit(p, w)
      PROVE  IInv'
  BY <1>7, SubmitKeeps
<1>8. ASSUME NEW item, removeDraftWorkstream(p, item)
      PROVE  IInv'
  <2>1. [cookie EXCEPT !.workstreams = @ \ {item}] \in Draft
    BY <1>1 DEF Draft
  <2> QED
    BY <1>8, <2>1, StepKeeps DEF removeDraftWorkstream
<1>9. ASSUME NEW item, removeDraftActivity(p, item)
      PROVE  IInv'
  <2>1. [cookie EXCEPT !.activities = @ \ {item}] \in Draft
    BY <1>1 DEF Draft
  <2> QED
    BY <1>9, <2>1, StepKeeps DEF removeDraftActivity
<1>10. ASSUME NEW u \in Users, removeDraftUser(p, u)
       PROVE  IInv'
  <2>1. [cookie EXCEPT !.members[u] = "none"] \in Draft
    BY <1>1 DEF Draft
  <2> QED
    BY <1>10, <2>1, StepKeeps DEF removeDraftUser
<1>11. CASE persistProjectCreateDraft(p)
  <2>1. /\ cookie' = draft[p] /\ draft' = [draft EXCEPT ![p] = NoDraft] /\ pc' = [pc EXCEPT ![p] = "idle"]
        /\ Reading /\ UNCHANGED <<req, requests, members, templates, copy>>
    BY <1>11 DEF persistProjectCreateDraft, Continue, Goto
  <2>2. SetupMoves(p) /\ pc'[p] = "idle" /\ cookie' \in Draft
    BY <1>1, <2>1, NoDraftTyped DEF SetupMoves, Stages
  <2> QED
    BY <1>1, <2>1, <2>2, RequestAtRest, QuietKeeps
<1> QED
  BY <1>3, <1>4, <1>5, <1>6, <1>7, <1>8, <1>9, <1>10, <1>11 DEF Wizard

LEMMA BehindExtends ==
    ASSUME NEW table, NEW new, NEW later, Behind(table, new, later)
    PROVE  later \in Seq(Row) /\ Extends(table, later)
BY DEF Behind

\* A project from a draft: everything as asked, or nothing.
LEMMA FromDraftStep ==
    ASSUME IInv, NEW p \in Handlers, CreateProjectFromDraft(p)
    PROVE  /\ pc[p] = "create" /\ req[p].ws \in Workspaces /\ draft[p] \in Draft
           /\ pc'[p] \in {"respond", "idle"} /\ UNCHANGED <<entries, ghosts, requests>>
           /\ \/ /\ UNCHANGED <<rows, assigned, members>>
              \/ \E t : /\ AsAsked(draft[p], req[p].ws, t) /\ rows' = t.rows /\ assigned' = t.assigned
                        /\ Len(Projects') = Len(Projects) + 1
                        /\ (\A k \in Kinds : Len(rows'[k]) <= MaxRows)
                        /\ members' = Append(members, draft[p].members)
<1> DEFINE d     == draft[p]
           w     == req[p].ws
           holds == DraftHolds(d, w)
<1>1. /\ TablesTyped /\ pc \in [Handlers -> Stages \cup SetupStages] /\ draft \in [Handlers -> Draft]
      /\ DraftKnown(p) /\ RequestHolds(p)
  BY DEF IInv, TypeOK, TypedWith, TablesTyped, RequestHolds
<1>2. PICK numbered \in BOOLEAN :
        LET t == RolledBack(holds, FromDraft(d, w, numbered))
        IN  rows' = t.rows /\ assigned' = t.assigned
  BY DEF CreateProjectFromDraft
<1>3. /\ pc[p] = "create" /\ UNCHANGED requests
      /\ members' = (IF Len(Projects') = Len(Projects) THEN members ELSE Append(members, d.members))
      /\ Goto(p, IF holds THEN "respond" ELSE "idle")
      /\ \A k \in Kinds : Len(rows'[k]) <= MaxRows
      /\ UNCHANGED <<entries, ghosts>>
  BY DEF CreateProjectFromDraft, Continue
<1>4. w \in Workspaces /\ d \in Draft
      /\ \A i \in d.workstreams \cap Ids : i \in DOMAIN Workstreams /\ Workstreams[i].ws \in {w, 0}
  BY <1>1, <1>3 DEF DraftKnown
<1>5. pc'[p] \in {"respond", "idle"}
  BY <1>1, <1>3 DEF Goto
<1>6. CASE ~holds
  <2>1. UNCHANGED <<rows, assigned>>
    BY <1>2, <1>6 DEF RolledBack
  <2>2. UNCHANGED members
    BY <1>3, <2>1 DEF Projects
  <2> QED
    BY <1>3, <1>4, <1>5, <2>1, <2>2
<1>7. CASE holds
  <2>1. PICK t : t = FromDraft(d, w, numbered)
    OBVIOUS
  <2>2. rows' = t.rows /\ assigned' = t.assigned
    BY <1>2, <1>7, <2>1 DEF RolledBack
  <2>3. \A k \in Kinds : Len(t.rows[k]) <= MaxRows
    BY <1>3, <2>2
  <2>4. PICK e, v : e = d /\ v = w
    OBVIOUS
  <2>5. AsAsked(e, v, t)
    <3>1. /\ e \in Draft /\ v \in Workspaces /\ DraftHolds(e, v) /\ t = FromDraft(e, v, numbered)
          /\ \A i \in e.workstreams \cap Ids : i \in DOMAIN Workstreams /\ Workstreams[i].ws \in {v, 0}
      BY <1>4, <1>7, <2>1, <2>4
    <3> HIDE DEF d, w, holds
    <3> QED
      BY <1>1, <2>3, <3>1, DraftStored
  <2>6. Len(t.rows["projects"]) = Len(Projects) + 1 /\ Len(Projects) \in Nat
    <3>1. PICK new : NewFor(new, 1, v, e.customer) /\ Behind(Projects, new, t.rows["projects"])
      BY <2>5 DEF AsAsked
    <3>2. Len(Projects) \in Nat
      BY <1>1, RowFacts, CatalogueAssumption DEF Projects, Kinds, Ids
    <3> QED
      BY <3>1, <3>2 DEF NewFor, Behind
  <2>7. Len(Projects') = Len(Projects) + 1 /\ Len(Projects') # Len(Projects)
    BY <2>2, <2>6 DEF Projects
  <2>8. members' = Append(members, d.members)
    BY <1>3, <2>7
  <2> QED
    BY <1>3, <1>4, <1>5, <2>2, <2>4, <2>5, <2>7, <2>8
<1> QED
  BY <1>6, <1>7

LEMMA FromDraftKeeps ==
    ASSUME IInv, NEW p \in Handlers, CreateProjectFromDraft(p)
    PROVE  IInv'
<1>1. /\ TablesTyped /\ NumbersBounded /\ requests \in 0..MaxRequests
      /\ pc \in [Handlers -> Stages \cup SetupStages] /\ req \in [Handlers -> Request] /\ cookie \in Draft
      /\ draft \in [Handlers -> Draft] /\ copy \in [Handlers -> Copy] /\ templates \in Seq(Template)
      /\ members \in Seq([Users -> Roles \cup {"none"}]) /\ Len(members) = Len(Projects)
  BY DEF IInv, TypeOK, TypedWith, TablesTyped
<1>2. /\ draft[p] \in Draft /\ pc'[p] \in {"respond", "idle"} /\ UNCHANGED <<entries, ghosts, requests>>
      /\ \/ UNCHANGED <<rows, assigned, members>>
         \/ \E t : /\ AsAsked(draft[p], req[p].ws, t) /\ rows' = t.rows /\ assigned' = t.assigned
                   /\ Len(Projects') = Len(Projects) + 1
                   /\ (\A k \in Kinds : Len(rows'[k]) <= MaxRows)
                   /\ members' = Append(members, draft[p].members)
  BY FromDraftStep
<1>3. /\ draft' = [draft EXCEPT ![p] = NoDraft] /\ req' = [req EXCEPT ![p] = NoRequest]
      /\ UNCHANGED <<cookie, templates, copy>> /\ \E stage : pc' = [pc EXCEPT ![p] = stage]
  BY DEF CreateProjectFromDraft, Goto
<1>4. SetupMoves(p)
  BY <1>1, <1>2, <1>3, NoDraftTyped, NoRequestTyped DEF SetupMoves, SetupStages, Stages
<1>5. RequestHolds(p)'
  BY <1>2, RequestAtRest
<1>6. CASE UNCHANGED <<rows, assigned, members>>
  <2>1. Reading
    BY <1>2, <1>6 DEF Reading, tables
  <2> QED
    BY <1>1, <1>2, <1>3, <1>4, <1>5, <1>6, <2>1, QuietKeeps
<1>7. CASE ~UNCHANGED <<rows, assigned, members>>
  <2>1. PICK t : /\ AsAsked(draft[p], req[p].ws, t) /\ rows' = t.rows /\ assigned' = t.assigned
                 /\ Len(Projects') = Len(Projects) + 1
                 /\ (\A k \in Kinds : Len(rows'[k]) <= MaxRows)
                 /\ members' = Append(members, draft[p].members)
    BY <1>2, <1>7
  <2>2. rows' \in [Kinds -> Seq(Row)]
    BY <2>1 DEF AsAsked
  <2>3. \A k \in Kinds : Extends(rows[k], rows'[k])
    <3>1. /\ Extends(rows["projects"], rows'["projects"]) /\ Extends(rows["workstreams"], rows'["workstreams"])
          /\ Extends(rows["activities"], rows'["activities"])
      BY <2>1, BehindExtends DEF AsAsked, Projects, Workstreams, Activities
    <3>2. rows'["customers"] = rows["customers"] /\ rows'["tasks"] = rows["tasks"]
      BY <2>1 DEF AsAsked, Customers, Tasks
    <3>3. rows["customers"] \in Seq(Row) /\ rows["tasks"] \in Seq(Row)
      BY <1>1 DEF TablesTyped, Kinds
    <3> QED
      BY <3>1, <3>2, <3>3, ExtendsItself DEF Kinds
  <2>4. assigned \subseteq assigned' /\ assigned' \subseteq Ids \X Ids
    BY <2>1 DEF AsAsked
  <2>5. \A pair \in assigned' \ assigned :
          /\ pair[1] \in DOMAIN rows'["projects"] /\ pair[2] \in DOMAIN rows'["workstreams"]
          /\ rows'["workstreams"][pair[2]].ws # 0
    <3>1. \A pair \in assigned' \ assigned :
            /\ pair[1] = Len(Projects) + 1 /\ pair[2] \in DOMAIN rows'["workstreams"]
            /\ rows'["workstreams"][pair[2]].ws = req[p].ws
      BY <2>1 DEF AsAsked
    <3>2. req[p].ws # 0
      BY FromDraftStep, CatalogueAssumption
    <3>3. Len(Projects) + 1 \in DOMAIN rows'["projects"]
      <4>1. Len(rows'["projects"]) = Len(Projects) + 1 /\ rows'["projects"] \in Seq(Row)
        BY <2>1, <2>2 DEF Projects, Kinds
      <4>2. Len(Projects) \in Nat
        BY <1>1, RowFacts, CatalogueAssumption DEF Projects, Kinds, Ids
      <4>3. DOMAIN rows'["projects"] = 1..(Len(Projects) + 1)
        BY <4>1, TableDomain
      <4> QED
        BY <4>2, <4>3
    <3> QED
      BY <3>1, <3>2, <3>3
  <2>6. TablesTyped'
    BY <1>1, <1>2, <2>1, <2>2, <2>3, <2>4, <2>5, ExtensionTyped
  <2>7. Kept /\ NewRows
    BY <1>1, <1>2, <2>3, <2>4, <2>6, ExtensionKeeps
  <2>8. NewEntries
    BY <1>2 DEF NewEntries
  <2>9. members' \in Seq([Users -> Roles \cup {"none"}]) /\ Len(members') = Len(Projects')
    <3>1. draft[p].members \in [Users -> Roles \cup {"none"}]
      BY <1>2 DEF Draft
    <3>2. members' \in Seq([Users -> Roles \cup {"none"}]) /\ Len(members') = Len(members) + 1
      BY <1>1, <2>1, <3>1, Appended
    <3> QED
      BY <1>1, <2>1, <3>2
  <2> QED
    BY <1>1, <1>2, <1>3, <1>4, <1>5, <2>6, <2>7, <2>8, <2>9, SetupKeeps
<1> QED
  BY <1>6, <1>7

\* The tables after a copy c of a template is stored.
AsCopied(c) ==
    /\ rows' \in [Kinds -> Seq(Row)]
    /\ \E new : NewFor(new, 1, c.ws, c.customer) /\ Behind(Projects, new, rows'["projects"])
    /\ \E new : NewFor(new, c.tasks, c.ws, Len(Projects) + 1) /\ Behind(Tasks, new, rows'["tasks"])
    /\ \E new : NewFor(new, c.activities, c.ws, Len(Projects) + 1) /\ Behind(Activities, new, rows'["activities"])
    /\ rows'["customers"] = Customers /\ rows'["workstreams"] = Workstreams

LEMMA FromTemplateStep ==
    ASSUME IInv, NEW p \in Handlers, CreateProjectFromTemplate(p)
    PROVE  /\ pc[p] = "copy" /\ copy[p].ws \in Workspaces /\ copy[p] \in Copy
           /\ copy[p].tasks \in Nat /\ copy[p].activities \in Nat
           /\ AsCopied(copy[p]) /\ Len(Projects') = Len(Projects) + 1
           /\ UNCHANGED <<assigned, entries, ghosts, requests>>
<1> DEFINE c  == copy[p]
           id == Len(Projects) + 1
           project == Unnumbered(c.ws, c.customer, "none")
           tasks == [i \in 1..c.tasks |-> Unnumbered(c.ws, id, "none")]
           activities == [i \in 1..c.activities |-> Unnumbered(c.ws, id, "none")]
<1>1. /\ TablesTyped /\ copy \in [Handlers -> Copy] /\ CopyKnown(p)
  BY DEF IInv, TypeOK, TypedWith, TablesTyped, RequestHolds
<1>2. /\ pc[p] = "copy" /\ UNCHANGED <<assigned, entries, ghosts, requests>>
      /\ rows' = [rows EXCEPT !["projects"]   = Append(@, project),
                              !["tasks"]      = @ \o tasks,
                              !["activities"] = @ \o activities]
      /\ \A k \in Kinds : Len(rows'[k]) <= MaxRows
  BY DEF CreateProjectFromTemplate, Continue
<1>3. c \in Copy /\ c.ws \in Workspaces /\ c.customer \in Ids /\ c.tasks \in Nat /\ c.activities \in Nat
  BY <1>1, <1>2, SetupAssumption DEF CopyKnown, Copy
<1>4. /\ Projects \in Seq(Row) /\ Tasks \in Seq(Row) /\ Activities \in Seq(Row) /\ Customers \in Seq(Row)
      /\ Workstreams \in Seq(Row) /\ Len(Projects) \in Nat /\ DOMAIN rows = Kinds
  BY <1>1, RowFacts, CatalogueAssumption DEF TablesTyped, Projects, Tasks, Activities, Customers, Workstreams,
                                             Kinds, Ids
<1> HIDE DEF project, tasks, activities
<1>5. /\ rows'["projects"] = Append(Projects, project) /\ rows'["tasks"] = Tasks \o tasks
      /\ rows'["activities"] = Activities \o activities
      /\ rows'["customers"] = Customers /\ rows'["workstreams"] = Workstreams
      /\ DOMAIN rows' = Kinds
  BY <1>2, <1>4 DEF Projects, Tasks, Activities, Customers, Workstreams, Kinds
<1>6. project \in Row /\ NewFor(<<project>>, 1, c.ws, c.customer)
  <2>1. project \in Row /\ project.ws = c.ws /\ project.of = c.customer /\ project.number = 0 /\ project.after = 0
    BY <1>3, UnnumberedRow DEF project
  <2> QED
    BY <2>1 DEF NewFor
<1>7. Append(Projects, project) = Projects \o <<project>>
  BY <1>4, <1>6
<1>8. Behind(Projects, <<project>>, rows'["projects"])
  BY <1>3, <1>4, <1>5, <1>6, <1>7, AppendedBehind
<1>9. Len(Projects') = id /\ id \in Ids
  <2>1. Len(rows'["projects"]) = Len(Projects) + 1
    BY <1>4, <1>5, <1>6, Appended
  <2>2. Len(rows'["projects"]) <= MaxRows
    BY <1>2 DEF Kinds
  <2> QED
    BY <1>4, <2>1, <2>2, CatalogueAssumption DEF Projects, Ids
<1> HIDE DEF id
<1>10. NewFor(tasks, c.tasks, c.ws, id) /\ NewFor(activities, c.activities, c.ws, id)
  BY <1>3, <1>9, PartsFor DEF tasks, activities
<1>11. Behind(Tasks, tasks, rows'["tasks"]) /\ Behind(Activities, activities, rows'["activities"])
  BY <1>3, <1>4, <1>5, <1>10, AppendedBehind
<1>12. rows' \in [Kinds -> Seq(Row)]
  <2>1. \A k \in Kinds : rows'[k] \in Seq(Row)
    BY <1>4, <1>5, <1>8, <1>11 DEF Behind, Kinds
  <2>2. rows' = [k \in Kinds |-> rows'[k]]
    BY <1>1, <1>2 DEF TablesTyped
  <2> QED
    BY <2>1, <2>2
<1>13. AsCopied(c)
  BY <1>5, <1>6, <1>8, <1>10, <1>11, <1>12 DEF AsCopied, id
<1> QED
  BY <1>2, <1>3, <1>9, <1>13 DEF id

LEMMA FromTemplateStepKeeps ==
    ASSUME IInv, NEW p \in Handlers, CreateProjectFromTemplate(p)
    PROVE  IInv'
<1>1. /\ TablesTyped /\ NumbersBounded /\ requests \in 0..MaxRequests
      /\ pc \in [Handlers -> Stages \cup SetupStages] /\ req \in [Handlers -> Request] /\ cookie \in Draft
      /\ draft \in [Handlers -> Draft] /\ copy \in [Handlers -> Copy] /\ templates \in Seq(Template)
      /\ members \in Seq([Users -> Roles \cup {"none"}]) /\ Len(members) = Len(Projects)
  BY DEF IInv, TypeOK, TypedWith, TablesTyped
<1>2. /\ copy[p].ws \in Workspaces /\ AsCopied(copy[p]) /\ Len(Projects') = Len(Projects) + 1
      /\ UNCHANGED <<assigned, entries, ghosts, requests>>
  BY FromTemplateStep
<1>3. /\ \A k \in Kinds : Len(rows'[k]) <= MaxRows
      /\ members' = Append(members, [u \in Users |-> "none"])
      /\ copy' = [copy EXCEPT ![p] = NoCopy] /\ pc' = [pc EXCEPT ![p] = "idle"]
      /\ UNCHANGED <<req, cookie, draft, templates>>
  BY DEF CreateProjectFromTemplate, Goto
<1>4. SetupMoves(p) /\ pc'[p] = "idle"
  BY <1>1, <1>3, NoDraftTyped DEF SetupMoves, Stages
<1>5. RequestHolds(p)'
  BY <1>4, RequestAtRest
<1>6. rows' \in [Kinds -> Seq(Row)]
  BY <1>2 DEF AsCopied
<1>7. \A k \in Kinds : Extends(rows[k], rows'[k])
  <2>1. /\ Extends(rows["projects"], rows'["projects"]) /\ Extends(rows["tasks"], rows'["tasks"])
        /\ Extends(rows["activities"], rows'["activities"])
    BY <1>2, BehindExtends DEF AsCopied, Projects, Tasks, Activities
  <2>2. rows'["customers"] = rows["customers"] /\ rows'["workstreams"] = rows["workstreams"]
    BY <1>2 DEF AsCopied, Customers, Workstreams
  <2>3. rows["customers"] \in Seq(Row) /\ rows["workstreams"] \in Seq(Row)
    BY <1>1 DEF TablesTyped, Kinds
  <2> QED
    BY <2>1, <2>2, <2>3, ExtendsItself DEF Kinds
<1>8. TablesTyped'
  <2>1. assigned' \subseteq Ids \X Ids /\ assigned' \ assigned = {}
    BY <1>1, <1>2 DEF TablesTyped
  <2> QED
    BY <1>1, <1>2, <1>3, <1>6, <1>7, <2>1, ExtensionTyped
<1>9. Kept /\ NewRows
  BY <1>1, <1>2, <1>7, <1>8, ExtensionKeeps
<1>10. NewEntries
  BY <1>2 DEF NewEntries
<1>11. members' \in Seq([Users -> Roles \cup {"none"}]) /\ Len(members') = Len(Projects')
  <2> DEFINE nobody == [u \in Users |-> "none"]
  <2>1. nobody \in [Users -> Roles \cup {"none"}]
    OBVIOUS
  <2> HIDE DEF nobody
  <2>2. members' \in Seq([Users -> Roles \cup {"none"}]) /\ Len(members') = Len(members) + 1
    BY <1>1, <1>3, <2>1, Appended DEF nobody
  <2> QED
    BY <1>1, <1>2, <2>2
<1> QED
  BY <1>1, <1>2, <1>3, <1>4, <1>5, <1>8, <1>9, <1>10, <1>11, SetupKeeps

LEMMA FromTemplateKeeps ==
    ASSUME IInv, NEW p \in Handlers, FromTemplate(p)
    PROVE  IInv'
<1>1. /\ TablesTyped /\ CopyKnown(p)
      /\ pc \in [Handlers -> Stages \cup SetupStages] /\ req \in [Handlers -> Request] /\ cookie \in Draft
      /\ draft \in [Handlers -> Draft] /\ copy \in [Handlers -> Copy] /\ templates \in Seq(Template)
      /\ DOMAIN templates = 1..Len(templates) /\ Len(templates) \in Nat
  BY TableDomain DEF IInv, TypeOK, TypedWith, TablesTyped, RequestHolds
<1>2. ASSUME NEW w \in Workspaces, NEW id \in DOMAIN templates, NEW template \in FormTemplates,
             UpsertProjectTemplate(p, w, id, template)
      PROVE  IInv'
  <2>1. /\ Begin(p) /\ templates' = [templates EXCEPT ![id] = template] /\ Reading /\ template \in Template
        /\ UNCHANGED <<pc, req, cookie, draft, members, copy>> /\ pc[p] = "idle"
    BY <1>2, SetupAssumption DEF UpsertProjectTemplate, Reading, Begin
  <2>2. templates' \in Seq(Template) /\ Len(templates') = Len(templates)
    BY <1>1, <2>1, Replaced
  <2>3. SetupMoves(p) /\ pc'[p] = "idle"
    BY <1>1, <2>1 DEF SetupMoves
  <2> QED
    BY <1>1, <2>1, <2>2, <2>3, RequestAtRest, QuietKeeps
<1>3. ASSUME NEW w \in Workspaces, NEW id \in DOMAIN templates, NEW customer \in DOMAIN Customers,
             ReadTemplate(p, w, id, customer)
      PROVE  IInv'
  <2> DEFINE c == [NoCopy EXCEPT !.ws = w, !.customer = customer, !.id = id]
  <2>1. /\ Begin(p) /\ copy' = [copy EXCEPT ![p] = c] /\ pc' = [pc EXCEPT ![p] = "template tasks"]
        /\ Reading /\ UNCHANGED <<req, cookie, draft, members, templates>>
    BY <1>3 DEF ReadTemplate, Goto
  <2>2. c \in Copy /\ c.ws = w /\ c.id = id
    <3>1. customer \in Ids /\ id \in Nat
      BY <1>1, RowFacts, CatalogueAssumption DEF Customers, Kinds, Ids
    <3> QED
      BY <3>1, NoDraftTyped DEF Copy
  <2> HIDE DEF c
  <2>3. SetupMoves(p) /\ pc'[p] = "template tasks" /\ copy'[p] = c
    BY <1>1, <2>1, <2>2 DEF SetupMoves, SetupStages
  <2>4. RequestHolds(p)'
    BY <2>1, <2>2, <2>3 DEF RequestHolds, FormKnown, NumberFresh, SelectionHolds, DraftKnown, CopyKnown
  <2> QED
    BY <1>1, <2>1, <2>3, <2>4, QuietKeeps
<1>4. CASE ReadTemplateTasks(p) \/ ReadTemplateActivities(p)
  <2>1. PICK stage \in {"template activities", "template customer"}, n \in 0..MaxParts :
          /\ pc' = [pc EXCEPT ![p] = stage]
          /\ \/ copy' = [copy EXCEPT ![p].tasks = n] \/ copy' = [copy EXCEPT ![p].activities = n]
    <3>1. copy[p].id \in DOMAIN templates
      BY <1>1, <1>4 DEF ReadTemplateTasks, ReadTemplateActivities, Continue, CopyKnown
    <3>2. templates[copy[p].id] \in Template
      BY <1>1, <3>1, ElementTypes
    <3>3. templates[copy[p].id].tasks \in 0..MaxParts /\ templates[copy[p].id].activities \in 0..MaxParts
      BY <3>2 DEF Template
    <3> QED
      BY <1>4, <3>3 DEF ReadTemplateTasks, ReadTemplateActivities, Goto
  <2>2. /\ copy[p].ws \in Workspaces /\ copy[p].id \in DOMAIN templates /\ copy[p] \in Copy
        /\ Reading /\ UNCHANGED <<req, requests, cookie, draft, members, templates>>
    BY <1>1, <1>4 DEF ReadTemplateTasks, ReadTemplateActivities, Continue, CopyKnown
  <2>3. copy'[p] \in Copy /\ copy'[p].ws = copy[p].ws /\ copy'[p].id = copy[p].id
        /\ copy' = [copy EXCEPT ![p] = copy'[p]]
    <3>1. copy'[p] = [copy[p] EXCEPT !.tasks = n] \/ copy'[p] = [copy[p] EXCEPT !.activities = n]
      BY <1>1, <2>1
    <3>2. copy' = [copy EXCEPT ![p] = copy'[p]]
      BY <1>1, <2>1
    <3> QED
      BY <2>2, <3>1, <3>2 DEF Copy
  <2>4. SetupMoves(p) /\ pc'[p] = stage
    BY <1>1, <2>1, <2>2, <2>3 DEF SetupMoves, SetupStages
  <2>5. RequestHolds(p)'
    BY <2>2, <2>3, <2>4 DEF RequestHolds, FormKnown, NumberFresh, SelectionHolds, DraftKnown, CopyKnown
  <2> QED
    BY <1>1, <2>2, <2>4, <2>5, QuietKeeps
<1>5. CASE ReadTemplateCustomer(p)
  <2>1. /\ copy[p].ws \in Workspaces /\ copy[p].id \in DOMAIN templates
        /\ Reading /\ UNCHANGED <<req, requests, cookie, draft, members, templates>>
        /\ \/ pc' = [pc EXCEPT ![p] = "copy"] /\ UNCHANGED copy
           \/ pc' = [pc EXCEPT ![p] = "idle"] /\ copy' = [copy EXCEPT ![p] = NoCopy]
    BY <1>1, <1>5 DEF ReadTemplateCustomer, Continue, CopyKnown, Goto
  <2>2. SetupMoves(p) /\ (pc'[p] = "idle" \/ (pc'[p] = "copy" /\ UNCHANGED copy))
    BY <1>1, <2>1, NoDraftTyped DEF SetupMoves, SetupStages, Stages
  <2>3. RequestHolds(p)'
    <3>1. CASE pc'[p] = "idle"
      BY <3>1, RequestAtRest
    <3>2. CASE pc'[p] = "copy" /\ UNCHANGED copy
      BY <2>1, <3>2 DEF RequestHolds, FormKnown, NumberFresh, SelectionHolds, DraftKnown, CopyKnown
    <3> QED
      BY <2>2, <3>1, <3>2
  <2> QED
    BY <1>1, <2>1, <2>2, <2>3, QuietKeeps
<1>6. CASE CreateProjectFromTemplate(p)
  BY <1>6, FromTemplateStepKeeps
<1> QED
  BY <1>2, <1>3, <1>4, <1>5, <1>6 DEF FromTemplate

-----------------------------------------------------------------------------
(* The invariant.                                                          *)

LEMMA FirstNumbers ==
    ASSUME NEW k \in Kinds
    PROVE  /\ FirstRows[k] \in Seq(Row) /\ Len(FirstRows[k]) <= MaxRows
           /\ \A i \in DOMAIN FirstRows[k] :
                /\ FirstRows[k][i].ws # 0 /\ FirstRows[k][i].after < i /\ i \in Nat
                /\ FirstRows[k][i].number \in {0, Count(FirstRows[k], i, FirstRows[k][i].ws)}
<1>1. FirstRows[k] \in Seq(Row) /\ Len(FirstRows[k]) <= MaxRows
  BY FirstRowsAssumption
<1>2. ASSUME NEW i \in DOMAIN FirstRows[k]
      PROVE  /\ FirstRows[k][i].ws # 0 /\ FirstRows[k][i].after < i
             /\ FirstRows[k][i].number \in {0, Count(FirstRows[k], i, FirstRows[k][i].ws)}
  BY FirstRowsAssumption DEF Count, RowsOf
<1> QED
  BY <1>1, <1>2, ElementTypes

LEMMA Initially ==
    ASSUME SetupInit
    PROVE  IInv
<1>1. /\ rows = FirstRows /\ assigned = {} /\ entries = {} /\ moved = {} /\ dropped = {} /\ left = {}
      /\ requests = 0 /\ pc = [p \in Handlers |-> "idle"] /\ req = [p \in Handlers |-> NoRequest]
      /\ cookie \in FirstDrafts /\ draft = [p \in Handlers |-> NoDraft]
      /\ members = [i \in DOMAIN Projects |-> [u \in Users |-> "none"]]
      /\ templates = FirstTemplates /\ copy = [p \in Handlers |-> NoCopy]
  BY DEF SetupInit, Init
<1>2. rows \in [Kinds -> Seq(Row)] /\ \A k \in Kinds : Len(rows[k]) <= MaxRows
  BY <1>1, FirstRowsAssumption
<1>3. members \in Seq([Users -> Roles \cup {"none"}]) /\ Len(members) = Len(Projects)
  <2> DEFINE nobody == [u \in Users |-> "none"]
             n == Len(Projects)
  <2>1. Projects \in Seq(Row)
    BY <1>2 DEF Projects, Kinds
  <2>2. n \in Nat /\ DOMAIN Projects = 1..n /\ nobody \in [Users -> Roles \cup {"none"}]
    BY <2>1, TableDomain
  <2> HIDE DEF nobody, n
  <2>3. members = [i \in 1..n |-> nobody]
    BY <1>1, <2>2 DEF nobody
  <2>4. members \in [1..n -> [Users -> Roles \cup {"none"}]] /\ DOMAIN members = 1..n
    BY <2>2, <2>3
  <2> QED
    BY <2>2, <2>4, SequenceOf, LengthOf DEF n
<1>4. TypeOK
  <2>1. requests \in 0..MaxRequests
    BY <1>1, CatalogueAssumption
  <2>2. cookie \in Draft /\ draft \in [Handlers -> Draft] /\ copy \in [Handlers -> Copy]
        /\ templates \in Seq(Template)
    BY <1>1, NoDraftTyped, SetupAssumption
  <2>3. pc \in [Handlers -> Stages \cup SetupStages] /\ req \in [Handlers -> Request]
    BY <1>1, NoRequestTyped DEF Stages
  <2> QED
    BY <1>1, <1>2, <1>3, <2>1, <2>2, <2>3 DEF TypeOK, TypedWith
<1>5. RowsLive
  BY <1>1, FirstNumbers DEF RowsLive
<1>6. NumbersBounded
  <2> SUFFICES ASSUME NEW k \in Kinds, NEW i \in DOMAIN rows[k] PROVE Bounded(k, i)
    BY DEF NumbersBounded
  <2>1. rows[k][i].after < i /\ i \in Nat /\ rows[k][i].number \in {0, Count(rows[k], i, rows[k][i].ws)}
    BY <1>1, FirstNumbers
  <2>2. Count(rows[k], i, rows[k][i].ws) \in Nat
    BY <2>1, Counted
  <2> QED
    BY <2>1, <2>2 DEF Bounded
<1>7. NumbersExplained
  <2> SUFFICES ASSUME NEW k \in Kinds, NEW i \in DOMAIN rows[k], NEW j \in DOMAIN rows[k], i < j,
                      rows[k][i].ws = rows[k][j].ws, rows[k][i].number = rows[k][j].number,
                      rows[k][j].number > 0
               PROVE  FALSE
    BY DEF NumbersExplained
  <2> DEFINE w == rows[k][j].ws
             t == rows[k]
             n == j - 1
  <2>1. /\ i \in Nat /\ j \in Nat /\ n \in Nat /\ i <= n /\ n + 1 = j /\ t[n + 1].ws = w
        /\ t[i].number \in {0, Count(t, i, w)} /\ t[j].number \in {0, Count(t, j, w)}
    <3>1. t[i].number \in {0, Count(t, i, t[i].ws)} /\ t[j].number \in {0, Count(t, j, w)} /\ i \in Nat /\ j \in Nat
          /\ i > 0
      BY <1>1, <1>2, FirstNumbers, ElementTypes
    <3> QED
      BY <3>1
  <2> HIDE DEF n, t, w
  <2>2. Count(t, i, w) <= Count(t, n, w) /\ Count(t, n + 1, w) = Count(t, n, w) + 1
    BY <2>1, CountOfMore, CountOfNext
  <2>3. Count(t, i, w) \in Nat /\ Count(t, n, w) \in Nat
    BY <2>1, Counted
  <2>4. t[i].number = t[j].number /\ t[j].number > 0
    BY DEF t
  <2> QED
    BY <2>1, <2>2, <2>3, <2>4
<1>8. EntriesHold /\ \A p \in Handlers : RequestHolds(p)
  BY <1>1 DEF EntriesHold, RequestHolds, FormKnown, NumberFresh, SelectionHolds, DraftKnown, CopyKnown
<1> QED
  BY <1>4, <1>5, <1>6, <1>7, <1>8 DEF IInv

LEMMA ForgetKeeps ==
    ASSUME IInv, ForgetDraft
    PROVE  IInv'
<1>1. /\ TypeOK /\ TablesTyped /\ Reading /\ cookie' = NoDraft /\ requests < MaxRequests
      /\ requests' = requests + 1 /\ UNCHANGED <<pc, req, draft, members, templates, copy>>
  BY DEF IInv, TypeOK, TypedWith, TablesTyped, ForgetDraft
<1>2. Kept /\ NewRows /\ NewEntries /\ TablesTyped' /\ Len(Projects') = Len(Projects)
  BY <1>1, NothingStored
<1>3. Served' /\ requests' \in 0..MaxRequests /\ cookie' \in Draft /\ draft' \in [Handlers -> Draft]
      /\ copy' \in [Handlers -> Copy] /\ templates' \in Seq(Template)
      /\ members' \in Seq([Users -> Roles \cup {"none"}]) /\ Len(members') = Len(Projects')
  BY <1>1, <1>2, NoDraftTyped, CatalogueAssumption DEF TypeOK, TypedWith, Served
<1>4. TypeOK'
  BY <1>2, <1>3, TypedAfter
<1>5. \A q \in Handlers : Stays(q)
  BY <1>1 DEF Stays
<1> QED
  BY <1>1, <1>2, <1>4, <1>5, InvariantKept

LEMMA NothingMoves ==
    ASSUME IInv, UNCHANGED allVars
    PROVE  IInv'
<1>1. /\ TypeOK /\ TablesTyped
      /\ UNCHANGED <<pc, req, draft, members, templates, copy, cookie, requests>> /\ Reading
  BY DEF IInv, TypeOK, TypedWith, TablesTyped, allVars, vars, setupVars, Reading
<1>2. Kept /\ NewRows /\ NewEntries /\ TablesTyped' /\ Len(Projects') = Len(Projects)
  BY <1>1, NothingStored
<1>3. Served' /\ requests' \in 0..MaxRequests /\ cookie' \in Draft /\ draft' \in [Handlers -> Draft]
      /\ copy' \in [Handlers -> Copy] /\ templates' \in Seq(Template)
      /\ members' \in Seq([Users -> Roles \cup {"none"}]) /\ Len(members') = Len(Projects')
  BY <1>1, <1>2 DEF TypeOK, TypedWith, Served
<1>4. TypeOK'
  BY <1>2, <1>3, TypedAfter
<1>5. \A q \in Handlers : Stays(q)
  BY <1>1 DEF Stays
<1> QED
  BY <1>1, <1>2, <1>4, <1>5, InvariantKept

LEMMA StepsKeep ==
    ASSUME IInv, [SetupNext]_allVars
    PROVE  IInv'
<1>1. CASE ForgetDraft
  BY <1>1, ForgetKeeps
<1>2. CASE Others
  BY <1>2, OthersKeep
<1>3. ASSUME NEW p \in Handlers, Wizard(p)
      PROVE  IInv'
  BY <1>3, DraftStepsKeep, FromDraftKeeps
<1>4. ASSUME NEW p \in Handlers, FromTemplate(p)
      PROVE  IInv'
  BY <1>4, FromTemplateKeeps
<1>5. CASE UNCHANGED allVars
  BY <1>5, NothingMoves
<1> QED
  BY <1>1, <1>2, <1>3, <1>4, <1>5 DEF SetupNext

\* What requests know of the tables between their statements, and what numbers were counted
\* from, stays so through every step of every handler, restarts included.
THEOREM InductiveInvariant == SetupSpec => []IInv
<1>1. SetupInit => IInv
  BY Initially
<1>2. IInv /\ [SetupNext]_allVars => IInv'
  BY StepsKeep
<1> QED
  BY <1>1, <1>2, PTL DEF SetupSpec

\* The tables, the requests, the drafts and what is read of a template have the values the
\* code gives them, and every project has its row of members.
THEOREM TypeCorrect == SetupSpec => []TypeOK
<1>1. IInv => TypeOK
  BY DEF IInv
<1> QED
  BY <1>1, InductiveInvariant, PTL

\* Two rows share a generated number only in the ways that NumbersExplained names.
THEOREM NumbersAreExplained == SetupSpec => []NumbersExplained
<1>1. IInv => NumbersExplained
  BY DEF IInv
<1> QED
  BY <1>1, InductiveInvariant, PTL

\* What an entry selected stays together until a form moves it, whatever requests come
\* between the checks of a selection and its entry.
THEOREM SelectionsStayTogether == SetupSpec => []EntriesFit
<1>1. ASSUME IInv PROVE EntriesFit
  <2> SUFFICES ASSUME NEW e \in entries, EntryHolds(e) PROVE
        /\ <<"projects", e.project>> \notin moved =>
               Projects[e.project].ws = e.ws /\ Projects[e.project].of = e.customer
        /\ <<"activities", e.activity>> \notin moved =>
               Activities[e.activity].ws = e.ws /\ Activities[e.activity].of \in {0, e.project}
        /\ e.task # 0 /\ <<"tasks", e.task>> \notin moved =>
               Tasks[e.task].ws = e.ws /\ Tasks[e.task].of = e.project
        /\ e.workstream # 0 => <<e.project, e.workstream>> \in assigned \cup dropped
    BY <1>1 DEF EntriesFit, IInv, EntriesHold
  <2> QED
    BY DEF EntryHolds, ProjectStays, ProjectFits, ActivityStays, ActivityFits, WorkstreamStays,
           TaskStays, TaskFits, Moved
<1>2. IInv => EntriesFit
  BY <1>1
<1> QED
  BY <1>2, InductiveInvariant, PTL

-----------------------------------------------------------------------------
(* Projects that are made at once.                                         *)

LEMMA WhoMakes ==
    ASSUME IInv, [SetupNext]_allVars, NEW p \in Handlers, pc[p] \in {"create", "copy"}, pc'[p] # pc[p],
           UNCHANGED requests
    PROVE  \/ pc[p] = "create" /\ CreateProjectFromDraft(p)
           \/ pc[p] = "copy" /\ CreateProjectFromTemplate(p)
<1>1. /\ Served /\ requests \in Nat /\ pc \in [Handlers -> Stages \cup SetupStages]
      /\ pc[p] \notin Stages
  BY CatalogueAssumption DEF IInv, TypeOK, TypedWith, Served, Stages
<1>2. ASSUME requests' = requests + 1 PROVE FALSE
  BY <1>1, <1>2
<1>3. ASSUME NEW q \in Handlers, NEW stage, Goto(q, stage), pc[q] # pc[p] PROVE FALSE
  BY <1>1, <1>3 DEF Goto
<1>4. CASE Others
  <2>1. ASSUME NEW q \in Handlers, Form(q)
        PROVE  FALSE
    <3>1. Begin(q)
      BY <2>1 DEF Form, saveCustomer, saveProject, saveActivity, saveTask, saveWorkstream, DeleteWorkstream,
                  saveProjectWorkstream, removeProjectWorkstream
    <3> QED
      BY <1>2, <3>1 DEF Begin
  <2>2. ASSUME NEW q \in Handlers, NEW e, saveTimesheet(q, e)
        PROVE  FALSE
    BY <1>2, <2>2 DEF saveTimesheet, Begin
  <2>3. ASSUME NEW q \in Handlers, Serve(q)
        PROVE  FALSE
    <3>1. pc[q] \in Stages
      BY <2>3 DEF Serve, UpsertStatement, Insert, ListWorkstreams, UpsertProjectWorkstream,
                  RemoveProjectWorkstream, TrackProject, SelectActivity, SelectWorkstream, SelectTask,
                  CreateTimesheet, Continue, Stages
    <3>2. p # q
      BY <1>1, <3>1
    <3>3. pc' = [pc EXCEPT ![q] = pc'[q]]
      BY <1>1, <2>3, ServeMoves DEF MovesOnly
    <3> QED
      BY <1>1, <3>2, <3>3
  <2>4. CASE Restart
    BY <1>2, <2>4 DEF Restart
  <2> QED
    BY <1>4, <2>1, <2>2, <2>3, <2>4 DEF Others, Next
<1>5. CASE ForgetDraft
  BY <1>2, <1>5 DEF ForgetDraft
<1>6. ASSUME NEW q \in Handlers, Wizard(q)
      PROVE  pc[p] = "create" /\ CreateProjectFromDraft(p)
  <2>1. ASSUME NEW d, Step(q, d) PROVE FALSE
    BY <1>2, <2>1 DEF Step, Begin
  <2>2. ASSUME NEW w, Submit(q, w) PROVE FALSE
    BY <1>2, <2>1, <2>2 DEF Submit, Begin
  <2>3. CASE persistProjectCreateDraft(q)
    <3>1. pc[q] = "respond" /\ Goto(q, "idle")
      BY <2>3 DEF persistProjectCreateDraft, Continue
    <3> QED
      BY <1>3, <3>1
  <2>4. CASE CreateProjectFromDraft(q)
    <3>1. pc[q] = "create" /\ \E stage : Goto(q, stage)
      BY <2>4 DEF CreateProjectFromDraft, Continue
    <3>2. p = q
      BY <1>1, <3>1 DEF Goto
    <3> QED
      BY <2>4, <3>1, <3>2
  <2> QED
    BY <1>6, <2>1, <2>2, <2>3, <2>4 DEF Wizard, readProjectDraftDetails, addDraftWorkstream, addDraftActivity,
                                        addDraftUsers, removeDraftWorkstream, removeDraftActivity, removeDraftUser
<1>7. ASSUME NEW q \in Handlers, FromTemplate(q)
      PROVE  pc[p] = "copy" /\ CreateProjectFromTemplate(p)
  <2>1. ASSUME NEW w, NEW id, NEW template, UpsertProjectTemplate(q, w, id, template) PROVE FALSE
    BY <1>2, <2>1 DEF UpsertProjectTemplate, Begin
  <2>2. ASSUME NEW w, NEW id, NEW customer, ReadTemplate(q, w, id, customer) PROVE FALSE
    BY <1>2, <2>2 DEF ReadTemplate, Begin
  <2>3. CASE ReadTemplateTasks(q) \/ ReadTemplateActivities(q) \/ ReadTemplateCustomer(q)
    <3>1. pc[q] \notin {"create", "copy"} /\ \E stage : Goto(q, stage)
      BY <2>3 DEF ReadTemplateTasks, ReadTemplateActivities, ReadTemplateCustomer, Continue
    <3> QED
      BY <1>3, <3>1
  <2>4. CASE CreateProjectFromTemplate(q)
    <3>1. pc[q] = "copy" /\ \E stage : Goto(q, stage)
      BY <2>4 DEF CreateProjectFromTemplate, Continue
    <3>2. p = q
      BY <1>1, <3>1 DEF Goto
    <3> QED
      BY <2>4, <3>1, <3>2
  <2> QED
    BY <1>7, <2>1, <2>2, <2>3, <2>4 DEF FromTemplate
<1>8. CASE UNCHANGED allVars
  BY <1>8 DEF allVars, vars
<1> QED
  BY <1>4, <1>5, <1>6, <1>7, <1>8 DEF SetupNext

LEMMA PrefixOfItself ==
    ASSUME NEW table \in Seq(Row)
    PROVE  IsPrefix(table, table) /\ {i \in DOMAIN table : i > Len(table)} = {}
<1>1. DOMAIN table = 1..Len(table) /\ Len(table) \in Nat
  BY TableDomain
<1> QED
  BY <1>1 DEF IsPrefix

\* What a step adds behind a table.
LEMMA AddedBehind ==
    ASSUME TablesTyped, NEW k \in Kinds, NEW n \in Nat, NEW w, NEW of, NEW new, NewFor(new, n, w, of),
           Behind(rows[k], new, rows'[k])
    PROVE  /\ IsPrefix(rows[k], rows'[k]) /\ Added(k) = (Len(rows[k]) + 1)..(Len(rows[k]) + n)
           /\ Cardinality(Added(k)) = n
           /\ \A i \in Added(k) : rows'[k][i].ws = w /\ rows'[k][i].of = of
<1>1. rows[k] \in Seq(Row)
  BY DEF TablesTyped
<1>2. /\ IsPrefix(rows[k], rows'[k])
      /\ Added(k) = (Len(rows[k]) + 1)..(Len(rows[k]) + n) /\ Cardinality(Added(k)) = n
      /\ \A i \in (Len(rows[k]) + 1)..(Len(rows[k]) + n) : rows'[k][i].ws = w /\ rows'[k][i].of = of
  <2>1. PICK table, later : table = rows[k] /\ later = rows'[k]
    OBVIOUS
  <2>2. table \in Seq(Row) /\ n \in Nat /\ NewFor(new, n, w, of) /\ Behind(table, new, later)
    BY <1>1, <2>1
  <2>3. Adds(table, later, n, w, of)
    BY ONLY <2>2, BehindAdds
  <2>4. Added(k) = {i \in DOMAIN later : i > Len(table)}
    BY <2>1 DEF Added
  <2> QED
    BY <2>1, <2>3, <2>4 DEF Adds
<1> QED
  BY <1>2

LEMMA DraftIsWhole ==
    ASSUME IInv, NEW p \in Handlers, pc[p] = "create", CreateProjectFromDraft(p)
    PROVE  UNCHANGED <<tables, members>> \/ StoredWhole(p)
<1>1. TablesTyped /\ Len(members) = Len(Projects) /\ Len(Projects) \in Nat
      /\ (\A k \in Kinds : rows[k] \in Seq(Row))
  <2>1. TablesTyped /\ Len(members) = Len(Projects)
    BY DEF IInv, TypeOK, TypedWith, TablesTyped
  <2> QED
    BY <2>1, RowFacts, CatalogueAssumption DEF Projects, Kinds, Ids
<1>2. /\ draft[p] \in Draft /\ UNCHANGED <<entries, ghosts, requests>>
      /\ \/ UNCHANGED <<rows, assigned, members>>
         \/ \E t : /\ AsAsked(draft[p], req[p].ws, t) /\ rows' = t.rows /\ assigned' = t.assigned
                   /\ Len(Projects') = Len(Projects) + 1
                   /\ (\A k \in Kinds : Len(rows'[k]) <= MaxRows)
                   /\ members' = Append(members, draft[p].members)
  BY FromDraftStep
<1>3. CASE UNCHANGED <<rows, assigned, members>>
  BY <1>2, <1>3 DEF tables
<1>4. CASE ~UNCHANGED <<rows, assigned, members>>
  <2>1. PICK d, w, t : /\ d = draft[p] /\ w = req[p].ws
                       /\ AsAsked(d, w, t) /\ rows' = t.rows /\ assigned' = t.assigned
                       /\ members' = Append(members, d.members)
    BY <1>2, <1>4
  <2>2. Cardinality(d.activities) \in Nat
    <3>1. d.activities \subseteq 0..MaxRows
      BY <1>2, <2>1 DEF Draft, Ids
    <3>2. IsFiniteSet(0..MaxRows)
      <4>1. 0 \in Int /\ MaxRows \in Int
        BY CatalogueAssumption
      <4> QED
        BY <4>1, FS_Interval
    <3> QED
      BY <3>1, <3>2, FS_Subset, FS_CardinalityType
  <2>3. PICK one : NewFor(one, 1, w, d.customer) /\ Behind(rows["projects"], one, rows'["projects"])
    BY <2>1 DEF AsAsked, Projects
  <2>4. PICK n, some : /\ n \in Nat /\ NewFor(some, n, w, 0)
                       /\ Behind(rows["workstreams"], some, rows'["workstreams"])
    BY <2>1 DEF AsAsked, Workstreams
  <2>5. PICK more : /\ NewFor(more, Cardinality(d.activities), w, Len(Projects) + 1)
                    /\ Behind(rows["activities"], more, rows'["activities"])
    BY <2>1 DEF AsAsked, Activities
  <2>6. rows'["customers"] = rows["customers"] /\ rows'["tasks"] = rows["tasks"]
    BY <2>1 DEF AsAsked, Customers, Tasks
  <2>7. /\ IsPrefix(rows["projects"], rows'["projects"])
        /\ Added("projects") = (Len(rows["projects"]) + 1)..(Len(rows["projects"]) + 1)
        /\ \A i \in Added("projects") : rows'["projects"][i].ws = w
    BY <1>1, <2>3, AddedBehind DEF Kinds
  <2>8. IsPrefix(rows["workstreams"], rows'["workstreams"])
    BY <1>1, <2>4, AddedBehind DEF Kinds
  <2>9. /\ IsPrefix(rows["activities"], rows'["activities"])
        /\ Cardinality(Added("activities")) = Cardinality(d.activities)
        /\ \A i \in Added("activities") : rows'["activities"][i].ws = w /\ rows'["activities"][i].of = Len(Projects) + 1
    BY <1>1, <2>2, <2>5, AddedBehind DEF Kinds
  <2>10. /\ \A k \in {"customers", "tasks"} : IsPrefix(rows[k], rows'[k])
         /\ Added("customers") = {} /\ Added("tasks") = {}
    <3>1. \A k \in {"customers", "tasks"} : IsPrefix(rows[k], rows[k]) /\ {i \in DOMAIN rows[k] : i > Len(rows[k])} = {}
      BY <1>1, PrefixOfItself DEF Kinds
    <3> QED
      BY <2>6, <3>1 DEF Added
  <2>11. Added("projects") = {Len(Projects) + 1} /\ Projects'[Len(Projects) + 1].ws = w
    <3>1. Added("projects") = {Len(Projects) + 1}
      BY <1>1, <2>7 DEF Projects
    <3> QED
      BY <2>7, <3>1 DEF Projects
  <2>12. /\ assigned \subseteq assigned'
         /\ \A pair \in assigned' \ assigned : pair[1] = Len(Projects) + 1 /\ Workstreams'[pair[2]].ws = w
         /\ Cardinality(assigned' \ assigned) = Cardinality(d.workstreams)
    BY <2>1 DEF AsAsked, Workstreams
  <2>13. \A k \in Kinds : IsPrefix(rows[k], rows'[k])
    BY <2>7, <2>8, <2>9, <2>10 DEF Kinds
  <2>14. \A k \in {"tasks", "activities"} : \A i \in Added(k) :
           rows'[k][i].ws = w /\ rows'[k][i].of = Len(Projects) + 1
    BY <2>9, <2>10
  <2> QED
    BY <1>1, <2>1, <2>9, <2>10, <2>11, <2>12, <2>13, <2>14 DEF StoredWhole
<1> QED
  BY <1>3, <1>4

LEMMA CopyIsWhole ==
    ASSUME IInv, NEW p \in Handlers, pc[p] = "copy", CreateProjectFromTemplate(p)
    PROVE  StoredWhole(p)
<1>1. TablesTyped /\ Len(members) = Len(Projects) /\ Len(Projects) \in Nat
      /\ (\A k \in Kinds : rows[k] \in Seq(Row))
  <2>1. TablesTyped /\ Len(members) = Len(Projects)
    BY DEF IInv, TypeOK, TypedWith, TablesTyped
  <2> QED
    BY <2>1, RowFacts, CatalogueAssumption DEF Projects, Kinds, Ids
<1>2. PICK c : c = copy[p]
  OBVIOUS
<1>3. /\ AsCopied(c) /\ UNCHANGED <<assigned, entries, ghosts, requests>>
      /\ c.tasks \in Nat /\ c.activities \in Nat
  BY <1>2, FromTemplateStep
<1>4. PICK one : NewFor(one, 1, c.ws, c.customer) /\ Behind(rows["projects"], one, rows'["projects"])
  BY <1>3 DEF AsCopied, Projects
<1>5. PICK some : NewFor(some, c.tasks, c.ws, Len(Projects) + 1) /\ Behind(rows["tasks"], some, rows'["tasks"])
  BY <1>3 DEF AsCopied, Tasks
<1>6. PICK more : /\ NewFor(more, c.activities, c.ws, Len(Projects) + 1)
                  /\ Behind(rows["activities"], more, rows'["activities"])
  BY <1>3 DEF AsCopied, Activities
<1>7. rows'["customers"] = rows["customers"] /\ rows'["workstreams"] = rows["workstreams"]
  BY <1>3 DEF AsCopied, Customers, Workstreams
<1>8. /\ IsPrefix(rows["projects"], rows'["projects"])
      /\ Added("projects") = (Len(rows["projects"]) + 1)..(Len(rows["projects"]) + 1)
      /\ \A i \in Added("projects") : rows'["projects"][i].ws = c.ws
  BY <1>1, <1>4, AddedBehind DEF Kinds
<1>9. /\ IsPrefix(rows["tasks"], rows'["tasks"]) /\ Cardinality(Added("tasks")) = c.tasks
      /\ \A i \in Added("tasks") : rows'["tasks"][i].ws = c.ws /\ rows'["tasks"][i].of = Len(Projects) + 1
  BY <1>1, <1>3, <1>5, AddedBehind DEF Kinds
<1>10. /\ IsPrefix(rows["activities"], rows'["activities"]) /\ Cardinality(Added("activities")) = c.activities
       /\ \A i \in Added("activities") :
            rows'["activities"][i].ws = c.ws /\ rows'["activities"][i].of = Len(Projects) + 1
  BY <1>1, <1>3, <1>6, AddedBehind DEF Kinds
<1>11. /\ \A k \in {"customers", "workstreams"} : IsPrefix(rows[k], rows'[k])
       /\ Added("customers") = {}
  <2>1. \A k \in {"customers", "workstreams"} :
          IsPrefix(rows[k], rows[k]) /\ {i \in DOMAIN rows[k] : i > Len(rows[k])} = {}
    BY <1>1, PrefixOfItself DEF Kinds
  <2> QED
    BY <1>7, <2>1 DEF Added
<1>12. Added("projects") = {Len(Projects) + 1} /\ Projects'[Len(Projects) + 1].ws = c.ws
  <2>1. Added("projects") = {Len(Projects) + 1}
    BY <1>1, <1>8 DEF Projects
  <2> QED
    BY <1>8, <2>1 DEF Projects
<1>13. \A k \in Kinds : IsPrefix(rows[k], rows'[k])
  BY <1>8, <1>9, <1>10, <1>11 DEF Kinds
<1>14. \A k \in {"tasks", "activities"} : \A i \in Added(k) :
         rows'[k][i].ws = c.ws /\ rows'[k][i].of = Len(Projects) + 1
  BY <1>9, <1>10
<1>15. assigned \subseteq assigned' /\ assigned' \ assigned = {}
  BY <1>3
<1> QED
  BY <1>1, <1>2, <1>9, <1>10, <1>11, <1>12, <1>13, <1>14, <1>15 DEF StoredWhole

\* A project that is made at once is stored whole or not at all, and nothing that was stored
\* before is changed for it.
THEOREM ProjectsAreWhole == SetupSpec => SetupIsWhole
<1>1. ASSUME IInv, [SetupNext]_allVars
      PROVE  \A p \in Handlers : pc[p] \in {"create", "copy"} /\ pc'[p] # pc[p] /\ UNCHANGED requests =>
               UNCHANGED <<tables, members>> \/ StoredWhole(p)
  BY <1>1, WhoMakes, DraftIsWhole, CopyIsWhole
<1>2. IInv /\ [SetupNext]_allVars =>
        [\A p \in Handlers : pc[p] \in {"create", "copy"} /\ pc'[p] # pc[p] /\ UNCHANGED requests =>
           UNCHANGED <<tables, members>> \/ StoredWhole(p)]_allVars
  BY <1>1
<1>3. SetupSpec => [][\A p \in Handlers : pc[p] \in {"create", "copy"} /\ pc'[p] # pc[p] /\ UNCHANGED requests =>
                        UNCHANGED <<tables, members>> \/ StoredWhole(p)]_allVars
  BY <1>2, InductiveInvariant, PTL DEF SetupSpec
<1> QED
  BY <1>3 DEF SetupIsWhole
=============================================================================
