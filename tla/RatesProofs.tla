------------------------------ MODULE RatesProofs ------------------------------
(***************************************************************************)
(* Theorems about Rates, for every set of works, scopes, windows and       *)
(* starts: that resolving a rate finds the narrowest and newest one, that  *)
(* what is resolved for a start does not change behind it, and that a      *)
(* recalculation leaves no entry behind.                                   *)
(***************************************************************************)
EXTENDS Rates, SequenceTheorems, WellFoundedInduction, TLAPS

-----------------------------------------------------------------------------
(* The types.                                                              *)

\* A cost may name a row of either table: all rows together stay below MaxRows.
Fits == Len(rates) + Len(costs) + Len(entries) <= MaxRows

Typed == TypeOK /\ Fits

\* A sequence of typed rows with one more at its end.
LEMMA Appended ==
    ASSUME NEW T, NEW table \in Seq(T), NEW row \in T
    PROVE  /\ Append(table, row) \in Seq(T)
           /\ Len(Append(table, row)) = Len(table) + 1
           /\ DOMAIN Append(table, row) = DOMAIN table \cup {Len(table) + 1}
           /\ \A i \in DOMAIN table : Append(table, row)[i] = table[i]
           /\ Append(table, row)[Len(table) + 1] = row
  OBVIOUS

\* The least of a set of natural numbers, and the greatest of a bounded one.
LEMMA LeastOf ==
    ASSUME NEW S, S \subseteq Nat, S # {}
    PROVE  \E n \in S : \A m \in S : n <= m
<1>1. PICK n \in S : \A m \in S : ~(<<m, n>> \in OpToRel(<, Nat))
  BY NatLessThanWellFounded, WFMin
<1>2. \A m \in S : ~(m < n)
  BY <1>1 DEF OpToRel
<1> QED
  BY <1>2

LEMMA GreatestOf ==
    ASSUME NEW bound \in Nat, NEW S, S \subseteq 0..bound, S # {}
    PROVE  \E n \in S : \A m \in S : m <= n
<1> DEFINE Below == {bound - n : n \in S}
<1>0. \A n \in S : n \in Nat /\ bound - n \in Nat
  OBVIOUS
<1>1. Below \subseteq Nat /\ Below # {}
  BY <1>0
<1>2. PICK least \in Below : \A m \in Below : least <= m
  BY <1>1, LeastOf
<1>3. PICK n \in S : least = bound - n
  BY <1>2
<1>4. \A m \in S : m <= n
  <2>1. ASSUME NEW m \in S
        PROVE  m <= n
    <3>1. bound - n <= bound - m
      BY <1>2, <1>3
    <3> QED
      BY <1>0, <3>1
  <2> QED
    BY <2>1
<1> QED
  BY <1>4

-----------------------------------------------------------------------------
(* The row a query takes.                                                  *)

\* ORDER BY effective_from DESC, id DESC has a first row ...
LEMMA NewestOf ==
    ASSUME NEW table, NEW bound \in Nat, NEW S, S \subseteq 0..bound, S # {},
           \A i \in S : table[i].from \in 0..Open
    PROVE  \E i \in S : \A j \in S : Newer(table, i, j)
<1> DEFINE Froms == {table[i].from : i \in S}
<1>1. Froms \subseteq 0..Open /\ Froms # {} /\ Open \in Nat
  BY WindowAssumption
<1>2. PICK last \in Froms : \A m \in Froms : m <= last
  BY <1>1, GreatestOf
<1>3. \A i \in S : table[i].from <= last
  BY <1>2
<1> DEFINE Last == {i \in S : table[i].from = last}
<1>4. Last # {} /\ Last \subseteq 0..bound
  BY <1>2
<1>5. PICK i \in Last : \A j \in Last : j <= i
  BY <1>4, GreatestOf
<1>6. ASSUME NEW j \in S
      PROVE  Newer(table, i, j)
  <2>1. table[j].from <= last /\ table[j].from \in 0..Open /\ last \in 0..Open
    BY <1>1, <1>2, <1>3
  <2>2. CASE table[j].from = last
    BY <2>1, <2>2, <1>5 DEF Newer
  <2>3. CASE table[j].from < last
    BY <2>3, <1>5 DEF Newer
  <2> QED
    BY <1>1, <2>1, <2>2, <2>3
<1> QED
  BY <1>6

\* ... and only one.
LEMMA OneNewest ==
    ASSUME NEW table, NEW i \in Nat, NEW j \in Nat,
           table[i].from \in 0..Open, table[j].from \in 0..Open,
           Newer(table, i, j), Newer(table, j, i)
    PROVE  i = j
BY WindowAssumption DEF Newer

LEMMA RateRow ==
    ASSUME TypeOK, NEW i \in DOMAIN rates
    PROVE  /\ i \in Nat /\ i \in 1..MaxRates
           /\ rates[i] \in Rate
           /\ rates[i].scope \in Scopes /\ rates[i].internal \in BOOLEAN
           /\ rates[i].from \in 0..Open /\ rates[i].from \in Nat /\ rates[i].to \in 0..Open
<1>1. rates \in Seq(Rate) /\ Len(rates) <= MaxRates /\ MaxRates \in Nat /\ Open \in Nat
  BY BoundAssumption, WindowAssumption DEF TypeOK
<1>2. i \in 1..Len(rates) /\ Len(rates) \in Nat /\ rates[i] \in Rate
  BY <1>1
<1>3. rates[i].from \in 0..(Open - 1) /\ rates[i].to \in 0..Open
  BY <1>2 DEF Rate
<1> QED
  BY <1>1, <1>2, <1>3 DEF Rate

LEMMA CostRow ==
    ASSUME TypeOK, NEW i \in DOMAIN costs
    PROVE  /\ i \in Nat /\ i \in 1..MaxCosts
           /\ costs[i] \in Cost
           /\ costs[i].from \in 0..Open /\ costs[i].from \in Nat /\ costs[i].to \in 0..Open
<1>1. costs \in Seq(Cost) /\ Len(costs) <= MaxCosts /\ MaxCosts \in Nat /\ Open \in Nat
  BY BoundAssumption, WindowAssumption DEF TypeOK
<1>2. i \in 1..Len(costs) /\ Len(costs) \in Nat /\ costs[i] \in Cost
  BY <1>1
<1>3. costs[i].from \in 0..(Open - 1) /\ costs[i].to \in 0..Open
  BY <1>2 DEF Cost
<1> QED
  BY <1>1, <1>2, <1>3 DEF Cost

LEMMA PlaceRange ==
    ASSUME NEW s, NEW w
    PROVE  Place(s, w) \in 0..10
BY DEF Place, Level

\* The row that ResolveRateAt takes: of the candidates that find one, the first.
FirstFor(w, at, i) == i \in Found(w, at) /\ \A j \in Found(w, at) : Beats(i, j, w)

LEMMA SomeFirst ==
    ASSUME TypeOK, NEW w, NEW at, Found(w, at) # {}
    PROVE  \E i : FirstFor(w, at, i)
<1> DEFINE S == Found(w, at)
           P(i) == Place(rates[i].scope, w)
           Places == {P(i) : i \in S}
<1>1. S \subseteq DOMAIN rates /\ S # {}
  BY DEF Found
<1>2. S \subseteq 0..MaxRates /\ \A i \in S : rates[i].from \in 0..Open
  BY <1>1, RateRow
<1>3. \A i \in S : P(i) \in 0..10
  BY PlaceRange
<1> HIDE DEF S, P
<1>4. Places \subseteq Nat /\ Places # {}
  BY <1>1, <1>3
<1>5. PICK least \in Places : \A m \in Places : least <= m
  BY <1>4, LeastOf
<1> DEFINE T == {i \in S : P(i) = least}
<1>6. T # {} /\ T \subseteq 0..MaxRates /\ \A i \in T : rates[i].from \in 0..Open
  BY <1>2, <1>5
<1>7. MaxRates \in Nat
  BY BoundAssumption
<1> HIDE DEF T
<1>8. PICK i \in T : \A j \in T : Newer(rates, i, j)
  BY <1>6, <1>7, NewestOf
<1>9. i \in S /\ P(i) = least
  BY DEF T
<1>10. ASSUME NEW j \in S
       PROVE  P(i) < P(j) \/ (P(i) = P(j) /\ Newer(rates, i, j))
  <2>1. P(i) <= P(j) /\ P(i) \in 0..10 /\ P(j) \in 0..10
    BY <1>3, <1>5, <1>9
  <2>2. CASE P(j) = least
    BY <1>8, <1>9, <2>2 DEF T
  <2>3. CASE P(j) # least
    BY <1>9, <2>1, <2>3
  <2> QED
    BY <2>2, <2>3
<1> QED
  BY <1>9, <1>10 DEF FirstFor, Beats, S, P

LEMMA OneFirst ==
    ASSUME TypeOK, NEW w, NEW at, NEW i, NEW j, FirstFor(w, at, i), FirstFor(w, at, j)
    PROVE  i = j
<1>1. i \in DOMAIN rates /\ j \in DOMAIN rates /\ Beats(i, j, w) /\ Beats(j, i, w)
  BY DEF FirstFor, Found
<1>2. Place(rates[i].scope, w) \in 0..10 /\ Place(rates[j].scope, w) \in 0..10
  BY PlaceRange
<1>3. Newer(rates, i, j) /\ Newer(rates, j, i)
  BY <1>1, <1>2 DEF Beats
<1> QED
  BY <1>1, <1>3, RateRow, OneNewest

\* ResolvedRate is that row, and 0 only if no candidate finds one.
LEMMA ResolvedIsFirst ==
    ASSUME TypeOK, NEW w, NEW at
    PROVE  /\ Found(w, at) = {} => ResolvedRate(w, at) = 0
           /\ Found(w, at) # {} => FirstFor(w, at, ResolvedRate(w, at))
           /\ \A i : FirstFor(w, at, i) => ResolvedRate(w, at) = i
           /\ ResolvedRate(w, at) \in 0..Len(rates)
<1>1. Found(w, at) = {} => ResolvedRate(w, at) = 0
  BY DEF ResolvedRate
<1>2. ASSUME Found(w, at) # {}
      PROVE  FirstFor(w, at, ResolvedRate(w, at))
  <2>1. \E i \in Found(w, at) : \A j \in Found(w, at) : Beats(i, j, w)
    BY <1>2, SomeFirst DEF FirstFor
  <2> QED
    BY <1>2, <2>1 DEF ResolvedRate, FirstFor
<1>3. \A i : FirstFor(w, at, i) => ResolvedRate(w, at) = i
  BY <1>2, OneFirst DEF FirstFor
<1>4. ResolvedRate(w, at) \in 0..Len(rates)
  <2>1. Len(rates) \in Nat /\ DOMAIN rates = 1..Len(rates)
    BY DEF TypeOK
  <2>2. Found(w, at) \subseteq 1..Len(rates)
    BY <2>1 DEF Found
  <2> QED
    BY <1>1, <1>2, <2>1, <2>2 DEF FirstFor
<1> QED
  BY <1>1, <1>2, <1>3, <1>4

\* The same for what a user costs.
CostsInForce(u, at) == {i \in DOMAIN costs : costs[i].user = u /\ InForce(costs[i], at)}
NewestCost(u, at, i) ==
    i \in CostsInForce(u, at) /\ \A j \in CostsInForce(u, at) : Newer(costs, i, j)

LEMMA ResolvedCostIsNewest ==
    ASSUME TypeOK, NEW u, NEW at
    PROVE  /\ CostsInForce(u, at) = {} => ResolvedUserCost(u, at) = <<"none", 0>>
           /\ CostsInForce(u, at) # {} =>
                 \E i : NewestCost(u, at, i) /\ ResolvedUserCost(u, at) = <<"user", i>>
           /\ \A i : NewestCost(u, at, i) => ResolvedUserCost(u, at) = <<"user", i>>
<1> DEFINE S == CostsInForce(u, at)
<1>1. S \subseteq 0..MaxCosts /\ \A i \in S : i \in DOMAIN costs /\ costs[i].from \in 0..Open
  BY CostRow DEF CostsInForce
<1>2. MaxCosts \in Nat
  BY BoundAssumption
<1>3. S = {} => ResolvedUserCost(u, at) = <<"none", 0>>
  BY DEF ResolvedUserCost, CostsInForce
<1>4. ASSUME S # {}
      PROVE  \E i : NewestCost(u, at, i) /\ ResolvedUserCost(u, at) = <<"user", i>>
  <2> DEFINE c == CHOOSE i \in S : \A j \in S : Newer(costs, i, j)
  <2>1. \E i \in S : \A j \in S : Newer(costs, i, j)
    BY <1>1, <1>2, <1>4, NewestOf
  <2>2. c \in S /\ \A j \in S : Newer(costs, c, j)
    BY <2>1
  <2>3. ResolvedUserCost(u, at) = <<"user", c>>
    BY <1>4 DEF ResolvedUserCost, CostsInForce
  <2> QED
    BY <2>2, <2>3 DEF NewestCost
<1>5. ASSUME NEW i, NEW j, NewestCost(u, at, i), NewestCost(u, at, j)
      PROVE  i = j
  <2>1. i \in S /\ j \in S /\ Newer(costs, i, j) /\ Newer(costs, j, i)
    BY <1>5 DEF NewestCost
  <2> QED
    BY <1>1, <2>1, CostRow, OneNewest
<1>6. \A i : NewestCost(u, at, i) => S # {}
  BY DEF NewestCost
<1> QED
  BY <1>3, <1>4, <1>5, <1>6

-----------------------------------------------------------------------------
(* The narrowest and newest rate.                                          *)

LEMMA ScopeColumns ==
    ASSUME NEW s \in Scopes, NEW w, InScope(s, w)
    PROVE  /\ s.customer \in {Null, w.customer} /\ s.project \in {Null, w.project}
           /\ s.activity \in {Null, w.activity} /\ s.task \in {Null, w.task}
           /\ s.user \in {Null, w.user}
BY ScopeAssumption DEF InScope

\* The candidates go through the scopes that name the work from the narrowest to the
\* broadest; a row that they find although it names other work as well is not broader
\* than its candidate.
LEMMA PlaceIsNarrowness ==
    ASSUME NEW s \in Scopes, NEW w \in Works
    PROVE  /\ Place(s, w) # 0 => Narrowness(s) >= 10 - Place(s, w)
           /\ InScope(s, w) => Place(s, w) # 0 /\ Narrowness(s) = 10 - Place(s, w)
           /\ Narrowness(s) \in Nat
<1> DEFINE named == IF s.user = Null THEN 0 ELSE 1
           column == CASE s.task # Null -> 4
                       [] s.task = Null /\ s.activity # Null -> 3
                       [] s.task = Null /\ s.activity = Null /\ s.project # Null -> 2
                       [] s.task = Null /\ s.activity = Null /\ s.project = Null
                            /\ s.customer # Null -> 1
                       [] OTHER -> 0
<1>1. /\ w.customer # Null /\ w.project # Null /\ w.activity # Null /\ w.user # Null
  BY WorkAssumption
<1>2. column \in 0..4 /\ named \in 0..1 /\ Narrowness(s) = 2 * column + named
  BY DEF Narrowness
<1>3. ASSUME Place(s, w) # 0
      PROVE  /\ s.user \in {w.user, Null} /\ Level(s, w) \in 1..5
             /\ Place(s, w) = 2 * Level(s, w) - named
  BY <1>1, <1>3 DEF Place, Level
<1>4. Level(s, w) # 0 => column >= 5 - Level(s, w)
  BY <1>1 DEF Level
<1>5. ASSUME InScope(s, w)
      PROVE  s.user \in {w.user, Null} /\ Level(s, w) # 0 /\ column = 5 - Level(s, w)
  <2>1. /\ s.customer \in {Null, w.customer} /\ s.project \in {Null, w.project}
        /\ s.activity \in {Null, w.activity} /\ s.task \in {Null, w.task}
        /\ s.user \in {Null, w.user}
    BY <1>5, ScopeColumns
  <2> QED
    BY <1>1, <2>1 DEF Level
<1>6. Level(s, w) \in 0..5
  BY DEF Level
<1>7. s.user \in {w.user, Null} /\ Level(s, w) # 0 => Place(s, w) # 0
  BY <1>6 DEF Place
<1> HIDE DEF named, column
<1> QED
  BY <1>2, <1>3, <1>4, <1>5, <1>6, <1>7

LEMMA NarrowestOfTyped == TypeOK => NarrowestRateWins
<1> SUFFICES ASSUME TypeOK, NEW w \in Works, NEW at \in Starts, NEW i \in DOMAIN rates,
                    InScope(rates[i].scope, w), rates[i].from <= at, at < rates[i].to
             PROVE  LET c == ResolvedRate(w, at)
                    IN  /\ c # 0
                        /\ \/ Narrowness(rates[c].scope) > Narrowness(rates[i].scope)
                           \/ /\ Narrowness(rates[c].scope) = Narrowness(rates[i].scope)
                              /\ \/ rates[c].from > rates[i].from
                                 \/ rates[c].from = rates[i].from /\ c >= i
  BY DEF NarrowestRateWins
<1> DEFINE s == rates[i].scope
<1>1. s \in Scopes /\ rates[i].from \in Nat /\ rates[i].to \in Nat /\ at \in Nat
  BY RateRow, WindowAssumption
<1>2. Place(s, w) # 0 /\ Narrowness(s) = 10 - Place(s, w)
  BY <1>1, PlaceIsNarrowness
<1>3. i \in Found(w, at)
  BY <1>1, <1>2 DEF Found, InForce
<1>4. PICK c : c = ResolvedRate(w, at) /\ FirstFor(w, at, c)
  BY <1>3, ResolvedIsFirst
<1>5. c \in DOMAIN rates /\ Place(rates[c].scope, w) # 0 /\ Beats(c, i, w)
  BY <1>3, <1>4 DEF FirstFor, Found
<1>6. /\ Narrowness(rates[c].scope) \in Nat /\ Narrowness(s) \in Nat
      /\ Narrowness(rates[c].scope) >= 10 - Place(rates[c].scope, w)
      /\ Place(rates[c].scope, w) \in 0..10 /\ Place(s, w) \in 0..10
  BY <1>1, <1>5, RateRow, PlaceIsNarrowness, PlaceRange
<1>7. CASE Place(rates[c].scope, w) < Place(s, w)
  BY <1>2, <1>4, <1>5, <1>6, <1>7, RateRow
<1>8. CASE Place(rates[c].scope, w) = Place(s, w) /\ Newer(rates, c, i)
  <2>1. Narrowness(rates[c].scope) >= Narrowness(s)
    BY <1>2, <1>6, <1>8
  <2>2. rates[c].from > rates[i].from \/ (rates[c].from = rates[i].from /\ c >= i)
    BY <1>8 DEF Newer
  <2>3. c # 0
    BY <1>5, RateRow
  <2> QED
    BY <1>4, <1>6, <2>1, <2>2, <2>3
<1> QED
  BY <1>5, <1>7, <1>8 DEF Beats

-----------------------------------------------------------------------------
(* The steps keep the types.                                               *)

LEMMA EntryRow ==
    ASSUME TypeOK, NEW e \in DOMAIN entries
    PROVE  /\ entries[e] \in Entry /\ entries[e].work \in Works /\ entries[e].start \in Starts
           /\ entries[e].price \in Prices /\ entries[e].price.rate \in 0..Len(rates)
           /\ entries[e].start \in Nat
<1>1. entries[e] \in Entry /\ entries[e].price.rate \in 0..Len(rates)
  BY DEF TypeOK
<1>2. Starts \subseteq Nat
  BY WindowAssumption
<1> QED
  BY <1>1, <1>2 DEF Entry

LEMMA PriceType ==
    ASSUME Typed, NEW w \in Works, NEW at \in Starts
    PROVE  Price(w, at) \in Prices /\ Price(w, at).rate \in 0..Len(rates)
<1> DEFINE r == ResolvedRate(w, at)
<1>1. /\ Len(rates) \in Nat /\ Len(costs) \in Nat /\ Len(entries) \in Nat
      /\ Len(rates) <= MaxRates /\ Len(costs) <= MaxCosts /\ MaxRates \in Nat /\ MaxRows \in Nat
      /\ Len(rates) <= MaxRows /\ Len(costs) <= MaxRows
  BY BoundAssumption DEF Typed, TypeOK, Fits
<1>2. r \in 0..Len(rates)
  BY ResolvedIsFirst DEF Typed
<1>3. ResolvedUserCost(w.user, at) \in {"none", "rate", "user"} \X (0..MaxRows)
  <2>1. CASE CostsInForce(w.user, at) = {}
    BY <1>1, <2>1, ResolvedCostIsNewest DEF Typed
  <2>2. CASE CostsInForce(w.user, at) # {}
    <3>1. PICK i : NewestCost(w.user, at, i) /\ ResolvedUserCost(w.user, at) = <<"user", i>>
      BY <2>2, ResolvedCostIsNewest DEF Typed
    <3>2. i \in 1..Len(costs)
      BY <3>1, <1>1 DEF NewestCost, CostsInForce, Typed, TypeOK
    <3> QED
      BY <1>1, <3>1, <3>2
  <2> QED
    BY <2>1, <2>2
<1>4. <<"rate", r>> \in {"none", "rate", "user"} \X (0..MaxRows)
  BY <1>1, <1>2
<1> HIDE DEF r
<1>5. Price(w, at) = [rate |-> r, cost |-> IF r # 0 /\ rates[r].internal THEN <<"rate", r>>
                                           ELSE ResolvedUserCost(w.user, at)]
  BY DEF Price, r
<1> QED
  BY <1>1, <1>2, <1>3, <1>4, <1>5 DEF Prices

LEMMA SaveRateStep ==
    ASSUME Typed, NEW s \in Scopes, SaveRate(s)
    PROVE  Typed'
<1>1. PICK w \in Windows, own \in BOOLEAN :
         rates' = Append(rates, [scope |-> s, from |-> w[1], to |-> w[2], internal |-> own])
  BY DEF SaveRate
<1> DEFINE row == [scope |-> s, from |-> w[1], to |-> w[2], internal |-> own]
<1>2. row \in Rate
  BY WindowAssumption DEF Rate
<1> HIDE DEF row
<1>3. rates' \in Seq(Rate) /\ Len(rates') = Len(rates) + 1 /\ Len(rates) \in Nat
  BY <1>1, <1>2, Appended DEF Typed, TypeOK, row
<1>4. Len(rates) < MaxRates /\ Room /\ UNCHANGED <<costs, entries>>
  BY DEF SaveRate
<1>5. MaxRates \in Nat /\ MaxRows \in Nat /\ Len(costs) \in Nat /\ Len(entries) \in Nat
  BY BoundAssumption DEF Typed, TypeOK
<1>6. Len(rates') <= MaxRates /\ Fits'
  BY <1>3, <1>4, <1>5 DEF Fits, Room
<1>7. \A e \in DOMAIN entries : entries[e].price.rate \in 0..Len(rates')
  BY <1>3, EntryRow DEF Typed
<1> QED
  BY <1>3, <1>4, <1>6, <1>7 DEF Typed, TypeOK

LEMMA SaveUserCostRateStep ==
    ASSUME Typed, NEW u \in Users, SaveUserCostRate(u)
    PROVE  Typed'
<1>1. PICK w \in Windows : costs' = Append(costs, [user |-> u, from |-> w[1], to |-> w[2]])
  BY DEF SaveUserCostRate
<1> DEFINE row == [user |-> u, from |-> w[1], to |-> w[2]]
<1>2. row \in Cost
  BY WindowAssumption DEF Cost
<1> HIDE DEF row
<1>3. costs' \in Seq(Cost) /\ Len(costs') = Len(costs) + 1 /\ Len(costs) \in Nat
  BY <1>1, <1>2, Appended DEF Typed, TypeOK, row
<1>4. Len(costs) < MaxCosts /\ Room /\ UNCHANGED <<rates, entries>>
  BY DEF SaveUserCostRate
<1>5. MaxCosts \in Nat /\ MaxRows \in Nat /\ Len(rates) \in Nat /\ Len(entries) \in Nat
  BY BoundAssumption DEF Typed, TypeOK
<1>6. Len(costs') <= MaxCosts /\ Fits'
  BY <1>3, <1>4, <1>5 DEF Fits, Room
<1> QED
  BY <1>3, <1>4, <1>6 DEF Typed, TypeOK

LEMMA RecordTimeStep ==
    ASSUME Typed, NEW w \in Works, NEW at \in Starts, RecordTime(w, at)
    PROVE  Typed'
<1> DEFINE row == [work |-> w, start |-> at, price |-> Price(w, at)]
<1>1. row \in Entry /\ row.price.rate \in 0..Len(rates)
  BY PriceType DEF Entry
<1>2. entries' = Append(entries, row)
  BY DEF RecordTime
<1> HIDE DEF row
<1>3. /\ entries' \in Seq(Entry) /\ Len(entries') = Len(entries) + 1 /\ Len(entries) \in Nat
      /\ DOMAIN entries' = DOMAIN entries \cup {Len(entries) + 1}
      /\ \A e \in DOMAIN entries : entries'[e] = entries[e]
      /\ entries'[Len(entries) + 1] = row
  BY <1>1, <1>2, Appended DEF Typed, TypeOK
<1>4. Len(entries) < MaxEntries /\ Room /\ UNCHANGED <<rates, costs>>
  BY DEF RecordTime
<1>5. MaxEntries \in Nat /\ MaxRows \in Nat /\ Len(rates) \in Nat /\ Len(costs) \in Nat
  BY BoundAssumption DEF Typed, TypeOK
<1>6. Len(entries') <= MaxEntries /\ Fits'
  BY <1>3, <1>4, <1>5 DEF Fits, Room
<1>7. \A e \in DOMAIN entries' : entries'[e].price.rate \in 0..Len(rates')
  BY <1>1, <1>3, <1>4, EntryRow DEF Typed
<1> QED
  BY <1>3, <1>4, <1>6, <1>7 DEF Typed, TypeOK

\* What a recalculation does to each entry.
LEMMA RecalculatedEntries ==
    ASSUME TypeOK, NEW project, NEW since, ApplyRecalc(project, since)
    PROVE  /\ UNCHANGED <<rates, costs>> /\ DOMAIN entries' = DOMAIN entries
           /\ Len(entries') = Len(entries) /\ entries' \in Seq(Entry)
           /\ \A e \in DOMAIN entries : e \notin InRange(project, since) => entries'[e] = entries[e]
           /\ \A e \in InRange(project, since) :
                entries'[e].price.rate \in UserProjectRates(entries[e].work)
           /\ \A e \in DOMAIN entries : entries'[e].price.rate \in 0..Len(rates)
<1> DEFINE In == InRange(project, since)
           Of(e) == UserProjectRates(entries[e].work)
<1>1. PICK choice \in [In -> 1..MaxRates] :
        /\ \A e \in DOMAIN choice : choice[e] \in Of(e)
        /\ entries' = [e \in DOMAIN entries |->
             IF e \in DOMAIN choice THEN [entries[e] EXCEPT !.price.rate = choice[e]] ELSE entries[e]]
  BY DEF ApplyRecalc
<1>2. UNCHANGED <<rates, costs>>
  BY DEF ApplyRecalc
<1>3. In \subseteq DOMAIN entries /\ DOMAIN choice = In
  BY DEF InRange
<1>4. \A e \in DOMAIN entries : Of(e) \subseteq DOMAIN rates
  BY DEF UserProjectRates
<1>5. Len(rates) \in Nat /\ DOMAIN rates = 1..Len(rates) /\ Len(entries) \in Nat
      /\ DOMAIN entries = 1..Len(entries)
  BY DEF TypeOK
<1> HIDE DEF In, Of
<1>6. ASSUME NEW e \in DOMAIN entries
      PROVE  /\ entries'[e] \in Entry /\ entries'[e].price.rate \in 0..Len(rates)
             /\ e \notin In => entries'[e] = entries[e]
             /\ e \in In => entries'[e].price.rate = choice[e]
  <2>1. CASE e \notin In
    BY <1>1, <1>3, <2>1, EntryRow
  <2>2. CASE e \in In
    <3> DEFINE old == entries[e]
               price == [old.price EXCEPT !.rate = choice[e]]
               new == [old EXCEPT !.price = price]
    <3>1. old \in Entry /\ old.price \in Prices
      BY EntryRow
    <3>2. choice[e] \in 1..MaxRates /\ choice[e] \in 1..Len(rates)
      BY <1>1, <1>3, <1>4, <1>5, <2>2
    <3>3. entries'[e] = new
      BY <1>1, <1>3, <2>2
    <3>4. price \in Prices /\ price.rate = choice[e]
      BY <3>1, <3>2 DEF Prices
    <3> HIDE DEF price
    <3>5. new \in Entry /\ new.price = price
      BY <3>1, <3>4 DEF Entry
    <3> QED
      BY <2>2, <3>2, <3>3, <3>4, <3>5
  <2> QED
    BY <2>1, <2>2
<1>7. entries' \in [1..Len(entries) -> Entry]
  BY <1>1, <1>5, <1>6
<1>8. entries' \in Seq(Entry) /\ Len(entries') = Len(entries)
  BY <1>5, <1>7
<1>9. \A e \in In : entries'[e].price.rate \in Of(e)
  BY <1>1, <1>3, <1>6
<1> QED
  BY <1>2, <1>5, <1>6, <1>7, <1>8, <1>9 DEF In, Of

LEMMA ApplyRecalcStep ==
    ASSUME Typed, NEW project, NEW since, ApplyRecalc(project, since)
    PROVE  Typed'
BY RecalculatedEntries DEF Typed, TypeOK, Fits

LEMMA TypedStep == Typed /\ [Next]_vars => Typed'
<1> SUFFICES ASSUME Typed, [Next]_vars PROVE Typed'
  OBVIOUS
<1>1. CASE UNCHANGED vars
  BY <1>1 DEF vars, Typed, TypeOK, Fits
<1> QED
  BY <1>1, SaveRateStep, SaveUserCostRateStep, RecordTimeStep, ApplyRecalcStep DEF Next

LEMMA TypedInit == Init => Typed
<1> SUFFICES ASSUME Init PROVE Typed
  OBVIOUS
<1>1. {MaxRates, MaxCosts, MaxEntries, MaxRows} \subseteq Nat
  BY BoundAssumption
<1> QED
  BY <1>1 DEF Init, Typed, TypeOK, Fits

LEMMA AlwaysTyped == Spec => []Typed
BY TypedInit, TypedStep, PTL DEF Spec

\* Rates, costs and entries keep their types, and no entry has the price of a rate that
\* is not there.
THEOREM TypeCorrect == Spec => []TypeOK
<1>1. Typed => TypeOK
  BY DEF Typed
<1> QED
  BY <1>1, AlwaysTyped, PTL

\* The ten queries of ResolveRateAt, tried in their order, find the narrowest rate meant
\* for the work that is in force, and of equally narrow ones the newest, for any rates.
THEOREM NarrowestFound == Spec => []NarrowestRateWins
<1>1. Typed => NarrowestRateWins
  BY NarrowestOfTyped DEF Typed
<1> QED
  BY <1>1, AlwaysTyped, PTL


-----------------------------------------------------------------------------
(* History does not change.                                                *)

\* What the queries find, as a formula about the next state too.
Resolves ==
    \A w, at, i :
        /\ Found(w, at) = {} => ResolvedRate(w, at) = 0
        /\ FirstFor(w, at, i) => ResolvedRate(w, at) = i
        /\ CostsInForce(w, at) = {} => ResolvedUserCost(w, at) = <<"none", 0>>
        /\ NewestCost(w, at, i) => ResolvedUserCost(w, at) = <<"user", i>>

LEMMA TypedResolves == TypeOK => Resolves
BY ResolvedIsFirst, ResolvedCostIsNewest DEF Resolves

LEMMA TypedResolvesNext == TypeOK' => Resolves'
BY TypedResolves, PTL

\* The row a query takes is what it was if the rows in force are what they were.
LEMMA SameRate ==
    ASSUME TypeOK, TypeOK', NEW w, NEW at,
           \A i \in DOMAIN rates : rates'[i] = rates[i],
           Found(w, at)' = Found(w, at)
    PROVE  UNCHANGED ResolvedRate(w, at)
<1>1. Resolves /\ Resolves'
  BY TypedResolves, TypedResolvesNext
<1>2. Found(w, at) \subseteq DOMAIN rates
  BY DEF Found
<1>3. CASE Found(w, at) = {}
  BY <1>1, <1>3 DEF Resolves
<1>4. CASE Found(w, at) # {}
  <2>1. PICK i : FirstFor(w, at, i)
    BY <1>4, SomeFirst
  <2>2. FirstFor(w, at, i)'
    BY <1>2, <2>1 DEF FirstFor, Beats, Newer
  <2> QED
    BY <1>1, <2>1, <2>2 DEF Resolves
<1> QED
  BY <1>3, <1>4

LEMMA SameCost ==
    ASSUME TypeOK, TypeOK', NEW u, NEW at,
           \A i \in DOMAIN costs : costs'[i] = costs[i],
           CostsInForce(u, at)' = CostsInForce(u, at)
    PROVE  UNCHANGED ResolvedUserCost(u, at)
<1>1. Resolves /\ Resolves'
  BY TypedResolves, TypedResolvesNext
<1>2. CostsInForce(u, at) \subseteq DOMAIN costs
  BY DEF CostsInForce
<1>3. CASE CostsInForce(u, at) = {}
  BY <1>1, <1>3 DEF Resolves
<1>4. CASE CostsInForce(u, at) # {}
  <2>1. PICK i : NewestCost(u, at, i)
    BY <1>4, ResolvedCostIsNewest
  <2>2. NewestCost(u, at, i)'
    BY <1>2, <2>1 DEF NewestCost, Newer
  <2> QED
    BY <1>1, <2>1, <2>2 DEF Resolves
<1> QED
  BY <1>3, <1>4

LEMMA SamePrice ==
    ASSUME TypeOK, NEW w, NEW at,
           \A i \in DOMAIN rates : rates'[i] = rates[i],
           UNCHANGED ResolvedRate(w, at), UNCHANGED ResolvedUserCost(w.user, at)
    PROVE  UNCHANGED Price(w, at)
<1>1. PICK r : r = ResolvedRate(w, at) /\ r \in 0..Len(rates)
  BY ResolvedIsFirst
<1>2. r # 0 => r \in DOMAIN rates
  BY <1>1 DEF TypeOK
<1>3. r # 0 => rates'[r].internal = rates[r].internal
  BY <1>2
<1>4. r = ResolvedRate(w, at)'
  BY <1>1
<1> QED
  BY <1>1, <1>3, <1>4 DEF Price

\* A row that is not in force at a start is not found for it.
LEMMA SaveRateKeeps ==
    ASSUME Typed, NEW s \in Scopes, SaveRate(s), NEW w \in Works, NEW at \in Starts,
           ~ \E i \in DOMAIN rates' \ DOMAIN rates : at \in rates'[i].from..(rates'[i].to - 1)
    PROVE  UNCHANGED Price(w, at)
<1>1. TypeOK /\ TypeOK' /\ UNCHANGED costs
  BY SaveRateStep DEF Typed, SaveRate
<1>2. PICK x \in Windows, own \in BOOLEAN :
         rates' = Append(rates, [scope |-> s, from |-> x[1], to |-> x[2], internal |-> own])
  BY DEF SaveRate
<1> DEFINE row == [scope |-> s, from |-> x[1], to |-> x[2], internal |-> own]
           n == Len(rates) + 1
<1>3. row \in Rate
  BY WindowAssumption DEF Rate
<1> HIDE DEF row
<1>4. /\ DOMAIN rates' = DOMAIN rates \cup {n} /\ n \notin DOMAIN rates
      /\ \A i \in DOMAIN rates : rates'[i] = rates[i]
      /\ rates'[n] = row
  BY <1>1, <1>2, <1>3, Appended DEF TypeOK, row
<1>5. row.from \in Nat /\ row.to \in Nat /\ at \in Nat
  BY <1>3, WindowAssumption DEF Rate
<1>6. ~InForce(rates'[n], at)
  BY <1>4, <1>5 DEF InForce
<1>7. Found(w, at)' = Found(w, at)
  BY <1>4, <1>6 DEF Found
<1>8. UNCHANGED ResolvedRate(w, at)
  BY <1>1, <1>4, <1>7, SameRate
<1>9. UNCHANGED ResolvedUserCost(w.user, at)
  BY <1>1 DEF ResolvedUserCost
<1> QED
  BY <1>1, <1>4, <1>8, <1>9, SamePrice

LEMMA SaveUserCostRateKeeps ==
    ASSUME Typed, NEW u \in Users, SaveUserCostRate(u), NEW w \in Works, NEW at \in Starts,
           ~ \E i \in DOMAIN costs' \ DOMAIN costs :
                at \in costs'[i].from..(costs'[i].to - 1) /\ costs'[i].user = w.user
    PROVE  UNCHANGED Price(w, at)
<1>1. TypeOK /\ TypeOK' /\ UNCHANGED rates
  BY SaveUserCostRateStep DEF Typed, SaveUserCostRate
<1>2. PICK x \in Windows : costs' = Append(costs, [user |-> u, from |-> x[1], to |-> x[2]])
  BY DEF SaveUserCostRate
<1> DEFINE row == [user |-> u, from |-> x[1], to |-> x[2]]
           n == Len(costs) + 1
<1>3. row \in Cost
  BY WindowAssumption DEF Cost
<1> HIDE DEF row
<1>4. /\ DOMAIN costs' = DOMAIN costs \cup {n} /\ n \notin DOMAIN costs
      /\ \A i \in DOMAIN costs : costs'[i] = costs[i]
      /\ costs'[n] = row
  BY <1>1, <1>2, <1>3, Appended DEF TypeOK, row
<1>5. row.from \in Nat /\ row.to \in Nat /\ at \in Nat
  BY <1>3, WindowAssumption DEF Cost
<1>6. ~(costs'[n].user = w.user /\ InForce(costs'[n], at))
  BY <1>4, <1>5 DEF InForce
<1>7. CostsInForce(w.user, at)' = CostsInForce(w.user, at)
  BY <1>4, <1>6 DEF CostsInForce
<1>8. UNCHANGED ResolvedUserCost(w.user, at)
  BY <1>1, <1>4, <1>7, SameCost
<1>9. UNCHANGED ResolvedRate(w, at)
  BY <1>1 DEF ResolvedRate, Found, Beats
<1> QED
  BY <1>1, <1>8, <1>9, SamePrice

LEMMA HistoryStep ==
    ASSUME Typed, [Next]_vars, NEW w \in Works, NEW at \in Starts
    PROVE  \/ UNCHANGED <<rates, costs>>
           \/ UNCHANGED Price(w, at)
           \/ \E i \in DOMAIN rates' \ DOMAIN rates : at \in rates'[i].from..(rates'[i].to - 1)
           \/ \E i \in DOMAIN costs' \ DOMAIN costs :
                 at \in costs'[i].from..(costs'[i].to - 1) /\ costs'[i].user = w.user
<1>1. CASE UNCHANGED vars
  BY <1>1 DEF vars
<1>2. ASSUME NEW x \in Works, NEW start \in Starts, RecordTime(x, start)
      PROVE  UNCHANGED <<rates, costs>>
  BY <1>2 DEF RecordTime
<1>3. ASSUME NEW project, NEW since, ApplyRecalc(project, since)
      PROVE  UNCHANGED <<rates, costs>>
  BY <1>3 DEF ApplyRecalc
<1> QED
  BY <1>1, <1>2, <1>3, SaveRateKeeps, SaveUserCostRateKeeps DEF Next

\* Saving a rate or a cost does not change what is resolved for a start at which it is not
\* in force, whatever scope it has and whatever other rows there are.
THEOREM HistoryIsStable == Spec => HistoryStable
<1>1. Typed /\ [Next]_vars =>
        [\A w \in Works, at \in Starts :
           \/ UNCHANGED Price(w, at)
           \/ \E i \in DOMAIN rates' \ DOMAIN rates : at \in rates'[i].from..(rates'[i].to - 1)
           \/ \E i \in DOMAIN costs' \ DOMAIN costs :
                 at \in costs'[i].from..(costs'[i].to - 1) /\ costs'[i].user = w.user
        ]_<<rates, costs>>
  BY HistoryStep
<1> QED
  BY <1>1, AlwaysTyped, PTL DEF Spec, HistoryStable

-----------------------------------------------------------------------------
(* Recalculation.                                                          *)

LEMMA RecalculationStep ==
    ASSUME Typed, NEW project, NEW since \in Starts, ApplyRecalc(project, since),
           NEW e \in DOMAIN entries, entries'[e].price.rate # entries[e].price.rate
    PROVE  /\ [entry |-> e, rate |-> entries'[e].price.rate]
                 \in RecalcPreview(entries[e].work.project, entries[e].start)
           /\ \A f \in DOMAIN entries :
                 /\ entries[f].work.project = entries[e].work.project
                 /\ entries[f].start >= entries[e].start
                 => /\ entries'[f].price.rate # 0
                    /\ rates[entries'[f].price.rate].scope.user = entries[f].work.user
                    /\ rates[entries'[f].price.rate].scope.project = entries[f].work.project
<1> DEFINE new == entries'[e].price.rate
<1>1. TypeOK
  BY DEF Typed
<1>2. /\ \A f \in DOMAIN entries : f \notin InRange(project, since) => entries'[f] = entries[f]
      /\ \A f \in InRange(project, since) :
           entries'[f].price.rate \in UserProjectRates(entries[f].work)
  BY <1>1, RecalculatedEntries
<1>3. e \in InRange(project, since)
  BY <1>2
<1>4. /\ entries[e].work.project = project /\ entries[e].start >= since
      /\ \A f \in DOMAIN entries : entries[f].start \in Nat
  BY <1>1, <1>3, EntryRow DEF InRange
<1>5. new \in UserProjectRates(entries[e].work) /\ new \in 0..MaxRates
  <2>1. new \in UserProjectRates(entries[e].work)
    BY <1>2, <1>3
  <2>2. new \in DOMAIN rates
    BY <2>1 DEF UserProjectRates
  <2>3. new \in 1..MaxRates
    BY <1>1, <2>2, RateRow
  <2> QED
    BY <2>1, <2>3
<1> HIDE DEF new
<1>6. e \in InRange(entries[e].work.project, entries[e].start)
  BY <1>4 DEF InRange
<1>7. [entry |-> e, rate |-> new] \in RecalcPreview(entries[e].work.project, entries[e].start)
  <2>1. new # entries[e].price.rate
    BY DEF new
  <2> QED
    BY <1>5, <1>6, <2>1 DEF RecalcPreview
<1>8. ASSUME NEW f \in DOMAIN entries,
             entries[f].work.project = entries[e].work.project,
             entries[f].start >= entries[e].start
      PROVE  /\ entries'[f].price.rate # 0
             /\ rates[entries'[f].price.rate].scope.user = entries[f].work.user
             /\ rates[entries'[f].price.rate].scope.project = entries[f].work.project
  <2>1. f \in InRange(project, since)
    <3>1. since \in Nat
      BY WindowAssumption
    <3> QED
      BY <1>4, <1>8, <3>1 DEF InRange
  <2>2. entries'[f].price.rate \in UserProjectRates(entries[f].work)
    BY <1>2, <2>1
  <2> QED
    BY <1>1, <2>2, RateRow DEF UserProjectRates
<1> QED
  BY <1>7, <1>8 DEF new

\* A recalculation changes a price only to one its preview announced, and then every
\* later entry of the project has a rate of its own user and project.
THEOREM RecalculationLeavesNone == Spec => RecalculationIsWhole
<1> DEFINE Announced(e) ==
             /\ [entry |-> e, rate |-> entries'[e].price.rate]
                   \in RecalcPreview(entries[e].work.project, entries[e].start)
             /\ \A f \in DOMAIN entries :
                   /\ entries[f].work.project = entries[e].work.project
                   /\ entries[f].start >= entries[e].start
                   => /\ entries'[f].price.rate # 0
                      /\ rates[entries'[f].price.rate].scope.user = entries[f].work.user
                      /\ rates[entries'[f].price.rate].scope.project = entries[f].work.project
<1>1. ASSUME Typed, [Next]_vars, NEW e \in DOMAIN entries,
             entries'[e].price.rate # entries[e].price.rate
      PROVE  Announced(e)
  <2>1. ASSUME NEW w \in Works, NEW at \in Starts, RecordTime(w, at)
        PROVE  entries'[e] = entries[e]
    <3>1. entries' = Append(entries, [work |-> w, start |-> at, price |-> Price(w, at)])
      BY <2>1 DEF RecordTime
    <3>2. [work |-> w, start |-> at, price |-> Price(w, at)] \in Entry
      BY <1>1, PriceType DEF Entry
    <3> QED
      BY <1>1, <3>1, <3>2, Appended DEF Typed, TypeOK
  <2>2. \A s : SaveRate(s) => UNCHANGED entries
    BY DEF SaveRate
  <2>3. \A u : SaveUserCostRate(u) => UNCHANGED entries
    BY DEF SaveUserCostRate
  <2>4. UNCHANGED vars => UNCHANGED entries
    BY DEF vars
  <2>5. PICK project \in DOMAIN ProjectCustomer, since \in Starts : ApplyRecalc(project, since)
    BY <1>1, <2>1, <2>2, <2>3, <2>4 DEF Next
  <2> QED
    BY <1>1, <2>5, RecalculationStep
<1>2. Typed /\ [Next]_vars =>
        [\A e \in DOMAIN entries : entries'[e].price.rate # entries[e].price.rate =>
           Announced(e)]_entries
  BY <1>1
<1> QED
  BY <1>2, AlwaysTyped, PTL DEF Spec, RecalculationIsWhole
=============================================================================
