------------------------------ MODULE SignInProofs ------------------------------
(***************************************************************************)
(* Theorems about SignIn for every set of accounts, addresses and requests,*)
(* any limit of attempts and all bounds.                                   *)
(***************************************************************************)
EXTENDS SignIn, SequenceTheorems, FiniteSetTheorems, WellFoundedInduction, TLAPS

-----------------------------------------------------------------------------
(* Tables of codes and links.                                              *)

LEMMA Appended ==
    ASSUME NEW S, NEW s \in Seq(S), NEW e \in S
    PROVE  /\ Append(s, e) \in Seq(S) /\ Len(Append(s, e)) = Len(s) + 1
           /\ DOMAIN Append(s, e) = DOMAIN s \cup {Len(s) + 1}
           /\ Len(s) + 1 \notin DOMAIN s /\ Len(s) + 1 \in Nat
           /\ \A i \in DOMAIN s : Append(s, e)[i] = s[i]
           /\ Append(s, e)[Len(s) + 1] = e
OBVIOUS

LEMMA Replaced ==
    ASSUME NEW S, NEW s \in Seq(S), NEW i \in DOMAIN s, NEW e \in S
    PROVE  /\ [s EXCEPT ![i] = e] \in Seq(S) /\ Len([s EXCEPT ![i] = e]) = Len(s)
           /\ DOMAIN [s EXCEPT ![i] = e] = DOMAIN s
           /\ \A j \in DOMAIN s : [s EXCEPT ![i] = e][j] = IF j = i THEN e ELSE s[j]
BY ExceptSeq, LenProperties

LEMMA ElementTypes ==
    ASSUME NEW S, NEW s \in Seq(S), NEW i \in DOMAIN s
    PROVE  s[i] \in S /\ i \in Nat /\ i > 0
BY LenProperties, ElementOfSeq

\* The newest row: the largest of some positions of a table.
LEMMA GreatestOf ==
    ASSUME NEW n \in Nat, NEW S, S \subseteq 1..n, S # {}
    PROVE  Max(S) \in S
<1> DEFINE T == {n - x : x \in S}
<1>0. \A x \in S : x \in Nat /\ n - x \in Nat
  OBVIOUS
<1>1. T \subseteq Nat /\ T # {}
  BY <1>0
<1>2. PICK y \in T : \A z \in T : ~(<<z, y>> \in OpToRel(<, Nat))
  BY <1>1, NatLessThanWellFounded, WFMin
<1>3. \A z \in T : ~(z < y)
  BY <1>1, <1>2 DEF OpToRel
<1>4. PICK x \in S : y = n - x
  BY <1>2
<1>5. \A w \in S : x >= w
  <2>1. ASSUME NEW w \in S PROVE x >= w
    <3>1. n - w \in T /\ ~(n - w < n - x)
      BY <1>3, <1>4
    <3>2. n \in Nat /\ x \in Nat /\ w \in Nat
      BY <1>0
    <3> QED
      BY <3>1, <3>2
  <2> QED
    BY <2>1
<1> QED
  BY <1>5 DEF Max

LEMMA WonFinite ==
    ASSUME NEW table \in Seq(Code), NEW u
    PROVE  /\ IsFiniteSet(Won(table, u)) /\ Cardinality(Won(table, u)) \in Nat
           /\ Won(table, u) \subseteq DOMAIN table
<1>1. DOMAIN table = 1..Len(table) /\ Len(table) \in Nat
  BY LenProperties
<1>2. IsFiniteSet(DOMAIN table)
  BY <1>1, FS_Interval
<1>3. Won(table, u) \subseteq DOMAIN table
  BY DEF Won
<1>4. IsFiniteSet(Won(table, u))
  BY <1>2, <1>3, FS_Subset
<1> QED
  BY <1>3, <1>4, FS_CardinalityType

\* The row of a code that is made.
FirstRow(table, u, email) ==
    [user |-> u, email |-> email, attempts |-> 0, used |-> FALSE, expired |-> FALSE,
     wrong |-> 0, wins |-> 0, born |-> Cardinality(Won(table, u))]

LEMMA FirstRowType ==
    ASSUME NEW table \in Seq(Code), NEW u \in Users, NEW email \in Emails \cup {NoEmail}
    PROVE  FirstRow(table, u, email) \in Code
BY WonFinite DEF FirstRow, Code

LEMMA NewRow ==
    ASSUME NEW table \in Seq(Code), NEW u \in Users, NEW email \in Emails \cup {NoEmail}
    PROVE  /\ NewCode(table, u, email) \in Seq(Code)
           /\ DOMAIN NewCode(table, u, email) = DOMAIN table \cup {Len(table) + 1}
           /\ Len(table) + 1 \notin DOMAIN table /\ Len(table) + 1 \in Nat
           /\ \A i \in DOMAIN table : NewCode(table, u, email)[i] = table[i]
           /\ NewCode(table, u, email)[Len(table) + 1] = FirstRow(table, u, email)
<1>1. NewCode(table, u, email) = Append(table, FirstRow(table, u, email))
  BY DEF NewCode, FirstRow
<1> QED
  BY <1>1, FirstRowType, Appended

LEMMA NewWon ==
    ASSUME NEW table \in Seq(Code), NEW u \in Users, NEW email \in Emails \cup {NoEmail}, NEW v
    PROVE  Won(NewCode(table, u, email), v) = Won(table, v)
<1> DEFINE made == NewCode(table, u, email)
           n == Len(table) + 1
<1>1. FirstRow(table, u, email).wins = 0
  BY DEF FirstRow
<1>2. /\ DOMAIN made = DOMAIN table \cup {n} /\ n \notin DOMAIN table
      /\ \A i \in DOMAIN table : made[i] = table[i]
      /\ made[n] = FirstRow(table, u, email)
  BY NewRow
<1> HIDE DEF made, n
<1>3. Won(made, v) = Won(table, v)
  BY <1>1, <1>2 DEF Won
<1> QED
  BY <1>3 DEF made

\* A row that is used up, and one that wins by it.
LEMMA RowUsed ==
    ASSUME NEW row \in Code, NEW after, after = [row EXCEPT !.used = TRUE]
    PROVE  /\ after \in Code /\ after.used
           /\ after.user = row.user /\ after.email = row.email /\ after.born = row.born
           /\ after.wrong = row.wrong /\ after.attempts = row.attempts /\ after.wins = row.wins
BY DEF Code

LEMMA RowWins ==
    ASSUME NEW row \in Code, NEW after,
           after = [row EXCEPT !.used = TRUE, !.attempts = @ + 1, !.wins = @ + 1]
    PROVE  /\ after \in Code /\ after.used
           /\ after.user = row.user /\ after.email = row.email /\ after.born = row.born
           /\ after.wrong = row.wrong
           /\ after.attempts = row.attempts + 1 /\ after.wins = row.wins + 1
<1> DEFINE a == row.attempts + 1
           w == row.wins + 1
<1>1. a \in Nat /\ w \in Nat
  BY DEF Code
<1>2. after = [row EXCEPT !.used = TRUE, !.attempts = a, !.wins = w]
  OBVIOUS
<1> HIDE DEF a, w
<1>3. /\ after \in Code /\ after.used
      /\ after.user = row.user /\ after.email = row.email /\ after.born = row.born
      /\ after.wrong = row.wrong /\ after.attempts = a /\ after.wins = w
  BY <1>1, <1>2 DEF Code
<1> QED
  BY <1>3 DEF a, w

LEMMA AcceptedRow ==
    ASSUME NEW table \in Seq(Code), NEW i \in DOMAIN table
    PROVE  /\ Accept(table, i) \in Seq(Code) /\ DOMAIN Accept(table, i) = DOMAIN table
           /\ \A j \in DOMAIN table :
                /\ Accept(table, i)[j].user = table[j].user
                /\ Accept(table, i)[j].email = table[j].email
                /\ Accept(table, i)[j].born = table[j].born
                /\ Accept(table, i)[j].wrong = table[j].wrong
                /\ table[j].user = table[i].user => Accept(table, i)[j].used
                /\ table[j].used => Accept(table, i)[j].used
           /\ \A j \in DOMAIN table : j # i => /\ Accept(table, i)[j].attempts = table[j].attempts
                                               /\ Accept(table, i)[j].wins = table[j].wins
           /\ Accept(table, i)[i].attempts = table[i].attempts + 1
           /\ Accept(table, i)[i].wins = table[i].wins + 1
<1> DEFINE after == Accept(table, i)
<1>1. DOMAIN table = 1..Len(table) /\ Len(table) \in Nat /\ \A j \in DOMAIN table : table[j] \in Code
  BY LenProperties, ElementTypes
<1>2. /\ after = [j \in DOMAIN table |-> after[j]]
      /\ \A j \in DOMAIN table : after[j] =
           IF j = i
           THEN [table[j] EXCEPT !.used = TRUE, !.attempts = @ + 1, !.wins = @ + 1]
           ELSE IF table[j].user = table[i].user THEN [table[j] EXCEPT !.used = TRUE]
           ELSE table[j]
  BY DEF Accept
<1> HIDE DEF after
<1>3. /\ after[i] \in Code /\ after[i].used
      /\ after[i].user = table[i].user /\ after[i].email = table[i].email
      /\ after[i].born = table[i].born /\ after[i].wrong = table[i].wrong
      /\ after[i].attempts = table[i].attempts + 1 /\ after[i].wins = table[i].wins + 1
  <2>1. after[i] = [table[i] EXCEPT !.used = TRUE, !.attempts = @ + 1, !.wins = @ + 1]
    BY <1>2
  <2> QED
    BY <1>1, <2>1, RowWins
<1>4. ASSUME NEW j \in DOMAIN table, j # i
      PROVE  /\ after[j] \in Code
             /\ table[j].user = table[i].user => after[j].used
             /\ table[j].used => after[j].used
             /\ after[j].user = table[j].user /\ after[j].email = table[j].email
             /\ after[j].born = table[j].born /\ after[j].wrong = table[j].wrong
             /\ after[j].attempts = table[j].attempts /\ after[j].wins = table[j].wins
  <2>1. CASE table[j].user = table[i].user
    <3>1. after[j] = [table[j] EXCEPT !.used = TRUE]
      BY <1>2, <1>4, <2>1
    <3> QED
      BY <1>1, <3>1, RowUsed
  <2>2. CASE table[j].user # table[i].user
    BY <1>1, <1>2, <1>4, <2>2
  <2> QED
    BY <2>1, <2>2
<1>5. after \in [1..Len(table) -> Code]
  BY <1>1, <1>2, <1>3, <1>4
<1>6. after \in Seq(Code) /\ DOMAIN after = DOMAIN table
  BY <1>1, <1>5
<1> QED
  BY <1>3, <1>4, <1>6 DEF after

-----------------------------------------------------------------------------
(* The strengthening.                                                      *)

\* A request in progress is one of an account; what it asks to change an address to is one.
Served ==
    \A p \in Handlers : /\ pc[p] # "idle" => req[p].user \in Users
                        /\ pc[p] = "change" => req[p].email \in Emails

\* A pending code has not won, and was made after every code of its user that did: when
\* one wins, all that were pending are used. Wrong codes and wins are attempts.
Sound(table) ==
    \A i \in DOMAIN table :
        /\ table[i].wins <= 1
        /\ ~table[i].used => /\ table[i].wins = 0
                             /\ table[i].born = Cardinality(Won(table, table[i].user))
        /\ table[i].wins > 0 => table[i].born < Cardinality(Won(table, table[i].user))
        /\ table[i].wrong + table[i].wins <= table[i].attempts
        /\ table[i].wrong + table[i].wins <= MaxAttempts

OneOfPending(table) ==
    \A i, j \in DOMAIN table :
        /\ table[i].user = table[j].user
        /\ table[i].wins > 0 /\ table[j].wins > 0
        /\ table[i].born = table[j].born
        => i = j

\* UseLoginOTP retires a code only when it is tried once more after the last attempt.
LoginCodes ==
    /\ otps \in Seq(Code) /\ Sound(otps) /\ OneOfPending(otps)
    /\ \A i \in DOMAIN otps : /\ otps[i].attempts <= MaxAttempts + 1
                              /\ ~otps[i].used => otps[i].attempts <= MaxAttempts

\* UseEmailChangeOTP retires it with the last attempt; a change has an address to change to.
ChangeCodes ==
    /\ changes \in Seq(Code) /\ Sound(changes) /\ OneOfPending(changes)
    /\ \A i \in DOMAIN changes : changes[i].attempts <= MaxAttempts /\ changes[i].email \in Emails

Links ==
    /\ tokens \in Seq(Code)
    /\ \A i \in DOMAIN tokens : tokens[i].wins <= 1 /\ (~tokens[i].used => tokens[i].wins = 0)

\* The login code a request carries to its session, until it has one: the code has been
\* used by this request, and no session and no other request has come of it.
Carries(p) == pc[p] = "session" /\ req[p].id # 0

CarriedOnce ==
    /\ \A p \in Handlers : Carries(p) =>
         /\ req[p].id \in DOMAIN otps /\ otps[req[p].id].wins > 0
         /\ req[p].user = otps[req[p].id].user
         /\ \A s \in DOMAIN sessions : sessions[s].by # req[p].id
         /\ \A q \in Handlers : Carries(q) /\ req[q].id = req[p].id => q = p
    /\ \A s \in DOMAIN sessions : sessions[s].by # 0 =>
         /\ sessions[s].by \in DOMAIN otps /\ otps[sessions[s].by].wins > 0
         /\ sessions[s].user = otps[sessions[s].by].user
    /\ \A s, t \in DOMAIN sessions :
         sessions[s].by # 0 /\ sessions[s].by = sessions[t].by => s = t

\* The recovery codes of the accounts are apart, and not used up; those a request read,
\* the one it is about to burn and the rest it will write back, are of its account only,
\* whether or not the account still has them.
Burning(p) == pc[p] = "burn"

ReadCodes(p) == req[p].rest \cup {req[p].id}

Available(c) == c \in DOMAIN spent /\ spent[c].times <= spent[c].late

CodesAccounted ==
    /\ \A c \in DOMAIN spent : spent[c].times <= 1 + spent[c].late
    /\ \A u \in Users : \A c \in users[u].recovery : Available(c)
    /\ \A u, v \in Users : u # v => users[u].recovery \cap users[v].recovery = {}
    /\ \A p \in Handlers : Burning(p) =>
         /\ req[p].id \notin req[p].rest
         /\ ReadCodes(p) \subseteq DOMAIN spent
         /\ \A v \in Users \ {req[p].user} : ReadCodes(p) \cap users[v].recovery = {}
    /\ \A p, q \in Handlers :
         Burning(p) /\ Burning(q) /\ req[p].user # req[q].user => ReadCodes(p) \cap ReadCodes(q) = {}

-----------------------------------------------------------------------------
(* What keeps a table of codes sound.                                      *)

LEMMA MaxAttemptsNat == MaxAttempts \in Nat /\ MaxAttempts > 0
BY CountAssumption

LEMMA RowFields ==
    ASSUME NEW table \in Seq(Code), NEW i \in DOMAIN table
    PROVE  /\ table[i] \in Code /\ table[i].user \in Users
           /\ table[i].email \in Emails \cup {NoEmail}
           /\ table[i].attempts \in Nat /\ table[i].wrong \in Nat
           /\ table[i].wins \in Nat /\ table[i].born \in Nat
<1>1. table[i] \in Code
  BY ElementTypes
<1> QED
  BY <1>1 DEF Code

\* A new code.
LEMMA SoundNew ==
    ASSUME NEW table \in Seq(Code), NEW u \in Users, NEW email \in Emails \cup {NoEmail},
           Sound(table), OneOfPending(table)
    PROVE  Sound(NewCode(table, u, email)) /\ OneOfPending(NewCode(table, u, email))
<1> DEFINE made == NewCode(table, u, email)
           n == Len(table) + 1
<1>1. /\ DOMAIN made = DOMAIN table \cup {n} /\ n \notin DOMAIN table
      /\ \A i \in DOMAIN table : made[i] = table[i]
      /\ made[n] = FirstRow(table, u, email)
  BY NewRow
<1>2. \A v : Won(made, v) = Won(table, v)
  BY NewWon
<1> HIDE DEF made, n
<1>3. /\ made[n].user = u /\ made[n].attempts = 0 /\ made[n].wrong = 0 /\ made[n].wins = 0
      /\ made[n].used = FALSE /\ made[n].born = Cardinality(Won(table, u))
  BY <1>1 DEF FirstRow
<1>4. Sound(made)
  BY <1>1, <1>2, <1>3, MaxAttemptsNat DEF Sound
<1>5. OneOfPending(made)
  BY <1>1, <1>3 DEF OneOfPending
<1> QED
  BY <1>4, <1>5 DEF made

\* A row that is tried with a wrong code, retired or expired: it neither wins nor comes back.
LEMMA SoundTouched ==
    ASSUME NEW table \in Seq(Code), NEW i \in DOMAIN table, NEW row \in Code,
           row.user = table[i].user, row.born = table[i].born, row.wins = table[i].wins,
           table[i].used => row.used,
           row.wrong + row.wins <= row.attempts, row.wrong + row.wins <= MaxAttempts,
           Sound(table), OneOfPending(table),
           NEW after, after = [table EXCEPT ![i] = row]
    PROVE  Sound(after) /\ OneOfPending(after)
<1>1. /\ DOMAIN after = DOMAIN table /\ after[i] = row
      /\ \A j \in DOMAIN table : j # i => after[j] = table[j]
  BY Replaced
<1>2. \A u : Won(after, u) = Won(table, u)
  BY <1>1 DEF Won
<1>3. Sound(after)
  <2>1. \A j \in DOMAIN table : j # i =>
          /\ after[j].wins <= 1
          /\ ~after[j].used => /\ after[j].wins = 0
                               /\ after[j].born = Cardinality(Won(after, after[j].user))
          /\ after[j].wins > 0 => after[j].born < Cardinality(Won(after, after[j].user))
          /\ after[j].wrong + after[j].wins <= after[j].attempts
          /\ after[j].wrong + after[j].wins <= MaxAttempts
    BY <1>1, <1>2 DEF Sound
  <2>2. /\ row.wins <= 1
        /\ ~row.used => row.wins = 0 /\ row.born = Cardinality(Won(after, row.user))
        /\ row.wins > 0 => row.born < Cardinality(Won(after, row.user))
    BY <1>2 DEF Sound
  <2> QED
    BY <1>1, <2>1, <2>2 DEF Sound
<1>4. OneOfPending(after)
  BY <1>1 DEF OneOfPending
<1> QED
  BY <1>3, <1>4

\* The row a right code wins: its user has won once more, and nobody else.
LEMMA WonByAccept ==
    ASSUME NEW table \in Seq(Code), NEW i \in DOMAIN table, table[i].wins = 0
    PROVE  /\ Cardinality(Won(Accept(table, i), table[i].user)) =
                Cardinality(Won(table, table[i].user)) + 1
           /\ \A u : u # table[i].user => Won(Accept(table, i), u) = Won(table, u)
<1> DEFINE after == Accept(table, i)
<1>1. /\ DOMAIN after = DOMAIN table
      /\ \A j \in DOMAIN table : after[j].user = table[j].user
      /\ \A j \in DOMAIN table : j # i => after[j].wins = table[j].wins
      /\ after[i].wins = 1
  BY AcceptedRow
<1> HIDE DEF after
<1>2. Won(after, table[i].user) = Won(table, table[i].user) \cup {i} /\ i \notin Won(table, table[i].user)
  BY <1>1 DEF Won
<1>3. \A u : u # table[i].user => Won(after, u) = Won(table, u)
  BY <1>1 DEF Won
<1> QED
  BY <1>2, <1>3, WonFinite, FS_AddElement DEF after

LEMMA SoundAccept ==
    ASSUME NEW table \in Seq(Code), NEW i \in DOMAIN table,
           ~table[i].used, table[i].attempts < MaxAttempts,
           Sound(table), OneOfPending(table)
    PROVE  Sound(Accept(table, i)) /\ OneOfPending(Accept(table, i))
<1> DEFINE after == Accept(table, i)
           u == table[i].user
           count(t, v) == Cardinality(Won(t, v))
<1>1. /\ DOMAIN after = DOMAIN table
      /\ \A j \in DOMAIN table : /\ after[j].user = table[j].user /\ after[j].born = table[j].born
                                 /\ after[j].wrong = table[j].wrong
                                 /\ table[j].user = u => after[j].used
                                 /\ table[j].used => after[j].used
                                 /\ j # i => /\ after[j].attempts = table[j].attempts
                                             /\ after[j].wins = table[j].wins
      /\ after[i].attempts = table[i].attempts + 1 /\ after[i].wins = table[i].wins + 1
  BY AcceptedRow
<1>2. \A j \in DOMAIN table : /\ table[j].attempts \in Nat /\ table[j].wrong \in Nat
                              /\ table[j].wins \in Nat /\ table[j].born \in Nat
  BY RowFields
<1>3. table[i].wins = 0 /\ table[i].born = count(table, u)
  BY DEF Sound
<1>4. /\ count(after, u) = count(table, u) + 1
      /\ \A v : v # u => count(after, v) = count(table, v)
      /\ \A v : count(table, v) \in Nat
  BY <1>3, WonByAccept, WonFinite
<1> HIDE DEF after, count
<1>5. ASSUME NEW j \in DOMAIN table
      PROVE  /\ after[j].wins <= 1
             /\ ~after[j].used => after[j].wins = 0 /\ after[j].born = count(after, after[j].user)
             /\ after[j].wins > 0 => after[j].born < count(after, after[j].user)
             /\ after[j].wrong + after[j].wins <= after[j].attempts
             /\ after[j].wrong + after[j].wins <= MaxAttempts
  <2>0. /\ table[j].wins <= 1
        /\ ~table[j].used => table[j].wins = 0 /\ table[j].born = count(table, table[j].user)
        /\ table[j].wins > 0 => table[j].born < count(table, table[j].user)
        /\ table[j].wrong + table[j].wins <= table[j].attempts
        /\ table[j].wrong + table[j].wins <= MaxAttempts
    BY DEF Sound, count
  <2>1. CASE j = i
    BY <1>1, <1>2, <1>3, <1>4, <2>0, <2>1, MaxAttemptsNat
  <2>2. CASE j # i /\ table[j].user = u
    BY <1>1, <1>2, <1>4, <2>0, <2>2
  <2>3. CASE j # i /\ table[j].user # u
    BY <1>1, <1>2, <1>4, <2>0, <2>3
  <2> QED
    BY <2>1, <2>2, <2>3
<1>6. Sound(after)
  BY <1>1, <1>5 DEF Sound, count
<1>7. \A j \in DOMAIN table : j # i /\ table[j].user = u /\ table[j].wins > 0 => table[j].born # table[i].born
  BY <1>2, <1>3, <1>4 DEF Sound, count
<1>8. OneOfPending(after)
  BY <1>1, <1>7 DEF OneOfPending
<1> QED
  BY <1>6, <1>8 DEF after

-----------------------------------------------------------------------------
(* The three tables, statement by statement.                               *)

LEMMA LoginTouched ==
    ASSUME LoginCodes, NEW i \in DOMAIN otps, NEW row \in Code,
           row.user = otps[i].user, row.born = otps[i].born, row.wins = otps[i].wins,
           otps[i].used => row.used,
           row.wrong + row.wins <= row.attempts, row.wrong + row.wins <= MaxAttempts,
           row.attempts <= MaxAttempts + 1, ~row.used => row.attempts <= MaxAttempts,
           otps' = [otps EXCEPT ![i] = row]
    PROVE  LoginCodes'
<1>1. otps \in Seq(Code) /\ Sound(otps) /\ OneOfPending(otps)
  BY DEF LoginCodes
<1>2. Sound(otps') /\ OneOfPending(otps')
  BY <1>1, SoundTouched
<1>3. /\ otps' \in Seq(Code) /\ DOMAIN otps' = DOMAIN otps /\ otps'[i] = row
      /\ \A j \in DOMAIN otps : j # i => otps'[j] = otps[j]
  BY <1>1, Replaced
<1>4. \A j \in DOMAIN otps' : /\ otps'[j].attempts <= MaxAttempts + 1
                              /\ ~otps'[j].used => otps'[j].attempts <= MaxAttempts
  BY <1>3 DEF LoginCodes
<1> QED
  BY <1>2, <1>3, <1>4 DEF LoginCodes, Sound, OneOfPending, Won

\* A code that is not accepted: the three ways its row can change.
LEMMA LoginRetired ==
    ASSUME LoginCodes, NEW i \in DOMAIN otps, otps' = Retire(otps, i)
    PROVE  LoginCodes'
<1> DEFINE row == [otps[i] EXCEPT !.used = TRUE]
<1>1. otps[i] \in Code /\ otps' = [otps EXCEPT ![i] = row]
  BY RowFields DEF LoginCodes, Retire
<1>2. /\ row \in Code /\ row.used
      /\ row.user = otps[i].user /\ row.born = otps[i].born
      /\ row.wrong = otps[i].wrong /\ row.attempts = otps[i].attempts /\ row.wins = otps[i].wins
  BY <1>1, RowUsed
<1>3. /\ otps[i].wrong + otps[i].wins <= otps[i].attempts
      /\ otps[i].wrong + otps[i].wins <= MaxAttempts /\ otps[i].attempts <= MaxAttempts + 1
  BY DEF LoginCodes, Sound
<1> HIDE DEF row
<1> QED
  BY <1>1, <1>2, <1>3, LoginTouched

LEMMA LoginTried ==
    ASSUME LoginCodes, NEW i \in DOMAIN otps, ~otps[i].used,
           \/ otps[i].attempts < MaxAttempts /\ otps' = Wrong(i)
           \/ otps[i].attempts >= MaxAttempts /\ otps' = Exhausted(i)
    PROVE  LoginCodes'
<1> DEFINE a == otps[i].attempts + 1
           w == otps[i].wrong + 1
<1>1. /\ otps[i] \in Code
      /\ otps[i].attempts \in Nat /\ otps[i].wrong \in Nat /\ otps[i].wins \in Nat
  BY RowFields DEF LoginCodes
<1>2. /\ otps[i].wrong + otps[i].wins <= otps[i].attempts
      /\ otps[i].wrong + otps[i].wins <= MaxAttempts /\ otps[i].attempts <= MaxAttempts
  BY DEF LoginCodes, Sound
<1>3. a \in Nat /\ w \in Nat
  BY <1>1
<1>4. CASE otps[i].attempts < MaxAttempts /\ otps' = Wrong(i)
  <2>0. PICK row : row = [otps[i] EXCEPT !.attempts = a, !.wrong = w]
    OBVIOUS
  <2>1. otps' = [otps EXCEPT ![i] = row]
    BY <1>4, <2>0 DEF Wrong
  <2>2. /\ row \in Code /\ row.used = otps[i].used
        /\ row.user = otps[i].user /\ row.born = otps[i].born /\ row.wins = otps[i].wins
        /\ row.attempts = a /\ row.wrong = w
    <3> HIDE DEF a, w
    <3> QED
      BY <1>1, <1>3, <2>0 DEF Code
  <2>3. /\ row.wrong + row.wins <= row.attempts /\ row.wrong + row.wins <= MaxAttempts
        /\ row.attempts <= MaxAttempts
    BY <1>1, <1>2, <1>4, <2>2, MaxAttemptsNat
  <2>4. row.attempts <= MaxAttempts + 1
    BY <1>3, <2>2, <2>3, MaxAttemptsNat
  <2> QED
    BY <2>1, <2>2, <2>3, <2>4, LoginTouched
<1>5. CASE otps[i].attempts >= MaxAttempts /\ otps' = Exhausted(i)
  <2>0. PICK row : row = [otps[i] EXCEPT !.attempts = a, !.used = TRUE]
    OBVIOUS
  <2>1. otps' = [otps EXCEPT ![i] = row]
    BY <1>5, <2>0 DEF Exhausted, Retire
  <2>2. /\ row \in Code /\ row.used
        /\ row.user = otps[i].user /\ row.born = otps[i].born /\ row.wins = otps[i].wins
        /\ row.attempts = a /\ row.wrong = otps[i].wrong
    <3> HIDE DEF a
    <3> QED
      BY <1>1, <1>3, <2>0 DEF Code
  <2>3. /\ row.wrong + row.wins <= row.attempts /\ row.wrong + row.wins <= MaxAttempts
        /\ row.attempts <= MaxAttempts + 1
    BY <1>1, <1>2, <1>5, <2>2, MaxAttemptsNat
  <2> QED
    BY <2>1, <2>2, <2>3, LoginTouched
<1> QED
  BY <1>4, <1>5

LEMMA LoginAccepted ==
    ASSUME LoginCodes, NEW i \in DOMAIN otps, ~otps[i].used, otps[i].attempts < MaxAttempts,
           otps' = Accept(otps, i)
    PROVE  LoginCodes'
<1>1. otps \in Seq(Code) /\ Sound(otps) /\ OneOfPending(otps)
  BY DEF LoginCodes
<1>2. Sound(Accept(otps, i)) /\ OneOfPending(Accept(otps, i))
  BY <1>1, SoundAccept
<1>3. /\ otps' \in Seq(Code) /\ DOMAIN otps' = DOMAIN otps
      /\ otps'[i].attempts = otps[i].attempts + 1 /\ otps'[i].used
      /\ \A j \in DOMAIN otps : /\ j # i => otps'[j].attempts = otps[j].attempts
                                /\ otps[j].used => otps'[j].used
  BY <1>1, AcceptedRow
<1>4. otps[i].attempts \in Nat
  BY <1>1, RowFields
<1>5. otps[i].attempts + 1 <= MaxAttempts + 1
  BY <1>4, MaxAttemptsNat
<1>6. \A j \in DOMAIN otps' : /\ otps'[j].attempts <= MaxAttempts + 1
                              /\ ~otps'[j].used => otps'[j].attempts <= MaxAttempts
  BY <1>3, <1>5 DEF LoginCodes
<1>7. Sound(otps') /\ OneOfPending(otps')
  BY <1>2
<1> QED
  BY <1>3, <1>6, <1>7 DEF LoginCodes, Sound, OneOfPending, Won

LEMMA LoginMade ==
    ASSUME LoginCodes, NEW u \in Users, otps' = NewCode(otps, u, NoEmail)
    PROVE  LoginCodes'
<1> DEFINE made == NewCode(otps, u, NoEmail)
           n == Len(otps) + 1
<1>1. otps \in Seq(Code) /\ Sound(otps) /\ OneOfPending(otps) /\ NoEmail \in Emails \cup {NoEmail}
  BY DEF LoginCodes
<1>2. Sound(made) /\ OneOfPending(made)
  BY <1>1, SoundNew
<1>3. /\ made \in Seq(Code) /\ DOMAIN made = DOMAIN otps \cup {n}
      /\ \A j \in DOMAIN otps : made[j] = otps[j]
      /\ made[n] = FirstRow(otps, u, NoEmail)
  BY <1>1, NewRow
<1>4. FirstRow(otps, u, NoEmail).attempts = 0
  BY DEF FirstRow
<1> HIDE DEF n, made
<1>5. \A j \in DOMAIN made : /\ made[j].attempts <= MaxAttempts + 1
                             /\ ~made[j].used => made[j].attempts <= MaxAttempts
  BY <1>3, <1>4, MaxAttemptsNat DEF LoginCodes
<1>6. otps' = made
  BY DEF made
<1>7. Sound(otps') /\ OneOfPending(otps') /\ otps' \in Seq(Code)
  BY <1>2, <1>3, <1>6
<1>8. \A j \in DOMAIN otps' : /\ otps'[j].attempts <= MaxAttempts + 1
                              /\ ~otps'[j].used => otps'[j].attempts <= MaxAttempts
  BY <1>5, <1>6
<1> QED
  BY <1>7, <1>8 DEF LoginCodes

LEMMA ChangeTouched ==
    ASSUME ChangeCodes, NEW i \in DOMAIN changes, NEW row \in Code,
           row.user = changes[i].user, row.born = changes[i].born, row.wins = changes[i].wins,
           row.email = changes[i].email, changes[i].used => row.used,
           row.wrong + row.wins <= row.attempts, row.wrong + row.wins <= MaxAttempts,
           row.attempts <= MaxAttempts, changes' = [changes EXCEPT ![i] = row]
    PROVE  ChangeCodes'
<1>1. changes \in Seq(Code) /\ Sound(changes) /\ OneOfPending(changes)
  BY DEF ChangeCodes
<1>2. Sound(changes') /\ OneOfPending(changes')
  BY <1>1, SoundTouched
<1>3. /\ changes' \in Seq(Code) /\ DOMAIN changes' = DOMAIN changes /\ changes'[i] = row
      /\ \A j \in DOMAIN changes : j # i => changes'[j] = changes[j]
  BY <1>1, Replaced
<1>4. \A j \in DOMAIN changes' : changes'[j].attempts <= MaxAttempts /\ changes'[j].email \in Emails
  BY <1>3 DEF ChangeCodes
<1> QED
  BY <1>2, <1>3, <1>4 DEF ChangeCodes

LEMMA ChangeFields ==
    ASSUME ChangeCodes, NEW i \in DOMAIN changes
    PROVE  /\ changes[i] \in Code /\ changes[i].user \in Users /\ changes[i].email \in Emails
           /\ changes[i].attempts \in Nat /\ changes[i].wrong \in Nat /\ changes[i].wins \in Nat
           /\ changes[i].wrong + changes[i].wins <= changes[i].attempts
           /\ changes[i].wrong + changes[i].wins <= MaxAttempts
           /\ changes[i].attempts <= MaxAttempts
<1>1. changes \in Seq(Code) /\ Sound(changes)
  BY DEF ChangeCodes
<1>2. /\ changes[i] \in Code /\ changes[i].user \in Users
      /\ changes[i].attempts \in Nat /\ changes[i].wrong \in Nat /\ changes[i].wins \in Nat
  BY <1>1, RowFields
<1> QED
  BY <1>1, <1>2 DEF ChangeCodes, Sound

LEMMA ChangeRetired ==
    ASSUME ChangeCodes, NEW i \in DOMAIN changes,
           changes' = Retire(changes, i) \/ changes' = [changes EXCEPT ![i].expired = TRUE]
    PROVE  ChangeCodes'
<1>1. PICK row : /\ row = [changes[i] EXCEPT !.used = TRUE] \/ row = [changes[i] EXCEPT !.expired = TRUE]
                 /\ changes' = [changes EXCEPT ![i] = row]
  BY DEF Retire
<1>2. /\ row \in Code /\ (changes[i].used => row.used)
      /\ row.user = changes[i].user /\ row.email = changes[i].email /\ row.born = changes[i].born
      /\ row.wrong = changes[i].wrong /\ row.attempts = changes[i].attempts
      /\ row.wins = changes[i].wins
  BY <1>1, ChangeFields DEF Code
<1> QED
  BY <1>1, <1>2, ChangeFields, ChangeTouched

\* A wrong code; with the last one the row is used up.
WrongChange(i) ==
    [changes EXCEPT ![i].attempts = changes[i].attempts + 1, ![i].wrong = @ + 1,
                    ![i].used = changes[i].attempts + 1 >= MaxAttempts]

LEMMA ChangeTried ==
    ASSUME ChangeCodes, NEW i \in DOMAIN changes,
           ~changes[i].used, changes[i].attempts < MaxAttempts,
           changes' = WrongChange(i)
    PROVE  ChangeCodes'
<1>1. /\ changes[i] \in Code
      /\ changes[i].attempts \in Nat /\ changes[i].wrong \in Nat /\ changes[i].wins \in Nat
      /\ changes[i].wrong + changes[i].wins <= changes[i].attempts
  BY ChangeFields
<1>2. PICK tried, w, last : /\ tried = changes[i].attempts + 1 /\ w = changes[i].wrong + 1
                            /\ last = (changes[i].attempts + 1 >= MaxAttempts)
  OBVIOUS
<1>3. tried \in Nat /\ w \in Nat /\ last \in BOOLEAN
  BY <1>1, <1>2
<1>4. PICK row : row = [changes[i] EXCEPT !.attempts = tried, !.wrong = w, !.used = last]
  OBVIOUS
<1>5. changes' = [changes EXCEPT ![i] = row]
  BY <1>2, <1>4 DEF WrongChange
<1>6. /\ row \in Code
      /\ row.user = changes[i].user /\ row.email = changes[i].email /\ row.born = changes[i].born
      /\ row.wins = changes[i].wins /\ row.attempts = tried /\ row.wrong = w
  BY <1>1, <1>3, <1>4 DEF Code
<1>7. /\ row.wrong + row.wins <= row.attempts /\ row.wrong + row.wins <= MaxAttempts
      /\ row.attempts <= MaxAttempts
  BY <1>1, <1>2, <1>6, MaxAttemptsNat
<1> QED
  BY <1>5, <1>6, <1>7, ChangeTouched

LEMMA ChangeAccepted ==
    ASSUME ChangeCodes, NEW i \in DOMAIN changes,
           ~changes[i].used, changes[i].attempts < MaxAttempts, changes' = Accept(changes, i)
    PROVE  ChangeCodes'
<1>1. changes \in Seq(Code) /\ Sound(changes) /\ OneOfPending(changes)
  BY DEF ChangeCodes
<1>2. Sound(Accept(changes, i)) /\ OneOfPending(Accept(changes, i))
  BY <1>1, SoundAccept
<1>3. /\ changes' \in Seq(Code) /\ DOMAIN changes' = DOMAIN changes
      /\ changes'[i].attempts = changes[i].attempts + 1
      /\ \A j \in DOMAIN changes : /\ j # i => changes'[j].attempts = changes[j].attempts
                                   /\ changes'[j].email = changes[j].email
  BY <1>1, AcceptedRow
<1>4. changes[i].attempts + 1 <= MaxAttempts
  BY ChangeFields, MaxAttemptsNat
<1>5. \A j \in DOMAIN changes' : changes'[j].attempts <= MaxAttempts /\ changes'[j].email \in Emails
  BY <1>3, <1>4 DEF ChangeCodes
<1>6. Sound(changes') /\ OneOfPending(changes')
  BY <1>2
<1> QED
  BY <1>3, <1>5, <1>6 DEF ChangeCodes

LEMMA ChangeMade ==
    ASSUME ChangeCodes, NEW u \in Users, NEW email \in Emails, changes' = NewCode(changes, u, email)
    PROVE  ChangeCodes'
<1> DEFINE made == NewCode(changes, u, email)
           n == Len(changes) + 1
<1>1. /\ changes \in Seq(Code) /\ Sound(changes) /\ OneOfPending(changes)
      /\ email \in Emails \cup {NoEmail}
  BY DEF ChangeCodes
<1>2. Sound(made) /\ OneOfPending(made)
  BY <1>1, SoundNew
<1>3. /\ made \in Seq(Code) /\ DOMAIN made = DOMAIN changes \cup {n}
      /\ \A j \in DOMAIN changes : made[j] = changes[j]
      /\ made[n] = FirstRow(changes, u, email)
  BY <1>1, NewRow
<1>4. FirstRow(changes, u, email).attempts = 0 /\ FirstRow(changes, u, email).email = email
  BY DEF FirstRow
<1> HIDE DEF n, made
<1>5. \A j \in DOMAIN made : made[j].attempts <= MaxAttempts /\ made[j].email \in Emails
  BY <1>3, <1>4, MaxAttemptsNat DEF ChangeCodes
<1>6. changes' = made
  BY DEF made
<1>7. Sound(changes') /\ OneOfPending(changes') /\ changes' \in Seq(Code)
  BY <1>2, <1>3, <1>6
<1>8. \A j \in DOMAIN changes' : changes'[j].attempts <= MaxAttempts /\ changes'[j].email \in Emails
  BY <1>5, <1>6
<1> QED
  BY <1>7, <1>8 DEF ChangeCodes

\* The newest pending code of a user is one of the table.
LEMMA NewestPending ==
    ASSUME ChangeCodes, NEW S, S \subseteq DOMAIN changes, S # {}
    PROVE  Max(S) \in S
<1>1. DOMAIN changes = 1..Len(changes) /\ Len(changes) \in Nat
  BY LenProperties DEF ChangeCodes
<1> QED
  BY <1>1, GreatestOf

\* Links.
LEMMA LinkMade ==
    ASSUME Links, NEW u \in Users, tokens' = NewCode(tokens, u, NoEmail)
    PROVE  Links' /\ \A v : Won(tokens', v) = Won(tokens, v)
<1> DEFINE made == NewCode(tokens, u, NoEmail)
           n == Len(tokens) + 1
<1>1. tokens \in Seq(Code) /\ NoEmail \in Emails \cup {NoEmail}
  BY DEF Links
<1>2. \A v : Won(made, v) = Won(tokens, v)
  BY <1>1, NewWon
<1>3. /\ made \in Seq(Code) /\ DOMAIN made = DOMAIN tokens \cup {n}
      /\ \A j \in DOMAIN tokens : made[j] = tokens[j]
      /\ made[n] = FirstRow(tokens, u, NoEmail)
  BY <1>1, NewRow
<1>4. FirstRow(tokens, u, NoEmail).wins = 0
  BY DEF FirstRow
<1> HIDE DEF n, made
<1>5. \A j \in DOMAIN made : made[j].wins <= 1 /\ (~made[j].used => made[j].wins = 0)
  BY <1>3, <1>4 DEF Links
<1>6. tokens' = made
  BY DEF made
<1> QED
  BY <1>2, <1>3, <1>5, <1>6 DEF Links

LEMMA LinkRetired ==
    ASSUME Links, NEW i \in DOMAIN tokens, tokens' = Retire(tokens, i)
    PROVE  Links' /\ \A v : Won(tokens', v) = Won(tokens, v)
<1>1. tokens \in Seq(Code) /\ tokens[i] \in Code
  BY RowFields DEF Links
<1>2. PICK row : row = [tokens[i] EXCEPT !.used = TRUE]
  OBVIOUS
<1>3. row \in Code /\ row.user = tokens[i].user /\ row.wins = tokens[i].wins /\ row.used
  BY <1>1, <1>2 DEF Code
<1>4. tokens' = [tokens EXCEPT ![i] = row]
  BY <1>2 DEF Retire
<1>5. /\ tokens' \in Seq(Code) /\ DOMAIN tokens' = DOMAIN tokens /\ tokens'[i] = row
      /\ \A j \in DOMAIN tokens : j # i => tokens'[j] = tokens[j]
  BY <1>1, <1>3, <1>4, Replaced
<1>6. \A j \in DOMAIN tokens' : tokens'[j].wins <= 1 /\ (~tokens'[j].used => tokens'[j].wins = 0)
  BY <1>3, <1>5 DEF Links
<1>7. \A v : Won(tokens', v) = Won(tokens, v)
  BY <1>3, <1>5 DEF Won
<1> QED
  BY <1>5, <1>6, <1>7 DEF Links

LEMMA LinkUsed ==
    ASSUME Links, NEW i \in DOMAIN tokens, ~tokens[i].used,
           tokens' = [Retire(tokens, i) EXCEPT ![i].wins = @ + 1]
    PROVE  Links' /\ \A v : v # tokens[i].user => Won(tokens', v) = Won(tokens, v)
<1>0. tokens[i].wins = 0
  BY DEF Links
<1>1. tokens \in Seq(Code) /\ tokens[i] \in Code
  BY RowFields DEF Links
<1>2. PICK w \in Nat : w = tokens[i].wins + 1 /\ w = 1
  BY <1>0
<1>3. PICK row : row = [tokens[i] EXCEPT !.used = TRUE, !.wins = w]
  OBVIOUS
<1>4. tokens' = [tokens EXCEPT ![i] = row]
  BY <1>2, <1>3 DEF Retire
<1>5. row \in Code
  BY <1>1, <1>3 DEF Code
<1>6. /\ tokens' \in Seq(Code) /\ DOMAIN tokens' = DOMAIN tokens /\ tokens'[i] = row
      /\ \A j \in DOMAIN tokens : j # i => tokens'[j] = tokens[j]
  <2> SUFFICES ASSUME NEW after, after = [tokens EXCEPT ![i] = row]
               PROVE  /\ after \in Seq(Code) /\ DOMAIN after = DOMAIN tokens /\ after[i] = row
                      /\ \A j \in DOMAIN tokens : j # i => after[j] = tokens[j]
    BY <1>4
  <2> QED
    BY <1>1, <1>5, Replaced
<1>7. row.user = tokens[i].user /\ row.wins <= 1 /\ row.used
  BY <1>1, <1>2, <1>3 DEF Code
<1>8. \A j \in DOMAIN tokens' : tokens'[j].wins <= 1 /\ (~tokens'[j].used => tokens'[j].wins = 0)
  BY <1>6, <1>7 DEF Links
<1>9. \A v : v # tokens[i].user => Won(tokens', v) = Won(tokens, v)
  BY <1>6, <1>7 DEF Won
<1> QED
  BY <1>6, <1>8, <1>9 DEF Links

-----------------------------------------------------------------------------
(* Who writes the tables of codes.                                         *)

\* The steps about accounts and sessions.
AccountStep(p) ==
    \/ \E u \in Users : Login(p, u) \/ ForgotPassword(p, u)
    \/ MatchRecoveryCode(p) \/ BurnRecoveryCode(p) \/ CreateSession(p)
    \/ \E s \in DOMAIN sessions : FindSession(p, s)
    \/ \E email \in Emails : RequestEmailChange(p, email)
    \/ EnableTOTP(p) \/ DisableTOTP(p) \/ Logout(p) \/ Abort(p)
    \/ \E on \in BOOLEAN : SetEmailOTP(p, on)
    \/ \E u \in Users, email \in Emails, on \in BOOLEAN : UpdateUser(p, u, email, on)

LEMMA Steps ==
    ASSUME [Next]_vars
    PROVE  \/ UNCHANGED vars \/ Expire
           \/ \E p \in Handlers :
                \/ AccountStep(p)
                \/ CreateLoginOTP(p) \/ \E i \in DOMAIN otps : UseLoginOTP(p, i)
                \/ CreatePasswordResetToken(p) \/ \E i \in DOMAIN tokens : ResetPasswordWithToken(p, i)
                \/ CreateEmailChangeOTP(p) \/ UseEmailChangeOTP(p)
BY DEF Next, AccountStep

LEMMA AccountStepQuiet ==
    ASSUME NEW p \in Handlers, AccountStep(p)
    PROVE  UNCHANGED <<otps, changes, tokens>>
<1>1. ASSUME NEW u, Login(p, u) \/ ForgotPassword(p, u) PROVE UNCHANGED codes
  BY <1>1 DEF Login, ForgotPassword
<1>2. ASSUME MatchRecoveryCode(p) \/ BurnRecoveryCode(p) \/ CreateSession(p) PROVE UNCHANGED codes
  BY <1>2 DEF MatchRecoveryCode, BurnRecoveryCode, CreateSession
<1>3. ASSUME NEW s, FindSession(p, s) PROVE UNCHANGED codes
  BY <1>3 DEF FindSession
<1>4. ASSUME NEW e, RequestEmailChange(p, e) PROVE UNCHANGED codes
  BY <1>4 DEF RequestEmailChange
<1>5. ASSUME EnableTOTP(p) \/ DisableTOTP(p) \/ Logout(p) \/ Abort(p) PROVE UNCHANGED codes
  BY <1>5 DEF EnableTOTP, DisableTOTP, Logout, Abort
<1>6. ASSUME NEW on, SetEmailOTP(p, on) PROVE UNCHANGED codes
  BY <1>6 DEF SetEmailOTP
<1>7. ASSUME NEW u, NEW e, NEW on, UpdateUser(p, u, e, on) PROVE UNCHANGED codes
  BY <1>7 DEF UpdateUser
<1>8. UNCHANGED codes
  BY <1>1, <1>2, <1>3, <1>4, <1>5, <1>6, <1>7 DEF AccountStep
<1> QED
  BY <1>8 DEF codes

\* What a code for a new address does.
EmailChangeTried(u, i) ==
    \/ changes' = Retire(changes, i) /\ UNCHANGED users
    \/ /\ changes[i].attempts < MaxAttempts
       /\ changes' = WrongChange(i) /\ UNCHANGED users
    \/ /\ changes[i].attempts < MaxAttempts /\ FreeFor(changes[i].email, u)
       /\ users' = [users EXCEPT ![u].email = changes[i].email]
       /\ changes' = Accept(changes, i)

LEMMA EmailChangeSteps ==
    ASSUME NEW p, UseEmailChangeOTP(p)
    PROVE  /\ pc[p] = "account"
           /\ \E S, i : /\ S = {j \in DOMAIN changes : changes[j].user = req[p].user /\ ~changes[j].used}
                        /\ i = Max(S)
                        /\ S # {} /\ EmailChangeTried(req[p].user, i)
           /\ Finish(p)
           /\ UNCHANGED <<otps, tokens, sessions, spent, edits>>
BY Zenon DEF UseEmailChangeOTP, EmailChangeTried, WrongChange

LEMMA EmailChange ==
    ASSUME ChangeCodes, NEW p \in Handlers, UseEmailChangeOTP(p)
    PROVE  \E i \in DOMAIN changes : ~changes[i].used /\ EmailChangeTried(req[p].user, i)
<1>1. PICK S, i : /\ S = {j \in DOMAIN changes : changes[j].user = req[p].user /\ ~changes[j].used}
                  /\ i = Max(S) /\ S # {} /\ EmailChangeTried(req[p].user, i)
  BY EmailChangeSteps
<1>2. i \in S
  BY <1>1, NewestPending
<1> QED
  BY <1>1, <1>2

LEMMA CodeSteps ==
    ASSUME [Next]_vars
    PROVE  \/ UNCHANGED <<otps, changes, tokens>>
           \/ /\ UNCHANGED <<changes, tokens>>
              /\ \/ \E i \in DOMAIN otps : ~otps[i].used /\ otps' = Retire(otps, i)
                 \/ \E p \in Handlers : CreateLoginOTP(p)
                 \/ \E p \in Handlers : \E i \in DOMAIN otps : UseLoginOTP(p, i)
           \/ /\ UNCHANGED <<otps, tokens>>
              /\ \/ \E i \in DOMAIN changes : changes' = [changes EXCEPT ![i].expired = TRUE]
                 \/ \E p \in Handlers : CreateEmailChangeOTP(p) \/ UseEmailChangeOTP(p)
           \/ /\ UNCHANGED <<otps, changes>>
              /\ \/ \E i \in DOMAIN tokens : tokens' = Retire(tokens, i) /\ UNCHANGED sessions
                 \/ \E p \in Handlers : CreatePasswordResetToken(p)
                 \/ \E p \in Handlers : \E i \in DOMAIN tokens : ResetPasswordWithToken(p, i)
<1>1. CASE UNCHANGED vars
  BY <1>1 DEF vars, codes
<1>2. CASE Expire
  BY <1>2 DEF Expire, codes
<1>3. ASSUME NEW p \in Handlers, CreateLoginOTP(p) \/ \E i \in DOMAIN otps : UseLoginOTP(p, i)
      PROVE  UNCHANGED <<changes, tokens>>
  <2>1. CASE CreateLoginOTP(p)
    BY <2>1 DEF CreateLoginOTP
  <2>2. ASSUME NEW i, UseLoginOTP(p, i) PROVE UNCHANGED <<changes, tokens>>
    BY <2>2 DEF UseLoginOTP
  <2> QED
    BY <1>3, <2>1, <2>2
<1>4. ASSUME NEW p \in Handlers, CreateEmailChangeOTP(p) \/ UseEmailChangeOTP(p)
      PROVE  UNCHANGED <<otps, tokens>>
  <2>1. CASE CreateEmailChangeOTP(p)
    BY <2>1 DEF CreateEmailChangeOTP
  <2>2. CASE UseEmailChangeOTP(p)
    BY <2>2, EmailChangeSteps
  <2> QED
    BY <1>4, <2>1, <2>2
<1>5. ASSUME NEW p \in Handlers,
             CreatePasswordResetToken(p) \/ \E i \in DOMAIN tokens : ResetPasswordWithToken(p, i)
      PROVE  UNCHANGED <<otps, changes>>
  BY <1>5 DEF CreatePasswordResetToken, ResetPasswordWithToken
<1> QED
  BY <1>1, <1>2, <1>3, <1>4, <1>5, Steps, AccountStepQuiet


-----------------------------------------------------------------------------
(* Wrong codes and winning ones.                                           *)

LEMMA LoginCodesStep == LoginCodes /\ Served /\ [Next]_vars => LoginCodes'
<1> SUFFICES ASSUME LoginCodes, Served, [Next]_vars PROVE LoginCodes'
  OBVIOUS
<1>1. CASE UNCHANGED otps
  BY <1>1 DEF LoginCodes
<1>2. ASSUME NEW p \in Handlers, CreateLoginOTP(p) PROVE LoginCodes'
  BY <1>2, LoginMade DEF CreateLoginOTP, Served
<1>3. ASSUME NEW p \in Handlers, NEW i \in DOMAIN otps, UseLoginOTP(p, i) PROVE LoginCodes'
  BY <1>3, LoginTried, LoginAccepted DEF UseLoginOTP
<1> QED
  BY <1>1, <1>2, <1>3, LoginRetired, CodeSteps

LEMMA ChangeCodesStep == ChangeCodes /\ Served /\ [Next]_vars => ChangeCodes'
<1> SUFFICES ASSUME ChangeCodes, Served, [Next]_vars PROVE ChangeCodes'
  OBVIOUS
<1>1. CASE UNCHANGED changes
  BY <1>1 DEF ChangeCodes
<1>2. ASSUME NEW p \in Handlers, CreateEmailChangeOTP(p) PROVE ChangeCodes'
  <2>1. req[p].user \in Users /\ req[p].email \in Emails
    BY <1>2 DEF CreateEmailChangeOTP, Served
  <2> QED
    BY <1>2, <2>1, ChangeMade DEF CreateEmailChangeOTP
<1>3. ASSUME NEW p \in Handlers, UseEmailChangeOTP(p) PROVE ChangeCodes'
  <2>1. PICK i \in DOMAIN changes : ~changes[i].used /\ EmailChangeTried(req[p].user, i)
    BY <1>3, EmailChange
  <2> QED
    BY <2>1, ChangeRetired, ChangeTried, ChangeAccepted DEF EmailChangeTried
<1> QED
  BY <1>1, <1>2, <1>3, ChangeRetired, CodeSteps

LEMMA LinksStep == Links /\ Served /\ [Next]_vars => Links'
<1> SUFFICES ASSUME Links, Served, [Next]_vars PROVE Links'
  OBVIOUS
<1>1. CASE UNCHANGED tokens
  BY <1>1 DEF Links
<1>2. ASSUME NEW p \in Handlers, CreatePasswordResetToken(p) PROVE Links'
  BY <1>2, LinkMade DEF CreatePasswordResetToken, Served
<1>3. ASSUME NEW p \in Handlers, NEW i \in DOMAIN tokens, ResetPasswordWithToken(p, i) PROVE Links'
  BY <1>3, LinkUsed DEF ResetPasswordWithToken
<1> QED
  BY <1>1, <1>2, <1>3, LinkRetired, CodeSteps


-----------------------------------------------------------------------------
(* Requests.                                                               *)

Stages == {"idle", "recover", "burn", "code", "session", "token", "account", "change"}

Requests == pc \in [Handlers -> Stages] /\ req \in [Handlers -> Request] /\ Served

LEMMA NoRequestType ==
    /\ NoRequest \in Request /\ NoRequest.user = NoUser /\ NoRequest.email = NoEmail
    /\ NoRequest.id = 0 /\ NoRequest.rest = {}
BY DEF NoRequest, Request

LEMMA RequestFields ==
    ASSUME Requests, NEW p \in Handlers
    PROVE  /\ req[p] \in Request /\ req[p].id \in Nat /\ req[p].rest \in SUBSET (1..MaxRecovery)
           /\ req[p].email \in Emails \cup {NoEmail}
           /\ pc[p] # "idle" => req[p].user \in Users
BY DEF Requests, Served, Request

\* A recovery code of the list has been matched.
RecoveryMatched(p, r) ==
    /\ r \in Request /\ r.user = req[p].user
    /\ r.id \in users[r.user].recovery /\ r.rest = users[r.user].recovery \ {r.id}
    /\ req' = [req EXCEPT ![p] = r]

\* A login code has been accepted, and nobody had used it.
LoginCodeAccepted(r) ==
    /\ r.id \in DOMAIN otps /\ ~otps[r.id].used /\ r.user = otps[r.id].user
    /\ otps' = Accept(otps, r.id)
    /\ UNCHANGED sessions

\* One request moves on, with what it needs there.
Moves(p, stage, r) ==
    /\ pc' = [pc EXCEPT ![p] = stage] /\ req' = [req EXCEPT ![p] = r]
    /\ stage # "idle" => r.user \in Users
    /\ stage = "change" => r.email \in Emails
    /\ stage = "session" => r.id = 0 \/ LoginCodeAccepted(r)
    /\ stage = "burn" => RecoveryMatched(p, r) /\ UNCHANGED <<users, spent>>

RequestMoves ==
    \/ UNCHANGED <<pc, req>>
    \/ \E p \in Handlers, stage \in Stages, r \in Request : Moves(p, stage, r)

LEMMA Finished ==
    ASSUME NEW p \in Handlers, Finish(p)
    PROVE  RequestMoves
<1>1. "idle" \in Stages
  BY DEF Stages
<1>2. Moves(p, "idle", NoRequest)
  BY DEF Moves, Finish
<1> QED
  BY <1>1, <1>2, NoRequestType DEF RequestMoves

\* A move to a stage where the request needs no more than its account.
LEMMA Moved ==
    ASSUME NEW p \in Handlers, NEW stage \in Stages \ {"change", "burn"}, NEW r \in Request,
           pc' = [pc EXCEPT ![p] = stage], req' = [req EXCEPT ![p] = r], r.user \in Users,
           stage = "session" => r.id = 0 \/ LoginCodeAccepted(r)
    PROVE  RequestMoves
<1>1. Moves(p, stage, r)
  BY DEF Moves
<1> QED
  BY <1>1 DEF RequestMoves

LEMMA RecoveryMatches ==
    ASSUME Requests, users \in [Users -> Account], NEW p \in Handlers, MatchRecoveryCode(p)
    PROVE  /\ pc[p] = "recover"
           /\ \/ Finish(p)
              \/ /\ pc' = [pc EXCEPT ![p] = "burn"]
                 /\ \E r : RecoveryMatched(p, r)
           /\ UNCHANGED <<users, codes, sessions, spent, edits>>
<1>1. ASSUME pc[p] = "recover", NEW c \in users[req[p].user].recovery, NEW rest,
             rest = users[req[p].user].recovery \ {c},
             req' = [req EXCEPT ![p].id = c, ![p].rest = rest]
      PROVE  \E r : RecoveryMatched(p, r)
  <2>1. PICK r : r = [req[p] EXCEPT !.id = c, !.rest = rest]
    OBVIOUS
  <2>2. req[p] \in Request /\ req \in [Handlers -> Request] /\ req[p].user \in Users
    BY <1>1, RequestFields DEF Requests
  <2>3. req' = [req EXCEPT ![p] = r]
    BY <1>1, <2>1, <2>2
  <2>4. users[req[p].user].recovery \subseteq 1..MaxRecovery
    BY <2>2 DEF Account
  <2>5. c \in Nat /\ rest \in SUBSET (1..MaxRecovery)
    BY <1>1, <2>4
  <2>6. r \in Request /\ r.user = req[p].user /\ r.id = c /\ r.rest = rest
    BY <2>1, <2>2, <2>5 DEF Request
  <2> QED
    BY <1>1, <2>3, <2>6 DEF RecoveryMatched
<1> QED
  BY <1>1 DEF MatchRecoveryCode, Goto

LEMMA RequestSteps ==
    ASSUME Requests, users \in [Users -> Account], sessions \in Seq(Session), LoginCodes, [Next]_vars
    PROVE  RequestMoves
<1> USE DEF Goto
<1>0. \A p \in Handlers : Finish(p) => RequestMoves
  BY Finished
<1>1. CASE UNCHANGED <<pc, req>>
  BY <1>1 DEF RequestMoves
<1>2. ASSUME NEW p \in Handlers, NEW u \in Users, Login(p, u) \/ ForgotPassword(p, u) PROVE RequestMoves
  <2>1. PICK r : r = [NoRequest EXCEPT !.user = u] /\ req' = [req EXCEPT ![p] = r]
    BY <1>2 DEF Login, ForgotPassword
  <2>2. r \in Request /\ r.user = u /\ r.id = 0
    BY <2>1, NoRequestType DEF Request
  <2>3. PICK stage \in {"recover", "code", "session", "token"} : pc' = [pc EXCEPT ![p] = stage]
    BY <1>2 DEF Login, ForgotPassword
  <2> QED
    BY <2>1, <2>2, <2>3, Moved DEF Stages
<1>3. ASSUME NEW p \in Handlers, MatchRecoveryCode(p) PROVE RequestMoves
  <2>1. CASE Finish(p)
    BY <1>0, <2>1
  <2>2. CASE ~Finish(p)
    <3>1. PICK r : /\ pc[p] = "recover" /\ pc' = [pc EXCEPT ![p] = "burn"]
                   /\ RecoveryMatched(p, r) /\ UNCHANGED <<users, spent>>
      BY <1>3, <2>2, RecoveryMatches
    <3>2. req[p].user \in Users
      BY <3>1, RequestFields
    <3>3. Moves(p, "burn", r) /\ r \in Request
      BY <1>3, <2>2, <3>1, <3>2 DEF Moves, RecoveryMatched
    <3> QED
      BY <3>3 DEF RequestMoves, Stages
  <2> QED
    BY <2>1, <2>2
<1>4. ASSUME NEW p \in Handlers, BurnRecoveryCode(p) PROVE RequestMoves
  <2>1. PICK r : /\ r = [req[p] EXCEPT !.id = 0, !.rest = {}]
                 /\ req' = [req EXCEPT ![p] = r] /\ pc' = [pc EXCEPT ![p] = "session"] /\ pc[p] = "burn"
    BY <1>4 DEF BurnRecoveryCode
  <2>2. req[p] \in Request /\ req[p].user \in Users
    BY <2>1, RequestFields
  <2>3. r \in Request /\ r.user = req[p].user /\ r.id = 0
    BY <2>1, <2>2 DEF Request
  <2> QED
    BY <2>1, <2>2, <2>3, Moved DEF Stages
<1>5. ASSUME NEW p \in Handlers, NEW i \in DOMAIN otps, UseLoginOTP(p, i) PROVE RequestMoves
  <2>1. CASE UNCHANGED work
    BY <1>1, <2>1 DEF work
  <2>2. CASE ~UNCHANGED work
    <3>1. PICK r : /\ r = [NoRequest EXCEPT !.user = otps[i].user, !.id = i]
                   /\ req' = [req EXCEPT ![p] = r] /\ pc' = [pc EXCEPT ![p] = "session"]
                   /\ ~otps[i].used /\ otps' = Accept(otps, i) /\ UNCHANGED sessions
      BY <1>5, <2>2 DEF UseLoginOTP
    <3>2. otps[i].user \in Users /\ i \in Nat
      BY ElementTypes, RowFields DEF LoginCodes
    <3>3. r \in Request /\ r.user = otps[i].user /\ r.id = i
      BY <3>1, <3>2, NoRequestType DEF Request
    <3>4. LoginCodeAccepted(r)
      BY <3>1, <3>3 DEF LoginCodeAccepted
    <3> QED
      BY <3>1, <3>2, <3>3, <3>4, Moved DEF Stages
  <2> QED
    BY <2>1, <2>2
<1>6. ASSUME NEW p \in Handlers, NEW i \in DOMAIN tokens, ResetPasswordWithToken(p, i) PROVE RequestMoves
  BY <1>1, <1>6 DEF ResetPasswordWithToken, work
<1>7. ASSUME NEW p \in Handlers, NEW s \in DOMAIN sessions, FindSession(p, s) PROVE RequestMoves
  <2>0. PICK u, e : u = sessions[s].user /\ e = users[u].email
    OBVIOUS
  <2>1. PICK r : /\ r = [NoRequest EXCEPT !.id = s, !.user = u, !.email = e]
                 /\ req' = [req EXCEPT ![p] = r] /\ pc' = [pc EXCEPT ![p] = "account"]
    BY <1>7, <2>0 DEF FindSession
  <2>2. sessions[s] \in Session /\ s \in Nat
    BY ElementTypes
  <2>3. u \in Users /\ e \in Emails
    BY <2>0, <2>2 DEF Session, Account
  <2>4. r \in Request /\ r.user = u
    BY <2>1, <2>2, <2>3, NoRequestType DEF Request
  <2> QED
    BY <2>1, <2>3, <2>4, Moved DEF Stages
<1>8. ASSUME NEW p \in Handlers, NEW e \in Emails, RequestEmailChange(p, e) PROVE RequestMoves
  <2>1. PICK r : /\ r = [req[p] EXCEPT !.email = e, !.id = 0]
                 /\ req' = [req EXCEPT ![p] = r] /\ pc' = [pc EXCEPT ![p] = "change"] /\ pc[p] = "account"
    BY <1>8 DEF RequestEmailChange
  <2>2. req[p] \in Request /\ req[p].user \in Users
    BY <2>1, RequestFields
  <2>3. r \in Request /\ r.user = req[p].user /\ r.email = e
    BY <2>1, <2>2 DEF Request
  <2>4. Moves(p, "change", r)
    BY <2>1, <2>2, <2>3 DEF Moves
  <2> QED
    BY <2>3, <2>4 DEF RequestMoves, Stages
<1>9. ASSUME NEW p \in Handlers,
             \/ CreateLoginOTP(p) \/ CreateSession(p) \/ CreatePasswordResetToken(p)
             \/ CreateEmailChangeOTP(p) \/ Logout(p) \/ Abort(p) \/ EnableTOTP(p) \/ DisableTOTP(p)
      PROVE  Finish(p)
  BY <1>9 DEF CreateLoginOTP, CreateSession, CreatePasswordResetToken, CreateEmailChangeOTP,
              Logout, Abort, EnableTOTP, DisableTOTP, Edit
<1>10. ASSUME NEW p \in Handlers, NEW on, SetEmailOTP(p, on) PROVE Finish(p)
  BY <1>10 DEF SetEmailOTP, Edit
<1>11. ASSUME NEW p \in Handlers, NEW u, NEW e, NEW on, UpdateUser(p, u, e, on) PROVE Finish(p)
  BY <1>11 DEF UpdateUser, Edit
<1>12. CASE Expire
  BY <1>1, <1>12 DEF Expire, work
<1>13. CASE UNCHANGED vars
  BY <1>1, <1>13 DEF vars, work
<1>14. ASSUME NEW p \in Handlers, AccountStep(p) PROVE RequestMoves
  BY <1>0, <1>2, <1>3, <1>4, <1>7, <1>8, <1>9, <1>10, <1>11, <1>14 DEF AccountStep
<1> QED
  BY <1>0, <1>5, <1>6, <1>9, <1>12, <1>13, <1>14, Steps, EmailChangeSteps


LEMMA RequestsStep ==
    ASSUME Requests, RequestMoves
    PROVE  Requests'
<1>1. CASE UNCHANGED <<pc, req>>
  BY <1>1 DEF Requests, Served
<1>2. ASSUME NEW p \in Handlers, NEW stage \in Stages, NEW r \in Request, Moves(p, stage, r)
      PROVE  Requests'
  BY <1>2 DEF Requests, Served, Moves
<1> QED
  BY <1>1, <1>2 DEF RequestMoves

-----------------------------------------------------------------------------
(* Accounts.                                                               *)

LEMMA AccountSteps ==
    ASSUME [Next]_vars
    PROVE  \/ UNCHANGED <<users, spent>>
           \/ \E p \in Handlers :
                \/ BurnRecoveryCode(p) \/ UseEmailChangeOTP(p) \/ EnableTOTP(p) \/ DisableTOTP(p)
                \/ \E on \in BOOLEAN : SetEmailOTP(p, on)
                \/ \E u \in Users, email \in Emails, on \in BOOLEAN : UpdateUser(p, u, email, on)
<1>1. CASE UNCHANGED vars
  BY <1>1 DEF vars
<1>2. CASE Expire
  BY <1>2 DEF Expire
<1>3. ASSUME NEW p, CreateLoginOTP(p) \/ CreatePasswordResetToken(p) \/ CreateEmailChangeOTP(p)
      PROVE  UNCHANGED <<users, spent>>
  BY <1>3 DEF CreateLoginOTP, CreatePasswordResetToken, CreateEmailChangeOTP
<1>4. ASSUME NEW p, NEW i, UseLoginOTP(p, i) \/ ResetPasswordWithToken(p, i) PROVE UNCHANGED <<users, spent>>
  BY <1>4 DEF UseLoginOTP, ResetPasswordWithToken
<1>5. ASSUME NEW p, NEW u, Login(p, u) \/ ForgotPassword(p, u) \/ FindSession(p, u) \/ RequestEmailChange(p, u)
      PROVE  UNCHANGED <<users, spent>>
  BY <1>5 DEF Login, ForgotPassword, FindSession, RequestEmailChange
<1>6. ASSUME NEW p, MatchRecoveryCode(p) \/ CreateSession(p) \/ Logout(p) \/ Abort(p)
      PROVE  UNCHANGED <<users, spent>>
  BY <1>6 DEF MatchRecoveryCode, CreateSession, Logout, Abort
<1> QED
  BY <1>1, <1>2, <1>3, <1>4, <1>5, <1>6, Steps DEF AccountStep

LEMMA Saved ==
    ASSUME users \in [Users -> Account], NEW u \in Users, NEW account \in Account,
           users' = [users EXCEPT ![u] = account]
    PROVE  /\ users' \in [Users -> Account] /\ users'[u] = account
           /\ \A v \in Users : v # u => users'[v] = users[v]
OBVIOUS

\* A new enrolment issues recovery codes nobody has had.
LEMMA Enrolled ==
    ASSUME users \in [Users -> Account], spent \in Seq(RecoveryCode), Requests,
           NEW p \in Handlers, EnableTOTP(p)
    PROVE  /\ users' \in [Users -> Account] /\ spent' \in Seq(RecoveryCode)
           /\ DOMAIN spent \subseteq DOMAIN spent'
           /\ \A c \in DOMAIN spent : spent'[c] = spent[c]
           /\ \A c \in DOMAIN spent' : c \notin DOMAIN spent => spent'[c].times = 0 /\ spent'[c].late = 0
           /\ \A c \in users'[req[p].user].recovery : c \in DOMAIN spent' /\ c \notin DOMAIN spent
           /\ \A v \in Users : v # req[p].user => users'[v] = users[v]
<1>1. pc[p] = "account" /\ Len(spent) + CodesPerUser <= MaxRecovery
  BY DEF EnableTOTP, Edit
<1>2. PICK zeros : /\ zeros = [c \in 1..CodesPerUser |-> [times |-> 0, late |-> 0]]
                   /\ spent' = spent \o zeros
  BY DEF EnableTOTP
<1>3. CodesPerUser \in Nat /\ MaxRecovery \in Nat /\ Len(spent) \in Nat
  BY CountAssumption, LenProperties
<1>4. zeros \in Seq(RecoveryCode) /\ Len(zeros) = CodesPerUser
  BY <1>2, <1>3 DEF RecoveryCode
<1>5. /\ spent' \in Seq(RecoveryCode) /\ Len(spent') = Len(spent) + CodesPerUser
      /\ \A c \in 1..Len(spent') : spent'[c] = IF c <= Len(spent) THEN spent[c] ELSE zeros[c - Len(spent)]
  <2>1. PICK n : n = Len(spent) + CodesPerUser
    OBVIOUS
  <2>2. /\ spent \o zeros \in Seq(RecoveryCode) /\ Len(spent \o zeros) = n
        /\ \A c \in 1..n : (spent \o zeros)[c] = IF c <= Len(spent) THEN spent[c] ELSE zeros[c - Len(spent)]
    BY <1>4, <2>1, ConcatProperties
  <2> QED
    BY <1>2, <2>1, <2>2
<1>6. DOMAIN spent = 1..Len(spent) /\ DOMAIN spent' = 1..Len(spent')
  BY <1>5, LenProperties
<1>7. /\ DOMAIN spent \subseteq DOMAIN spent'
      /\ \A c \in DOMAIN spent : spent'[c] = spent[c]
      /\ \A c \in DOMAIN spent' : c \notin DOMAIN spent => spent'[c].times = 0 /\ spent'[c].late = 0
  BY <1>2, <1>3, <1>5, <1>6
<1>8. PICK fresh : fresh = (Len(spent) + 1)..(Len(spent) + CodesPerUser)
  OBVIOUS
<1>9. fresh \in SUBSET (1..MaxRecovery)
  BY <1>1, <1>3, <1>8
<1>10. PICK account : /\ account = [users[req[p].user] EXCEPT !.totp = TRUE, !.recovery = fresh]
                      /\ users' = [users EXCEPT ![req[p].user] = account]
  BY <1>8 DEF EnableTOTP
<1>11. req[p].user \in Users /\ users[req[p].user] \in Account
  BY <1>1, RequestFields
<1>12. account \in Account /\ account.recovery = fresh
  BY <1>9, <1>10, <1>11 DEF Account
<1>13. /\ users' \in [Users -> Account] /\ users'[req[p].user].recovery = fresh
       /\ \A v \in Users : v # req[p].user => users'[v] = users[v]
  BY <1>10, <1>11, <1>12, Saved
<1>14. \A c \in fresh : c \in DOMAIN spent' /\ c \notin DOMAIN spent
  BY <1>3, <1>5, <1>6, <1>8
<1> QED
  BY <1>5, <1>7, <1>13, <1>14

LEMMA HistoryTypes ==
    ASSUME spent \in Seq(RecoveryCode), NEW k \in DOMAIN spent
    PROVE  spent[k].times \in Nat /\ spent[k].late \in Nat
<1>1. spent[k] \in RecoveryCode
  BY ElementTypes
<1> QED
  BY <1>1 DEF RecoveryCode

\* What a request that writes its list back adds to the history of a code.
WrittenBack(u, c, rest, k) ==
    /\ spent'[k].times = spent[k].times + (IF k = c THEN 1 ELSE 0)
    /\ spent'[k].late = spent[k].late + (IF Late(u, c, rest, k) THEN 1 ELSE 0)

\* A recovery code is crossed off: the list the request has read goes back without it.
LEMMA Burnt ==
    ASSUME users \in [Users -> Account], spent \in Seq(RecoveryCode), Requests,
           NEW p \in Handlers, BurnRecoveryCode(p)
    PROVE  /\ pc[p] = "burn" /\ req[p].user \in Users
           /\ users' \in [Users -> Account] /\ spent' \in Seq(RecoveryCode)
           /\ users'[req[p].user].recovery = req[p].rest
           /\ \A v \in Users : v # req[p].user => users'[v] = users[v]
           /\ DOMAIN spent' = DOMAIN spent
           /\ \A k \in DOMAIN spent : WrittenBack(req[p].user, req[p].id, req[p].rest, k)
<1>1. pc[p] = "burn" /\ req[p].user \in Users /\ req[p].rest \in SUBSET (1..MaxRecovery)
  BY RequestFields DEF BurnRecoveryCode
<1>2. PICK u, c, rest : u = req[p].user /\ c = req[p].id /\ rest = req[p].rest
  OBVIOUS
<1>3. PICK account : /\ account = [users[u] EXCEPT !.recovery = rest]
                     /\ users' = [users EXCEPT ![u] = account]
  BY <1>2 DEF BurnRecoveryCode, Kept
<1>4. account \in Account /\ account.recovery = rest
  BY <1>1, <1>2, <1>3 DEF Account
<1>5. /\ users' \in [Users -> Account] /\ users'[u] = account
      /\ \A v \in Users : v # u => users'[v] = users[v]
  BY <1>1, <1>2, <1>3, <1>4, Saved
<1>6. spent' = Counted(u, c, rest)
  BY <1>2 DEF BurnRecoveryCode
<1>7. /\ DOMAIN spent' = DOMAIN spent
      /\ \A k \in DOMAIN spent : WrittenBack(u, c, rest, k)
  BY <1>6 DEF Counted, WrittenBack
<1>8. \A k \in DOMAIN spent : spent'[k] \in RecoveryCode
  <2>1. ASSUME NEW k \in DOMAIN spent PROVE spent'[k] \in RecoveryCode
    <3>1. spent[k].times \in Nat /\ spent[k].late \in Nat
      BY HistoryTypes
    <3>2. PICK times, late : /\ times = spent[k].times + (IF k = c THEN 1 ELSE 0)
                             /\ late = spent[k].late + (IF Late(u, c, rest, k) THEN 1 ELSE 0)
                             /\ spent'[k] = [times |-> times, late |-> late]
      BY <1>6 DEF Counted
    <3>3. times \in Nat /\ late \in Nat
      BY <3>1, <3>2
    <3> QED
      BY <3>2, <3>3 DEF RecoveryCode
  <2> QED
    BY <2>1
<1>9. spent' \in Seq(RecoveryCode)
  <2>1. DOMAIN spent = 1..Len(spent) /\ Len(spent) \in Nat
    BY LenProperties
  <2>2. spent' = [k \in DOMAIN spent |-> spent'[k]]
    BY <1>6 DEF Counted
  <2>3. spent' \in [1..Len(spent) -> RecoveryCode]
    BY <1>8, <2>1, <2>2
  <2> QED
    BY <2>1, <2>3
<1> QED
  BY <1>1, <1>2, <1>4, <1>5, <1>7, <1>9

LEMMA AccountsStep ==
    ASSUME users \in [Users -> Account], spent \in Seq(RecoveryCode), Requests, ChangeCodes, [Next]_vars
    PROVE  users' \in [Users -> Account] /\ spent' \in Seq(RecoveryCode)
<1>0. \A p \in Handlers : pc[p] = "account" => req[p].user \in Users /\ users[req[p].user] \in Account
  BY RequestFields
<1>1. CASE UNCHANGED <<users, spent>>
  BY <1>1
<1>2. ASSUME NEW p \in Handlers, UseEmailChangeOTP(p)
      PROVE  users' \in [Users -> Account] /\ spent' \in Seq(RecoveryCode)
  <2>1. PICK i \in DOMAIN changes : EmailChangeTried(req[p].user, i)
    BY <1>2, EmailChange
  <2>2. pc[p] = "account" /\ UNCHANGED spent
    BY <1>2, EmailChangeSteps
  <2>3. CASE UNCHANGED users
    BY <2>2, <2>3
  <2>4. CASE users' = [users EXCEPT ![req[p].user].email = changes[i].email]
    <3>1. PICK account : /\ account = [users[req[p].user] EXCEPT !.email = changes[i].email]
                         /\ users' = [users EXCEPT ![req[p].user] = account]
      BY <2>4
    <3>2. account \in Account
      BY <1>0, <2>2, <3>1, ChangeFields DEF Account
    <3> QED
      BY <1>0, <2>2, <3>1, <3>2, Saved
  <2> QED
    BY <2>1, <2>3, <2>4 DEF EmailChangeTried
<1>3. ASSUME NEW p \in Handlers, DisableTOTP(p)
      PROVE  users' \in [Users -> Account] /\ spent' \in Seq(RecoveryCode)
  <2>1. PICK account : /\ account = [users[req[p].user] EXCEPT !.totp = FALSE, !.recovery = {}]
                       /\ users' = [users EXCEPT ![req[p].user] = account]
                       /\ pc[p] = "account" /\ UNCHANGED spent
    BY <1>3 DEF DisableTOTP, Edit
  <2>2. account \in Account
    BY <1>0, <2>1 DEF Account
  <2> QED
    BY <1>0, <2>1, <2>2, Saved
<1>4. ASSUME NEW p \in Handlers, NEW on \in BOOLEAN, SetEmailOTP(p, on)
      PROVE  users' \in [Users -> Account] /\ spent' \in Seq(RecoveryCode)
  <2>1. PICK account : /\ account = [users[req[p].user] EXCEPT !.otp = on]
                       /\ users' = [users EXCEPT ![req[p].user] = account]
                       /\ pc[p] = "account" /\ UNCHANGED spent
    BY <1>4 DEF SetEmailOTP, Edit
  <2>2. account \in Account
    BY <1>0, <2>1 DEF Account
  <2> QED
    BY <1>0, <2>1, <2>2, Saved
<1>5. ASSUME NEW p \in Handlers, NEW u \in Users, NEW e \in Emails, NEW on \in BOOLEAN, UpdateUser(p, u, e, on)
      PROVE  users' \in [Users -> Account] /\ spent' \in Seq(RecoveryCode)
  <2>1. users' = [users EXCEPT ![u].email = e, ![u].enabled = on] /\ UNCHANGED spent
    BY <1>5 DEF UpdateUser
  <2>2. PICK account : account = [users[u] EXCEPT !.email = e, !.enabled = on]
    OBVIOUS
  <2>3. users' = [users EXCEPT ![u] = account]
    BY <2>1, <2>2
  <2>4. account \in Account
    BY <2>2 DEF Account
  <2> QED
    BY <2>1, <2>3, <2>4, Saved
<1> QED
  BY <1>1, <1>2, <1>3, <1>4, <1>5, Enrolled, Burnt, AccountSteps


-----------------------------------------------------------------------------
(* Sessions.                                                               *)

\* Sessions may end; else they stay as they were.
SessionsEnd ==
    /\ sessions' \in Seq(Session) /\ DOMAIN sessions' = DOMAIN sessions
    /\ \A s \in DOMAIN sessions :
         /\ sessions'[s].user = sessions[s].user /\ sessions'[s].by = sessions[s].by
         /\ sessions'[s].era = sessions[s].era
         /\ sessions'[s].open => sessions[s].open

LEMMA Ended ==
    ASSUME sessions \in Seq(Session), NEW s,
           sessions' = [sessions EXCEPT ![s].open = FALSE]
    PROVE  SessionsEnd
<1>1. CASE s \in DOMAIN sessions
  <2>1. PICK row : row = [sessions[s] EXCEPT !.open = FALSE]
    OBVIOUS
  <2>2. sessions' = [sessions EXCEPT ![s] = row]
    BY <2>1
  <2>3. sessions[s] \in Session
    BY <1>1, ElementTypes
  <2>4. /\ row \in Session /\ row.user = sessions[s].user /\ row.by = sessions[s].by
        /\ row.era = sessions[s].era /\ row.open = FALSE
    BY <2>1, <2>3 DEF Session
  <2>5. /\ sessions' \in Seq(Session) /\ DOMAIN sessions' = DOMAIN sessions /\ sessions'[s] = row
        /\ \A t \in DOMAIN sessions : t # s => sessions'[t] = sessions[t]
    <3> SUFFICES ASSUME NEW after, after = [sessions EXCEPT ![s] = row]
                 PROVE  /\ after \in Seq(Session) /\ DOMAIN after = DOMAIN sessions /\ after[s] = row
                        /\ \A t \in DOMAIN sessions : t # s => after[t] = sessions[t]
      BY <2>2
    <3> QED
      BY <1>1, <2>4, Replaced
  <2> QED
    BY <2>4, <2>5 DEF SessionsEnd
<1>2. CASE s \notin DOMAIN sessions
  <2>1. sessions' = sessions
    <3>1. sessions = [t \in DOMAIN sessions |-> sessions[t]]
      OBVIOUS
    <3> QED
      BY <1>2, <3>1
  <2> QED
    BY <2>1 DEF SessionsEnd
<1> QED
  BY <1>1, <1>2

LEMMA AllEnded ==
    ASSUME sessions \in Seq(Session), NEW u, sessions' = CloseSessions(u)
    PROVE  SessionsEnd /\ \A s \in DOMAIN sessions : sessions[s].user = u => ~sessions'[s].open
<1>1. /\ sessions' = [s \in DOMAIN sessions |-> sessions'[s]]
      /\ \A s \in DOMAIN sessions : sessions'[s] =
           IF sessions[s].user = u THEN [sessions[s] EXCEPT !.open = FALSE] ELSE sessions[s]
  BY DEF CloseSessions
<1>2. ASSUME NEW s \in DOMAIN sessions
      PROVE  /\ sessions'[s] \in Session
             /\ sessions'[s].user = sessions[s].user /\ sessions'[s].by = sessions[s].by
             /\ sessions'[s].era = sessions[s].era
             /\ sessions'[s].open => sessions[s].open
             /\ sessions[s].user = u => sessions'[s].open = FALSE
  <2>1. sessions[s] \in Session
    BY ElementTypes
  <2> QED
    BY <1>1, <2>1 DEF Session
<1>3. DOMAIN sessions = 1..Len(sessions) /\ Len(sessions) \in Nat
  BY LenProperties
<1>4. sessions' \in [1..Len(sessions) -> Session]
  BY <1>1, <1>2, <1>3
<1>5. sessions' \in Seq(Session) /\ DOMAIN sessions' = DOMAIN sessions
  BY <1>3, <1>4
<1> QED
  BY <1>2, <1>5 DEF SessionsEnd

LEMMA Opened ==
    ASSUME sessions \in Seq(Session), tokens \in Seq(Code), Requests, NEW p \in Handlers, CreateSession(p)
    PROVE  /\ pc[p] = "session" /\ Finish(p) /\ UNCHANGED <<otps, changes, tokens>>
           /\ sessions' \in Seq(Session) /\ DOMAIN sessions' = DOMAIN sessions \cup {Len(sessions) + 1}
           /\ Len(sessions) + 1 \notin DOMAIN sessions
           /\ \A s \in DOMAIN sessions : sessions'[s] = sessions[s]
           /\ sessions'[Len(sessions) + 1].user = req[p].user
           /\ sessions'[Len(sessions) + 1].by = req[p].id
           /\ sessions'[Len(sessions) + 1].era = Cardinality(Won(tokens, req[p].user))
<1>1. PICK session : /\ session = [user |-> req[p].user, by |-> req[p].id, open |-> TRUE,
                                   era |-> Cardinality(Won(tokens, req[p].user))]
                     /\ sessions' = Append(sessions, session)
  BY DEF CreateSession
<1>2. pc[p] = "session" /\ Finish(p) /\ UNCHANGED <<otps, changes, tokens>>
  BY DEF CreateSession, codes
<1>3. /\ session \in Session /\ session.user = req[p].user /\ session.by = req[p].id
      /\ session.era = Cardinality(Won(tokens, req[p].user))
  BY <1>1, <1>2, RequestFields, WonFinite DEF Session
<1> QED
  BY <1>1, <1>2, <1>3, Appended

LEMMA SessionSteps ==
    ASSUME sessions \in Seq(Session), [Next]_vars
    PROVE  SessionsEnd \/ \E p \in Handlers : CreateSession(p)
<1>0. ASSUME UNCHANGED sessions PROVE SessionsEnd
  BY <1>0 DEF SessionsEnd
<1>1. CASE UNCHANGED vars
  BY <1>0, <1>1 DEF vars
<1>2. CASE Expire
  BY <1>0, <1>2, Ended DEF Expire
<1>3. ASSUME NEW p, CreateLoginOTP(p) \/ CreatePasswordResetToken(p) \/ CreateEmailChangeOTP(p)
      PROVE  UNCHANGED sessions
  BY <1>3 DEF CreateLoginOTP, CreatePasswordResetToken, CreateEmailChangeOTP
<1>4. ASSUME NEW p, NEW i, UseLoginOTP(p, i) PROVE UNCHANGED sessions
  BY <1>4 DEF UseLoginOTP
<1>5. ASSUME NEW p, NEW i, ResetPasswordWithToken(p, i) PROVE SessionsEnd
  BY <1>5, AllEnded DEF ResetPasswordWithToken
<1>6. ASSUME NEW p, NEW u, Login(p, u) \/ ForgotPassword(p, u) \/ FindSession(p, u) \/ RequestEmailChange(p, u)
      PROVE  UNCHANGED sessions
  BY <1>6 DEF Login, ForgotPassword, FindSession, RequestEmailChange
<1>7. ASSUME NEW p, MatchRecoveryCode(p) \/ BurnRecoveryCode(p) \/ Abort(p) \/ EnableTOTP(p) \/ DisableTOTP(p)
      PROVE  UNCHANGED sessions
  BY <1>7 DEF MatchRecoveryCode, BurnRecoveryCode, Abort, EnableTOTP, DisableTOTP
<1>8. ASSUME NEW p, NEW on, SetEmailOTP(p, on) PROVE UNCHANGED sessions
  BY <1>8 DEF SetEmailOTP
<1>9. ASSUME NEW p, NEW u, NEW e, NEW on, UpdateUser(p, u, e, on) PROVE UNCHANGED sessions
  BY <1>9 DEF UpdateUser
<1>10. ASSUME NEW p, Logout(p) PROVE SessionsEnd
  BY <1>10, Ended DEF Logout
<1> QED
  BY <1>0, <1>1, <1>2, <1>3, <1>4, <1>5, <1>6, <1>7, <1>8, <1>9, <1>10, Steps, EmailChangeSteps DEF AccountStep


-----------------------------------------------------------------------------
(* Type correctness, and codes that are used up.                           *)

IInv ==
    /\ users \in [Users -> Account] /\ sessions \in Seq(Session)
    /\ spent \in Seq(RecoveryCode) /\ edits \in 0..MaxEdits
    /\ Requests /\ LoginCodes /\ ChangeCodes /\ Links

LEMMA IInvInit == Init => IInv
<1> SUFFICES ASSUME Init PROVE IInv
  OBVIOUS
<1>1. users \in [Users -> Account]
  BY AccountAssumption DEF Init, Account
<1>2. /\ otps = << >> /\ changes = << >> /\ tokens = << >> /\ sessions = << >> /\ spent = << >>
      /\ edits \in 0..MaxEdits
  BY CountAssumption DEF Init
<1>3. Requests
  BY NoRequestType DEF Init, Requests, Served, Stages
<1>4. LoginCodes /\ ChangeCodes /\ Links
  BY <1>2 DEF LoginCodes, ChangeCodes, Links, Sound, OneOfPending
<1>5. sessions \in Seq(Session) /\ spent \in Seq(RecoveryCode)
  BY <1>2
<1> QED
  BY <1>1, <1>2, <1>3, <1>4, <1>5 DEF IInv

LEMMA EditsStep == edits \in 0..MaxEdits /\ [Next]_vars => edits' \in 0..MaxEdits
<1> SUFFICES ASSUME edits \in 0..MaxEdits, [Next]_vars PROVE edits' \in 0..MaxEdits
  OBVIOUS
<1>0. \A p : Edit(p) => edits' \in 0..MaxEdits
  BY CountAssumption DEF Edit
<1>1. CASE UNCHANGED vars
  BY <1>1 DEF vars
<1>2. CASE Expire
  BY <1>2 DEF Expire
<1>3. ASSUME NEW p, CreateLoginOTP(p) \/ CreatePasswordResetToken(p) \/ CreateEmailChangeOTP(p)
      PROVE  UNCHANGED edits
  BY <1>3 DEF CreateLoginOTP, CreatePasswordResetToken, CreateEmailChangeOTP
<1>4. ASSUME NEW p, NEW i, UseLoginOTP(p, i) \/ ResetPasswordWithToken(p, i) PROVE UNCHANGED edits
  BY <1>4 DEF UseLoginOTP, ResetPasswordWithToken
<1>5. ASSUME NEW p, NEW u, Login(p, u) \/ ForgotPassword(p, u) \/ FindSession(p, u) \/ RequestEmailChange(p, u)
      PROVE  UNCHANGED edits
  BY <1>5 DEF Login, ForgotPassword, FindSession, RequestEmailChange
<1>6. ASSUME NEW p, \/ MatchRecoveryCode(p) \/ BurnRecoveryCode(p) \/ Abort(p)
                    \/ CreateSession(p) \/ Logout(p)
      PROVE  UNCHANGED edits
  BY <1>6 DEF MatchRecoveryCode, BurnRecoveryCode, Abort, CreateSession, Logout
<1>7. ASSUME NEW p, NEW u, NEW e, NEW on,
             EnableTOTP(p) \/ DisableTOTP(p) \/ SetEmailOTP(p, on) \/ UpdateUser(p, u, e, on)
      PROVE  Edit(p)
  BY <1>7 DEF EnableTOTP, DisableTOTP, SetEmailOTP, UpdateUser
<1> QED
  BY <1>0, <1>1, <1>2, <1>3, <1>4, <1>5, <1>6, <1>7, Steps, EmailChangeSteps DEF AccountStep

LEMMA IInvStep == IInv /\ [Next]_vars => IInv'
<1> SUFFICES ASSUME IInv, [Next]_vars PROVE IInv'
  OBVIOUS
<1>1. users' \in [Users -> Account] /\ spent' \in Seq(RecoveryCode)
  BY AccountsStep DEF IInv
<1>2. sessions' \in Seq(Session)
  BY SessionSteps, Opened DEF IInv, SessionsEnd, Links
<1>3. Requests'
  BY RequestSteps, RequestsStep DEF IInv
<1>4. LoginCodes' /\ ChangeCodes' /\ Links'
  BY LoginCodesStep, ChangeCodesStep, LinksStep DEF IInv, Requests
<1>5. edits' \in 0..MaxEdits
  BY EditsStep DEF IInv
<1> QED
  BY <1>1, <1>2, <1>3, <1>4, <1>5 DEF IInv

\* The inductive invariant: the types, the requests each about an account, and the three
\* tables of codes sound.
THEOREM InductiveInvariant == Spec => []IInv
BY IInvInit, IInvStep, PTL DEF Spec

\* The tables, the sessions and the requests keep their types, and no code counts an
\* attempt more than once beyond the limit.
THEOREM TypeCorrect == Spec => []TypeOK
<1>1. IInv => TypeOK
  BY DEF IInv, TypeOK, Requests, Stages, LoginCodes, ChangeCodes, Links
<1> QED
  BY <1>1, InductiveInvariant, PTL

\* UseLoginOTP and UseEmailChangeOTP count attempts in different ways; both compare a
\* code with MaxAttempts wrong ones at most and accept it only before that.
THEOREM GuessesBounded == Spec => []WrongGuessesBounded
<1>1. IInv => WrongGuessesBounded
  <2> SUFFICES ASSUME IInv, NEW table \in {otps, changes}, NEW i \in DOMAIN table
               PROVE  /\ table[i].wrong <= MaxAttempts
                      /\ table[i].wins > 0 => table[i].wrong < MaxAttempts
    BY DEF WrongGuessesBounded
  <2>1. table \in Seq(Code) /\ Sound(table)
    BY DEF IInv, LoginCodes, ChangeCodes
  <2>2. table[i].wrong \in Nat /\ table[i].wins \in Nat /\ table[i].wrong + table[i].wins <= MaxAttempts
    BY <2>1, RowFields DEF Sound
  <2> QED
    BY <2>2, MaxAttemptsNat
<1> QED
  BY <1>1, InductiveInvariant, PTL

\* A right code retires every code of its user that is still pending, so of those that
\* were pending together one wins, however many were sent and tried in between.
THEOREM OneOfPendingWins == Spec => []OnePendingCodeWins
<1>1. IInv => OnePendingCodeWins
  BY DEF IInv, LoginCodes, ChangeCodes, OneOfPending, OnePendingCodeWins
<1> QED
  BY <1>1, InductiveInvariant, PTL


-----------------------------------------------------------------------------
(* Sessions and the code that opened them.                                 *)

\* Only a reset of a password counts as one.
LEMMA OnlyResetsCount ==
    ASSUME IInv, [Next]_vars
    PROVE  \/ \A v : Won(tokens', v) = Won(tokens, v)
           \/ \E p \in Handlers : \E i \in DOMAIN tokens : ResetPasswordWithToken(p, i)
<1>1. CASE UNCHANGED tokens
  BY <1>1 DEF Won
<1>2. ASSUME NEW p \in Handlers, CreatePasswordResetToken(p) PROVE \A v : Won(tokens', v) = Won(tokens, v)
  BY <1>2, LinkMade DEF CreatePasswordResetToken, IInv, Requests, Served
<1>3. ASSUME NEW i \in DOMAIN tokens, tokens' = Retire(tokens, i)
      PROVE  \A v : Won(tokens', v) = Won(tokens, v)
  BY <1>3, LinkRetired DEF IInv
<1> QED
  BY <1>1, <1>2, <1>3, CodeSteps

\* A reset ends every session its user had: those that are open were made after the
\* last reset, though sessions are made, ended and looked up by other requests meanwhile.
THEOREM ResetEndsSessions == Spec => []NoSessionOutlivesReset
<1>1. Init => NoSessionOutlivesReset
  BY DEF Init, NoSessionOutlivesReset
<1>2. IInv /\ NoSessionOutlivesReset /\ [Next]_vars => NoSessionOutlivesReset'
  <2> SUFFICES ASSUME IInv, NoSessionOutlivesReset, [Next]_vars,
                      NEW s \in DOMAIN sessions', sessions'[s].open
               PROVE  sessions'[s].era = Cardinality(Won(tokens', sessions'[s].user))
    BY DEF NoSessionOutlivesReset
  <2>0. sessions \in Seq(Session) /\ tokens \in Seq(Code) /\ Requests /\ Links
    BY DEF IInv, Links
  <2>1. ASSUME NEW p \in Handlers, NEW i \in DOMAIN tokens, ResetPasswordWithToken(p, i)
        PROVE  sessions'[s].era = Cardinality(Won(tokens', sessions'[s].user))
    <3>1. SessionsEnd /\ \A t \in DOMAIN sessions : sessions[t].user = tokens[i].user => ~sessions'[t].open
      BY <2>0, <2>1, AllEnded DEF ResetPasswordWithToken
    <3>2. \A v : v # tokens[i].user => Won(tokens', v) = Won(tokens, v)
      BY <2>0, <2>1, LinkUsed DEF ResetPasswordWithToken
    <3> QED
      BY <3>1, <3>2 DEF SessionsEnd, NoSessionOutlivesReset
  <2>2. ASSUME NEW p \in Handlers, CreateSession(p)
        PROVE  sessions'[s].era = Cardinality(Won(tokens', sessions'[s].user))
    BY <2>0, <2>2, Opened DEF NoSessionOutlivesReset
  <2>3. ASSUME SessionsEnd, \A v : Won(tokens', v) = Won(tokens, v)
        PROVE  sessions'[s].era = Cardinality(Won(tokens', sessions'[s].user))
    BY <2>3 DEF SessionsEnd, NoSessionOutlivesReset
  <2> QED
    BY <2>0, <2>1, <2>2, <2>3, SessionSteps, OnlyResetsCount
<1> QED
  BY <1>1, <1>2, InductiveInvariant, PTL DEF Spec

\* A login code stays, with its user, and one that has won has won.
LEMMA LoginCodesKept ==
    ASSUME IInv, [Next]_vars
    PROVE  /\ DOMAIN otps \subseteq DOMAIN otps'
           /\ \A i \in DOMAIN otps : /\ otps'[i].user = otps[i].user
                                     /\ otps[i].wins > 0 => otps'[i].wins > 0
<1>0. otps \in Seq(Code)
  BY DEF IInv, LoginCodes
<1>1. CASE UNCHANGED otps
  BY <1>1
<1>2. ASSUME NEW p \in Handlers, CreateLoginOTP(p)
      PROVE  /\ DOMAIN otps \subseteq DOMAIN otps'
             /\ \A i \in DOMAIN otps : otps'[i] = otps[i]
  <2>1. PICK u \in Users : otps' = NewCode(otps, u, NoEmail)
    BY <1>2 DEF CreateLoginOTP, IInv, Requests, Served
  <2>2. NoEmail \in Emails \cup {NoEmail}
    OBVIOUS
  <2>3. /\ DOMAIN NewCode(otps, u, NoEmail) = DOMAIN otps \cup {Len(otps) + 1}
        /\ \A i \in DOMAIN otps : NewCode(otps, u, NoEmail)[i] = otps[i]
    BY <1>0, <2>2, NewRow
  <2> QED
    BY <2>1, <2>3
<1>3. ASSUME NEW i \in DOMAIN otps,
             \/ otps' = Retire(otps, i) \/ otps' = Wrong(i) \/ otps' = Exhausted(i)
      PROVE  /\ DOMAIN otps' = DOMAIN otps
             /\ \A j \in DOMAIN otps : otps'[j].user = otps[j].user /\ otps'[j].wins = otps[j].wins
  <2>1. otps[i] \in Code
    BY <1>0, RowFields
  <2>2. PICK row : /\ otps' = [otps EXCEPT ![i] = row]
                   /\ \/ row = [otps[i] EXCEPT !.used = TRUE]
                      \/ row = [otps[i] EXCEPT !.attempts = otps[i].attempts + 1, !.wrong = otps[i].wrong + 1]
                      \/ row = [otps[i] EXCEPT !.attempts = otps[i].attempts + 1, !.used = TRUE]
    BY <1>3 DEF Retire, Wrong, Exhausted
  <2>3. row.user = otps[i].user /\ row.wins = otps[i].wins
    BY <2>1, <2>2 DEF Code
  <2> QED
    BY <2>2, <2>3
<1>4. ASSUME NEW i \in DOMAIN otps, ~otps[i].used, otps' = Accept(otps, i)
      PROVE  /\ DOMAIN otps' = DOMAIN otps
             /\ \A j \in DOMAIN otps : /\ otps'[j].user = otps[j].user
                                       /\ otps[j].wins > 0 => otps'[j].wins > 0
  <2>1. otps[i].wins = 0
    BY <1>4 DEF IInv, LoginCodes, Sound
  <2>2. /\ DOMAIN otps' = DOMAIN otps
        /\ \A j \in DOMAIN otps : otps'[j].user = otps[j].user
        /\ \A j \in DOMAIN otps : j # i => otps'[j].wins = otps[j].wins
    BY <1>0, <1>4, AcceptedRow
  <2> QED
    BY <2>1, <2>2
<1>5. ASSUME NEW p \in Handlers, NEW i \in DOMAIN otps, UseLoginOTP(p, i)
      PROVE  \/ otps' = Wrong(i) \/ otps' = Exhausted(i)
             \/ ~otps[i].used /\ otps' = Accept(otps, i)
  BY <1>5 DEF UseLoginOTP
<1> QED
  BY <1>1, <1>2, <1>3, <1>4, <1>5, CodeSteps


\* Requests carry what they carried, until they are done with it.
NothingPickedUp ==
    \A q \in Handlers : pc'[q] = "session" /\ req'[q].id # 0 =>
        Carries(q) /\ req'[q].id = req[q].id /\ req'[q].user = req[q].user

LEMMA CarriedStep ==
    ASSUME IInv, CarriedOnce, [Next]_vars
    PROVE  CarriedOnce'
<1>0. /\ otps \in Seq(Code) /\ sessions \in Seq(Session) /\ tokens \in Seq(Code) /\ Requests
      /\ pc \in [Handlers -> Stages] /\ req \in [Handlers -> Request]
  BY DEF IInv, LoginCodes, Links, Requests
<1>1. RequestMoves
  BY RequestSteps DEF IInv
<1>2. /\ DOMAIN otps \subseteq DOMAIN otps'
      /\ \A i \in DOMAIN otps : /\ otps'[i].user = otps[i].user
                                /\ otps[i].wins > 0 => otps'[i].wins > 0
  BY LoginCodesKept
<1>3. CASE /\ NothingPickedUp
           /\ SessionsEnd
  <2>1. \A p \in Handlers : pc'[p] = "session" /\ req'[p].id # 0 =>
          /\ req'[p].id \in DOMAIN otps' /\ otps'[req'[p].id].wins > 0
          /\ req'[p].user = otps'[req'[p].id].user
          /\ \A s \in DOMAIN sessions' : sessions'[s].by # req'[p].id
          /\ \A q \in Handlers : pc'[q] = "session" /\ req'[q].id # 0 /\ req'[q].id = req'[p].id => q = p
    BY <1>2, <1>3 DEF NothingPickedUp, SessionsEnd, CarriedOnce, Carries
  <2>2. \A s \in DOMAIN sessions' : sessions'[s].by # 0 =>
          /\ sessions'[s].by \in DOMAIN otps' /\ otps'[sessions'[s].by].wins > 0
          /\ sessions'[s].user = otps'[sessions'[s].by].user
    BY <1>2, <1>3 DEF SessionsEnd, CarriedOnce
  <2>3. \A s, t \in DOMAIN sessions' :
          sessions'[s].by # 0 /\ sessions'[s].by = sessions'[t].by => s = t
    BY <1>3 DEF SessionsEnd, CarriedOnce
  <2> QED
    BY <2>1, <2>2, <2>3 DEF CarriedOnce, Carries
<1>4. ASSUME NEW p \in Handlers, NEW r \in Request,
             pc' = [pc EXCEPT ![p] = "session"], req' = [req EXCEPT ![p] = r], LoginCodeAccepted(r)
      PROVE  CarriedOnce'
  <2>1. /\ r.id \in DOMAIN otps /\ ~otps[r.id].used /\ r.user = otps[r.id].user
        /\ otps' = Accept(otps, r.id) /\ UNCHANGED sessions
    BY <1>4 DEF LoginCodeAccepted
  <2>2. otps[r.id].wins = 0
    BY <2>1 DEF IInv, LoginCodes, Sound
  <2>3. otps'[r.id].wins > 0 /\ otps'[r.id].user = r.user /\ r.id \in DOMAIN otps'
    BY <1>0, <1>2, <2>1, <2>2, AcceptedRow
  <2>4. /\ \A s \in DOMAIN sessions : sessions[s].by # r.id
        /\ \A q \in Handlers : Carries(q) => req[q].id # r.id
    <3>1. r.id # 0
      BY <1>0, <2>1, ElementTypes
    <3> QED
      BY <2>2, <3>1 DEF CarriedOnce
  <2>5. /\ pc'[p] = "session" /\ req'[p] = r
        /\ \A q \in Handlers : q # p => pc'[q] = pc[q] /\ req'[q] = req[q]
    BY <1>0, <1>4
  <2>6. \A q \in Handlers : q # p /\ pc'[q] = "session" /\ req'[q].id # 0 =>
          /\ req'[q].id \in DOMAIN otps' /\ otps'[req'[q].id].wins > 0
          /\ req'[q].user = otps'[req'[q].id].user
          /\ \A s \in DOMAIN sessions' : sessions'[s].by # req'[q].id
          /\ \A o \in Handlers : pc'[o] = "session" /\ req'[o].id # 0 /\ req'[o].id = req'[q].id => o = q
    BY <1>2, <2>1, <2>4, <2>5 DEF CarriedOnce, Carries
  <2>7. /\ \A s \in DOMAIN sessions' : sessions'[s].by # req'[p].id
        /\ \A o \in Handlers : pc'[o] = "session" /\ req'[o].id # 0 /\ req'[o].id = req'[p].id => o = p
    BY <2>1, <2>4, <2>5 DEF Carries
  <2>8. \A s \in DOMAIN sessions' : sessions'[s].by # 0 =>
          /\ sessions'[s].by \in DOMAIN otps' /\ otps'[sessions'[s].by].wins > 0
          /\ sessions'[s].user = otps'[sessions'[s].by].user
    BY <1>2, <2>1 DEF CarriedOnce
  <2>9. \A s, t \in DOMAIN sessions' :
          sessions'[s].by # 0 /\ sessions'[s].by = sessions'[t].by => s = t
    BY <2>1 DEF CarriedOnce
  <2> QED
    BY <2>3, <2>5, <2>6, <2>7, <2>8, <2>9 DEF CarriedOnce, Carries
<1>5. ASSUME NEW p \in Handlers, CreateSession(p)
      PROVE  CarriedOnce'
  <2> DEFINE n == Len(sessions) + 1
  <2>1. /\ pc[p] = "session" /\ Finish(p) /\ UNCHANGED otps
        /\ DOMAIN sessions' = DOMAIN sessions \cup {n} /\ n \notin DOMAIN sessions
        /\ \A s \in DOMAIN sessions : sessions'[s] = sessions[s]
        /\ sessions'[n].user = req[p].user /\ sessions'[n].by = req[p].id
    BY <1>0, <1>5, Opened
  <2> HIDE DEF n
  <2>2. /\ pc'[p] = "idle"
        /\ \A q \in Handlers : q # p => pc'[q] = pc[q] /\ req'[q] = req[q]
    BY <1>0, <2>1 DEF Finish
  <2>3. \A q \in Handlers : pc'[q] = "session" /\ req'[q].id # 0 =>
          /\ q # p /\ Carries(q) /\ req'[q] = req[q]
    BY <2>2 DEF Carries
  <2>4. req[p].id # 0 => /\ Carries(p)
                         /\ \A s \in DOMAIN sessions : sessions[s].by # req[p].id
                         /\ \A q \in Handlers : Carries(q) /\ req[q].id = req[p].id => q = p
                         /\ req[p].id \in DOMAIN otps /\ otps[req[p].id].wins > 0
                         /\ req[p].user = otps[req[p].id].user
    BY <2>1 DEF Carries, CarriedOnce
  <2>5. \A q \in Handlers : pc'[q] = "session" /\ req'[q].id # 0 =>
          /\ req'[q].id \in DOMAIN otps' /\ otps'[req'[q].id].wins > 0
          /\ req'[q].user = otps'[req'[q].id].user
          /\ \A s \in DOMAIN sessions' : sessions'[s].by # req'[q].id
          /\ \A o \in Handlers : pc'[o] = "session" /\ req'[o].id # 0 /\ req'[o].id = req'[q].id => o = q
    BY <2>1, <2>3, <2>4 DEF CarriedOnce, Carries
  <2>6. \A s \in DOMAIN sessions' : sessions'[s].by # 0 =>
          /\ sessions'[s].by \in DOMAIN otps' /\ otps'[sessions'[s].by].wins > 0
          /\ sessions'[s].user = otps'[sessions'[s].by].user
    BY <2>1, <2>4 DEF CarriedOnce
  <2>7. \A s, t \in DOMAIN sessions' :
          sessions'[s].by # 0 /\ sessions'[s].by = sessions'[t].by => s = t
    BY <2>1, <2>4 DEF CarriedOnce
  <2> QED
    BY <2>5, <2>6, <2>7 DEF CarriedOnce, Carries
<1>6. ASSUME NEW p \in Handlers, NEW stage \in Stages, NEW r \in Request, Moves(p, stage, r)
      PROVE  NothingPickedUp \/ (stage = "session" /\ LoginCodeAccepted(r))
  <2>1. CASE stage = "session" /\ r.id # 0
    BY <1>6, <2>1 DEF Moves
  <2>2. CASE stage # "session" \/ r.id = 0
    <3>1. /\ pc'[p] = stage /\ req'[p] = r
          /\ \A q \in Handlers : q # p => pc'[q] = pc[q] /\ req'[q] = req[q]
      BY <1>0, <1>6 DEF Moves
    <3> QED
      BY <2>2, <3>1 DEF NothingPickedUp, Carries
  <2> QED
    BY <2>1, <2>2
<1>7. CASE UNCHANGED <<pc, req>>
  BY <1>3, <1>5, <1>7, <1>0, SessionSteps DEF NothingPickedUp, Carries
<1>8. ASSUME NEW p \in Handlers, NEW stage \in Stages, NEW r \in Request, Moves(p, stage, r)
      PROVE  CarriedOnce'
  BY <1>0, <1>3, <1>4, <1>5, <1>6, <1>8, SessionSteps DEF Moves
<1> QED
  BY <1>1, <1>7, <1>8 DEF RequestMoves

\* A code or a link has its effect once, and a login code opens one session, of the user
\* it was sent to, whatever crashes or overlaps between its use and the session.
THEOREM CodesAreUsedOnce == Spec => []UsedOnce
<1>1. Init => CarriedOnce
  BY DEF Init, CarriedOnce, Carries
<1>2. IInv /\ CarriedOnce => UsedOnce
  BY DEF IInv, LoginCodes, ChangeCodes, Links, Sound, CarriedOnce, UsedOnce
<1> QED
  BY <1>1, <1>2, CarriedStep, InductiveInvariant, PTL DEF Spec


-----------------------------------------------------------------------------
(* Recovery codes.                                                         *)

\* Codes may be withdrawn, and nothing else happens to them.
CodesWithdrawn ==
    UNCHANGED spent /\ \A u \in Users : users'[u].recovery \subseteq users[u].recovery

LEMMA RecoverySteps ==
    ASSUME IInv, [Next]_vars
    PROVE  \/ CodesWithdrawn
           \/ \E p \in Handlers : EnableTOTP(p) \/ BurnRecoveryCode(p)
<1>0. users \in [Users -> Account] /\ Requests /\ ChangeCodes
  BY DEF IInv
<1>1. CASE UNCHANGED <<users, spent>>
  BY <1>1 DEF CodesWithdrawn
<1>2. ASSUME NEW u \in Users, NEW account, users' = [users EXCEPT ![u] = account], UNCHANGED spent,
             account.recovery \subseteq users[u].recovery
      PROVE  CodesWithdrawn
  BY <1>0, <1>2 DEF CodesWithdrawn
<1>3. \A p \in Handlers : pc[p] = "account" => req[p].user \in Users /\ users[req[p].user] \in Account
  BY <1>0, RequestFields
<1>4. ASSUME NEW p \in Handlers, DisableTOTP(p) PROVE CodesWithdrawn
  <2>1. PICK account : /\ account = [users[req[p].user] EXCEPT !.totp = FALSE, !.recovery = {}]
                       /\ users' = [users EXCEPT ![req[p].user] = account]
                       /\ pc[p] = "account" /\ UNCHANGED spent
    BY <1>4 DEF DisableTOTP, Edit
  <2>2. account.recovery = {}
    BY <1>3, <2>1 DEF Account
  <2> QED
    BY <1>2, <1>3, <2>1, <2>2
<1>5. ASSUME NEW p \in Handlers, NEW on, SetEmailOTP(p, on) PROVE CodesWithdrawn
  <2>1. PICK account : /\ account = [users[req[p].user] EXCEPT !.otp = on]
                       /\ users' = [users EXCEPT ![req[p].user] = account]
                       /\ pc[p] = "account" /\ UNCHANGED spent
    BY <1>5 DEF SetEmailOTP, Edit
  <2>2. account.recovery = users[req[p].user].recovery
    BY <1>3, <2>1 DEF Account
  <2> QED
    BY <1>2, <1>3, <2>1, <2>2
<1>6. ASSUME NEW p \in Handlers, NEW u \in Users, NEW e, NEW on, UpdateUser(p, u, e, on) PROVE CodesWithdrawn
  <2>1. users' = [users EXCEPT ![u].email = e, ![u].enabled = on] /\ UNCHANGED spent
    BY <1>6 DEF UpdateUser
  <2>2. PICK account : account = [users[u] EXCEPT !.email = e, !.enabled = on]
    OBVIOUS
  <2>3. users' = [users EXCEPT ![u] = account]
    BY <2>1, <2>2
  <2>4. account.recovery = users[u].recovery
    BY <1>0, <2>2 DEF Account
  <2> QED
    BY <1>2, <2>1, <2>3, <2>4
<1>7. ASSUME NEW p \in Handlers, UseEmailChangeOTP(p) PROVE CodesWithdrawn
  <2>1. PICK i \in DOMAIN changes : EmailChangeTried(req[p].user, i)
    BY <1>0, <1>7, EmailChange
  <2>2. pc[p] = "account" /\ UNCHANGED spent
    BY <1>7, EmailChangeSteps
  <2>3. CASE UNCHANGED users
    BY <2>2, <2>3 DEF CodesWithdrawn
  <2>4. CASE users' = [users EXCEPT ![req[p].user].email = changes[i].email]
    <3>1. PICK account : /\ account = [users[req[p].user] EXCEPT !.email = changes[i].email]
                         /\ users' = [users EXCEPT ![req[p].user] = account]
      BY <2>4
    <3>2. account.recovery = users[req[p].user].recovery
      BY <1>3, <2>2, <3>1 DEF Account
    <3> QED
      BY <1>2, <1>3, <2>2, <3>1, <3>2
  <2> QED
    BY <2>1, <2>3, <2>4 DEF EmailChangeTried
<1> QED
  BY <1>1, <1>4, <1>5, <1>6, <1>7, AccountSteps

\* Nobody begins to burn a code.
NobodyBegins ==
    \A q \in Handlers : pc'[q] = "burn" => Burning(q) /\ req'[q] = req[q]

LEMMA BurnersStep ==
    ASSUME IInv, [Next]_vars
    PROVE  \/ NobodyBegins
           \/ \E p \in Handlers, r \in Request : Moves(p, "burn", r)
<1>0. pc \in [Handlers -> Stages] /\ req \in [Handlers -> Request]
  BY DEF IInv, Requests
<1>1. CASE UNCHANGED <<pc, req>>
  BY <1>1 DEF NobodyBegins, Burning
<1>2. ASSUME NEW p \in Handlers, NEW stage \in Stages, NEW r \in Request, Moves(p, stage, r), stage # "burn"
      PROVE  NobodyBegins
  BY <1>0, <1>2 DEF Moves, NobodyBegins, Burning
<1> QED
  BY <1>1, <1>2, RequestSteps DEF IInv, RequestMoves

LEMMA AccountedStep ==
    ASSUME IInv, CodesAccounted, [Next]_vars
    PROVE  CodesAccounted'
<1>0. /\ users \in [Users -> Account] /\ spent \in Seq(RecoveryCode) /\ Requests
      /\ pc \in [Handlers -> Stages] /\ req \in [Handlers -> Request]
  BY DEF IInv, Requests
<1>1. ASSUME NobodyBegins, CodesWithdrawn PROVE CodesAccounted'
  BY <1>1 DEF NobodyBegins, CodesWithdrawn, CodesAccounted, Burning, Available, ReadCodes
<1>2. ASSUME NEW p \in Handlers, EnableTOTP(p), NobodyBegins PROVE CodesAccounted'
  <2> DEFINE u == req[p].user
  <2>1. /\ DOMAIN spent \subseteq DOMAIN spent'
        /\ \A c \in DOMAIN spent : spent'[c] = spent[c]
        /\ \A c \in DOMAIN spent' : c \notin DOMAIN spent => spent'[c].times = 0 /\ spent'[c].late = 0
        /\ \A c \in users'[u].recovery : c \in DOMAIN spent' /\ c \notin DOMAIN spent
        /\ \A v \in Users : v # u => users'[v] = users[v]
    BY <1>0, <1>2, Enrolled
  <2> HIDE DEF u
  <2>2. \A v \in Users : \A c \in users'[v].recovery : c \in DOMAIN spent' /\ spent'[c].times <= spent'[c].late
    BY <2>1 DEF CodesAccounted, Available
  <2>3. \A v, w \in Users : v # w => users'[v].recovery \cap users'[w].recovery = {}
    BY <2>1 DEF CodesAccounted, Available
  <2>4. \A c \in DOMAIN spent' : spent'[c].times <= 1 + spent'[c].late
    BY <2>1 DEF CodesAccounted
  <2>5. \A q \in Handlers : pc'[q] = "burn" =>
          /\ req'[q].id \notin req'[q].rest
          /\ req'[q].rest \cup {req'[q].id} \subseteq DOMAIN spent'
          /\ \A v \in Users \ {req'[q].user} : (req'[q].rest \cup {req'[q].id}) \cap users'[v].recovery = {}
    BY <1>2, <2>1 DEF NobodyBegins, CodesAccounted, ReadCodes
  <2>6. \A q, o \in Handlers :
          pc'[q] = "burn" /\ pc'[o] = "burn" /\ req'[q].user # req'[o].user
          => (req'[q].rest \cup {req'[q].id}) \cap (req'[o].rest \cup {req'[o].id}) = {}
    BY <1>2 DEF NobodyBegins, CodesAccounted, ReadCodes
  <2> QED
    BY <2>2, <2>3, <2>4, <2>5, <2>6 DEF CodesAccounted, Burning, Available, ReadCodes
<1>3. ASSUME NEW p \in Handlers, BurnRecoveryCode(p), NobodyBegins PROVE CodesAccounted'
  <2>0. PICK u, c, rest : u = req[p].user /\ c = req[p].id /\ rest = req[p].rest
    OBVIOUS
  <2>1. /\ pc[p] = "burn" /\ u \in Users
        /\ users'[u].recovery = rest
        /\ \A v \in Users : v # u => users'[v] = users[v]
        /\ DOMAIN spent' = DOMAIN spent
        /\ \A k \in DOMAIN spent : WrittenBack(u, c, rest, k)
    BY <1>0, <1>3, <2>0, Burnt
  <2>2. /\ c \notin rest /\ rest \cup {c} \subseteq DOMAIN spent
        /\ \A v \in Users \ {u} : (rest \cup {c}) \cap users[v].recovery = {}
    BY <2>0, <2>1 DEF CodesAccounted, Burning, ReadCodes
  <2>3. \A k \in DOMAIN spent : spent[k].times \in Nat /\ spent[k].late \in Nat
    BY <1>0, HistoryTypes
  <2>4. \A k \in DOMAIN spent' : spent'[k].times <= 1 + spent'[k].late
    <3>1. ASSUME NEW k \in DOMAIN spent PROVE spent'[k].times <= 1 + spent'[k].late
      <4>1. spent[k].times <= 1 + spent[k].late
        BY DEF CodesAccounted
      <4>2. CASE k = c /\ k \in users[u].recovery
        <5>1. spent[k].times <= spent[k].late
          BY <2>1, <4>2 DEF CodesAccounted, Available
        <5>2. spent'[k].times = spent[k].times + 1 /\ spent'[k].late = spent[k].late
          BY <2>1, <2>3, <4>2 DEF WrittenBack, Late
        <5> QED
          BY <2>3, <5>1, <5>2
      <4>3. CASE k = c /\ k \notin users[u].recovery
        <5>1. spent'[k].times = spent[k].times + 1 /\ spent'[k].late = spent[k].late + 1
          BY <2>1, <4>3 DEF WrittenBack, Late
        <5> QED
          BY <2>3, <4>1, <5>1
      <4>4. CASE k # c
        <5>1. spent'[k].times = spent[k].times /\ spent'[k].late >= spent[k].late /\ spent'[k].late \in Nat
          BY <2>1, <2>3, <4>4 DEF WrittenBack
        <5> QED
          BY <2>3, <4>1, <5>1
      <4> QED
        BY <4>2, <4>3, <4>4
    <3> QED
      BY <2>1, <3>1
  <2>5. \A k \in rest : k \in DOMAIN spent' /\ spent'[k].times <= spent'[k].late
    <3>1. ASSUME NEW k \in rest PROVE k \in DOMAIN spent' /\ spent'[k].times <= spent'[k].late
      <4>1. k \in DOMAIN spent /\ k # c /\ spent[k].times <= 1 + spent[k].late
        BY <2>2 DEF CodesAccounted
      <4>2. spent'[k].times = spent[k].times
        BY <2>1, <2>3, <4>1 DEF WrittenBack
      <4>3. CASE k \in users[u].recovery
        <5>1. spent[k].times <= spent[k].late
          BY <2>1, <4>3 DEF CodesAccounted, Available
        <5>2. spent'[k].late = spent[k].late
          BY <2>1, <2>3, <4>1, <4>3 DEF WrittenBack, Late
        <5> QED
          BY <2>1, <4>1, <4>2, <5>1, <5>2
      <4>4. CASE k \notin users[u].recovery
        <5>1. spent'[k].late = spent[k].late + 1
          BY <2>1, <4>1, <4>4 DEF WrittenBack, Late
        <5> QED
          BY <2>1, <2>3, <4>1, <4>2, <5>1
      <4> QED
        BY <4>3, <4>4
    <3> QED
      BY <3>1
  <2>6. \A v \in Users : \A k \in users'[v].recovery : k \in DOMAIN spent' /\ spent'[k].times <= spent'[k].late
    <3>1. ASSUME NEW v \in Users, NEW k \in users'[v].recovery, v # u
          PROVE  k \in DOMAIN spent' /\ spent'[k].times <= spent'[k].late
      <4>1. k \in users[v].recovery /\ k \notin rest \cup {c} /\ k \in DOMAIN spent /\ spent[k].times <= spent[k].late
        BY <2>1, <2>2, <3>1 DEF CodesAccounted, Available
      <4>2. spent'[k].times = spent[k].times /\ spent'[k].late = spent[k].late
        BY <2>1, <2>3, <4>1 DEF WrittenBack, Late
      <4> QED
        BY <2>1, <4>1, <4>2
    <3> QED
      BY <2>1, <2>5, <3>1
  <2>7. \A v, w \in Users : v # w => users'[v].recovery \cap users'[w].recovery = {}
    BY <2>1, <2>2 DEF CodesAccounted
  <2>8. \A q \in Handlers : pc'[q] = "burn" =>
          /\ req'[q].id \notin req'[q].rest
          /\ req'[q].rest \cup {req'[q].id} \subseteq DOMAIN spent'
          /\ \A v \in Users \ {req'[q].user} : (req'[q].rest \cup {req'[q].id}) \cap users'[v].recovery = {}
    <3>1. ASSUME NEW q \in Handlers, pc'[q] = "burn"
          PROVE  /\ req'[q].id \notin req'[q].rest
                 /\ req'[q].rest \cup {req'[q].id} \subseteq DOMAIN spent'
                 /\ \A v \in Users \ {req'[q].user} : (req'[q].rest \cup {req'[q].id}) \cap users'[v].recovery = {}
      <4>1. Burning(q) /\ req'[q] = req[q]
        BY <1>3, <3>1 DEF NobodyBegins
      <4>2. req[q].user # u => ReadCodes(q) \cap rest = {}
        BY <2>0, <2>1, <4>1 DEF CodesAccounted, Burning, ReadCodes
      <4> QED
        BY <2>1, <4>1, <4>2 DEF CodesAccounted, ReadCodes
    <3> QED
      BY <3>1
  <2>9. \A q, o \in Handlers :
          pc'[q] = "burn" /\ pc'[o] = "burn" /\ req'[q].user # req'[o].user
          => (req'[q].rest \cup {req'[q].id}) \cap (req'[o].rest \cup {req'[o].id}) = {}
    BY <1>3 DEF NobodyBegins, CodesAccounted, ReadCodes
  <2> QED
    BY <2>4, <2>6, <2>7, <2>8, <2>9 DEF CodesAccounted, Burning, Available, ReadCodes
<1>4. ASSUME NEW p \in Handlers, NEW r \in Request, Moves(p, "burn", r) PROVE CodesAccounted'
  <2>1. /\ pc' = [pc EXCEPT ![p] = "burn"] /\ req' = [req EXCEPT ![p] = r]
        /\ r.user \in Users /\ RecoveryMatched(p, r) /\ UNCHANGED <<users, spent>>
    BY <1>4 DEF Moves
  <2>2. \A q \in Handlers : q # p /\ pc'[q] = "burn" => Burning(q) /\ req'[q] = req[q]
    BY <1>0, <2>1 DEF Burning
  <2>3. /\ r.id \in users[r.user].recovery /\ r.rest = users[r.user].recovery \ {r.id}
        /\ req'[p] = r /\ r.rest \cup {r.id} = users[r.user].recovery
    BY <1>0, <2>1 DEF RecoveryMatched
  <2>4. \A q \in Handlers : pc'[q] = "burn" =>
          /\ req'[q].id \notin req'[q].rest
          /\ req'[q].rest \cup {req'[q].id} \subseteq DOMAIN spent'
          /\ \A v \in Users \ {req'[q].user} : (req'[q].rest \cup {req'[q].id}) \cap users'[v].recovery = {}
    <3>1. /\ r.id \notin r.rest /\ r.rest \cup {r.id} \subseteq DOMAIN spent
          /\ \A v \in Users \ {r.user} : (r.rest \cup {r.id}) \cap users[v].recovery = {}
      BY <2>1, <2>3 DEF CodesAccounted, Available
    <3> QED
      BY <2>1, <2>2, <2>3, <3>1 DEF CodesAccounted, ReadCodes
  <2>5. \A q \in Handlers : q # p /\ pc'[q] = "burn" /\ req'[q].user # r.user
          => (req'[q].rest \cup {req'[q].id}) \cap (r.rest \cup {r.id}) = {}
    BY <2>1, <2>2, <2>3 DEF CodesAccounted, ReadCodes
  <2>6. \A q, o \in Handlers :
          pc'[q] = "burn" /\ pc'[o] = "burn" /\ req'[q].user # req'[o].user
          => (req'[q].rest \cup {req'[q].id}) \cap (req'[o].rest \cup {req'[o].id}) = {}
    BY <2>2, <2>3, <2>5 DEF CodesAccounted, ReadCodes
  <2>7. UNCHANGED <<users, spent>>
    BY <2>1
  <2> QED
    BY <2>4, <2>6, <2>7 DEF CodesAccounted, Burning, Available, ReadCodes
<1> QED
  BY <1>1, <1>2, <1>3, <1>4, RecoverySteps, BurnersStep

\* However many requests use recovery codes together, a recovery code opens the way in
\* once, and once more for each write of a list older than the last change of the code.
THEOREM RecoveryCodesAccounted == Spec => []CodesReusedOnlyByLateWrites
<1>1. Init => CodesAccounted
  BY DEF Init, CodesAccounted, Burning
<1>2. IInv /\ CodesAccounted /\ [Next]_vars => CodesAccounted'
  BY AccountedStep
<1>3. CodesAccounted => CodesReusedOnlyByLateWrites
  BY DEF CodesAccounted, CodesReusedOnlyByLateWrites, Available
<1> QED
  BY <1>1, <1>2, <1>3, InductiveInvariant, PTL DEF Spec
=============================================================================
