--------------------------------- MODULE SignIn ---------------------------------
(***************************************************************************)
(* Accounts: sign-in with a password and a second factor, the one-time     *)
(* codes and links that are mailed out, email changes, password resets and *)
(* sessions (internal/platform/http/server.go, internal/db/sqlite/store.go)*)
(* with TOCKR_TOTP_MODE=optional.                                          *)
(*                                                                         *)
(* As in TimeEntries a request is a sequence of statements that other      *)
(* requests interleave with; a transaction of the code is one step here,   *)
(* because it holds the only pooled connection. A password is right or     *)
(* wrong, which only decides whether a request goes on.                    *)
(***************************************************************************)
EXTENDS Integers, Sequences, FiniteSets, FiniteSetsExt

CONSTANTS
    Users,          \* the accounts
    NoUser,
    Admins,         \* those who may edit accounts
    Emails,         \* addresses accounts can have
    NoEmail,
    FirstEmail,     \* the address each account begins with
    Handlers,       \* requests that can be in progress together
    EmailOTPUsers,  \* the accounts that begin with codes by mail
    MaxAttempts,    \* 5: attempts at a code
    CodesPerUser,   \* 8: recovery codes of one enrolment
    MaxRecovery,    \* bound: recovery codes ever issued
    MaxRows,        \* bound: codes, links and sessions ever created
    MaxEdits        \* bound: changes of factors and accounts

ASSUME AccountAssumption ==
    /\ Admins \subseteq Users /\ Users # {}
    /\ FirstEmail \in [Users -> Emails]
    /\ \A u, v \in Users : FirstEmail[u] = FirstEmail[v] => u = v
ASSUME NobodyAssumption == NoUser \notin Users /\ NoEmail \notin Emails
ASSUME SecondFactorAssumption == EmailOTPUsers \subseteq Users
ASSUME CountAssumption ==
    /\ MaxAttempts \in Nat \ {0} /\ CodesPerUser \in Nat
    /\ MaxRecovery \in Nat /\ MaxRows \in Nat /\ MaxEdits \in Nat

VARIABLES
    users,      \* table users
    otps,       \* table login_otps
    changes,    \* table email_change_otps
    tokens,     \* table password_reset_tokens
    sessions,   \* table sessions
    spent,      \* what became of each recovery code ever issued
    edits,      \* changes of factors and accounts so far
    pc,         \* where each handler is
    req         \* what each handler remembers of its request

codes == <<otps, changes, tokens>>
work  == <<pc, req>>
vars  == <<users, codes, sessions, spent, edits, work>>

Account == [email : Emails, enabled : BOOLEAN, totp : BOOLEAN, otp : BOOLEAN,
            recovery : SUBSET (1..MaxRecovery)]

\* A row of one of the three tables of codes, with what really happened to it: the
\* wrong codes it was compared with, its successful uses, and how many codes of the
\* user had been used when it was made. No statement tells a login code or a link that
\* has expired from a used one; an expired email change still hides an older one.
Code == [user : Users, email : Emails \cup {NoEmail}, attempts : Nat, used : BOOLEAN,
         expired : BOOLEAN, wrong : Nat, wins : Nat, born : Nat]

\* A session, the login code that opened it (0 for none), and how often the password
\* of its user had been reset when it was made.
Session == [user : Users, by : Nat, era : Nat, open : BOOLEAN]

\* How often a recovery code has opened the way in, and how often a request wrote its
\* list back too late for this code: it used the code, or put it back on the list, when
\* the account did not have the code any more.
RecoveryCode == [times : Nat, late : Nat]

Request == [user : Users \cup {NoUser}, email : Emails \cup {NoEmail}, id : Nat, rest : SUBSET (1..MaxRecovery)]

NoRequest == [user |-> NoUser, email |-> NoEmail, id |-> 0, rest |-> {}]

Init ==
    /\ users = [u \in Users |-> [email |-> FirstEmail[u], enabled |-> TRUE, totp |-> FALSE,
                                 otp |-> u \in EmailOTPUsers, recovery |-> {}]]
    /\ otps = << >> /\ changes = << >> /\ tokens = << >>
    /\ sessions = << >>
    /\ spent = << >> /\ edits = 0
    /\ pc = [p \in Handlers |-> "idle"]
    /\ req = [p \in Handlers |-> NoRequest]

-----------------------------------------------------------------------------
(* Tables and requests.                                                    *)

Room == Len(otps) + Len(changes) + Len(tokens) + Len(sessions) < MaxRows

Won(table, u) == {i \in DOMAIN table : table[i].user = u /\ table[i].wins > 0}

NewCode(table, u, email) ==
    Append(table, [user |-> u, email |-> email, attempts |-> 0, used |-> FALSE,
                   expired |-> FALSE, wrong |-> 0, wins |-> 0,
                   born |-> Cardinality(Won(table, u))])

Retire(table, i) == [table EXCEPT ![i].used = TRUE]

\* A code that is right is used up, and with it every code of the user still pending.
AcceptOneOfMany(table, i) ==
    [table EXCEPT ![i] = [@ EXCEPT !.used = TRUE, !.attempts = @ + 1, !.wins = @ + 1]]
AcceptUnmarked(table, i) ==
    [j \in DOMAIN table |->
        IF j = i THEN [table[j] EXCEPT !.attempts = @ + 1, !.wins = @ + 1]
        ELSE IF table[j].user = table[i].user THEN [table[j] EXCEPT !.used = TRUE]
        ELSE table[j]]
Accept(table, i) ==
    [j \in DOMAIN table |->
        IF j = i
        THEN [table[j] EXCEPT !.used = TRUE, !.attempts = @ + 1, !.wins = @ + 1]
        ELSE IF table[j].user = table[i].user THEN [table[j] EXCEPT !.used = TRUE]
        ELSE table[j]]

Goto(p, stage) == pc' = [pc EXCEPT ![p] = stage]

Finish(p) ==
    /\ pc' = [pc EXCEPT ![p] = "idle"]
    /\ req' = [req EXCEPT ![p] = NoRequest]

-----------------------------------------------------------------------------
(* Signing in.                                                             *)

\* The password was right. What the account asks for besides is read here and acted
\* upon later; "recover" is where a wrong code of the authenticator leads.
Login(p, u) ==
    /\ pc[p] = "idle" /\ users[u].enabled
    /\ req' = [req EXCEPT ![p] = [NoRequest EXCEPT !.user = u]]
    /\ \/ users[u].totp /\ Goto(p, "recover")
       \/ ~users[u].totp /\ users[u].otp /\ Goto(p, "code")
       \/ Goto(p, "session")   \* no second factor, a right one, or no mail to send it with
    /\ UNCHANGED <<users, codes, sessions, spent, edits>>

\* UseRecoveryCode reads the list, which other requests may read as well ...
MatchRecoveryCode(p) ==
    /\ pc[p] = "recover"
    /\ \/ Finish(p)
       \/ /\ \E c \in users[req[p].user].recovery :
               req' = [req EXCEPT ![p].id = c,
                                  ![p].rest = users[req[p].user].recovery \ {c}]
          /\ Goto(p, "burn")
    /\ UNCHANGED <<users, codes, sessions, spent, edits>>

\* ... and writes the rest of it back, whatever the list has become.
KeptAll(u, rest) == users
Kept(u, rest) == [users EXCEPT ![u].recovery = rest]
Late(u, c, rest, k) == k \in rest \cup {c} /\ k \notin users[u].recovery
Counted(u, c, rest) ==
    [k \in DOMAIN spent |->
        [times |-> spent[k].times + (IF k = c THEN 1 ELSE 0),
         late  |-> spent[k].late + (IF Late(u, c, rest, k) THEN 1 ELSE 0)]]
BurnRecoveryCode(p) ==
    /\ pc[p] = "burn"
    /\ users' = Kept(req[p].user, req[p].rest)
    /\ spent' = Counted(req[p].user, req[p].id, req[p].rest)
    /\ Goto(p, "session")
    /\ req' = [req EXCEPT ![p].id = 0, ![p].rest = {}]
    /\ UNCHANGED <<codes, sessions, edits>>

\* The row stays even when the mail with the code cannot be sent.
CreateLoginOTP(p) ==
    /\ pc[p] = "code" /\ Room
    /\ otps' = NewCode(otps, req[p].user, NoEmail)
    /\ Finish(p)
    /\ UNCHANGED <<users, changes, tokens, sessions, spent, edits>>

\* An attempt with a wrong code, and one after the last: the code is looked at no more.
WrongUncounted(i) == [otps EXCEPT ![i].wrong = @ + 1]
Wrong(i)          == [otps EXCEPT ![i].attempts = @ + 1, ![i].wrong = @ + 1]
ExhaustedPending(i) == [otps EXCEPT ![i].attempts = @ + 1]
Exhausted(i)        == Retire([otps EXCEPT ![i].attempts = @ + 1], i)

\* The cookie names the row; a code that is used or has expired changes nothing.
UseLoginOTP(p, i) ==
    /\ pc[p] = "idle"
    /\ ~otps[i].used
    /\ \/ /\ otps[i].attempts >= MaxAttempts
          /\ otps' = Exhausted(i)
          /\ UNCHANGED work
       \/ /\ otps[i].attempts < MaxAttempts
          /\ otps' = Wrong(i)
          /\ UNCHANGED work
       \/ /\ otps[i].attempts < MaxAttempts
          /\ otps' = Accept(otps, i)
          /\ Goto(p, "session")
          /\ req' = [req EXCEPT ![p] = [NoRequest EXCEPT !.user = otps[i].user, !.id = i]]
    /\ UNCHANGED <<users, changes, tokens, sessions, spent, edits>>

CreateSession(p) ==
    /\ pc[p] = "session" /\ Room
    /\ sessions' = Append(sessions, [user |-> req[p].user, by |-> req[p].id, open |-> TRUE,
                                     era |-> Cardinality(Won(tokens, req[p].user))])
    /\ Finish(p)
    /\ UNCHANGED <<users, codes, spent, edits>>

-----------------------------------------------------------------------------
(* Resetting a password.                                                   *)

ForgotPassword(p, u) ==
    /\ pc[p] = "idle" /\ users[u].enabled
    /\ req' = [req EXCEPT ![p] = [NoRequest EXCEPT !.user = u]]
    /\ Goto(p, "token")
    /\ UNCHANGED <<users, codes, sessions, spent, edits>>

CreatePasswordResetToken(p) ==
    /\ pc[p] = "token" /\ Room
    /\ tokens' = NewCode(tokens, req[p].user, NoEmail)
    /\ Finish(p)
    /\ UNCHANGED <<users, otps, changes, sessions, spent, edits>>

LeaveSessions(u) == sessions
CloseSessions(u) ==
    [s \in DOMAIN sessions |->
        IF sessions[s].user = u THEN [sessions[s] EXCEPT !.open = FALSE] ELSE sessions[s]]

\* Other links of the user stay valid.
ResetPasswordWithToken(p, i) ==
    /\ pc[p] = "idle" /\ ~tokens[i].used
    /\ tokens' = [Retire(tokens, i) EXCEPT ![i].wins = @ + 1]
    /\ sessions' = CloseSessions(tokens[i].user)
    /\ UNCHANGED <<users, otps, changes, spent, edits, work>>

-----------------------------------------------------------------------------
(* Requests of an account that has signed in.                              *)

\* sessionMiddleware finds the session and the account.
FindSession(p, s) ==
    /\ pc[p] = "idle" /\ sessions[s].open
    /\ req' = [req EXCEPT ![p] = [NoRequest EXCEPT !.id = s, !.user = sessions[s].user,
                                     !.email = users[sessions[s].user].email]]
    /\ Goto(p, "account")
    /\ UNCHANGED <<users, codes, sessions, spent, edits>>

Logout(p) ==
    /\ pc[p] = "account"
    /\ sessions' = [sessions EXCEPT ![req[p].id].open = FALSE]
    /\ Finish(p)
    /\ UNCHANGED <<users, codes, spent, edits>>

\* users.email is UNIQUE.
FreeFor(email, u) == \A v \in Users \ {u} : users[v].email # email

\* The new address has to be free now.
RequestEmailChange(p, email) ==
    /\ pc[p] = "account"
    /\ email # req[p].email
    /\ \A u \in Users : users[u].email # email
    /\ req' = [req EXCEPT ![p].email = email, ![p].id = 0]
    /\ Goto(p, "change")
    /\ UNCHANGED <<users, codes, sessions, spent, edits>>

CreateEmailChangeOTP(p) ==
    /\ pc[p] = "change" /\ Room
    /\ changes' = NewCode(changes, req[p].user, req[p].email)
    /\ Finish(p)
    /\ UNCHANGED <<users, otps, tokens, sessions, spent, edits>>

\* Only the newest pending code of the user counts. If its address was taken in between
\* the transaction fails and is rolled back.
UseEmailChangeOTP(p) ==
    /\ pc[p] = "account"
    /\ LET u       == req[p].user
           pending == {i \in DOMAIN changes : changes[i].user = u /\ ~changes[i].used}
           i       == Max(pending)
           tried   == changes[i].attempts + 1
       IN  /\ pending # {}
           /\ \/ /\ changes[i].expired \/ changes[i].attempts >= MaxAttempts
                 /\ changes' = Retire(changes, i)
                 /\ UNCHANGED users
              \/ /\ ~changes[i].expired /\ changes[i].attempts < MaxAttempts
                 /\ changes' = [changes EXCEPT ![i].attempts = tried, ![i].wrong = @ + 1,
                                               ![i].used = tried >= MaxAttempts]
                 /\ UNCHANGED users
              \/ /\ ~changes[i].expired /\ changes[i].attempts < MaxAttempts
                 /\ FreeFor(changes[i].email, u)
                 /\ users' = [users EXCEPT ![u].email = changes[i].email]
                 /\ changes' = Accept(changes, i)
    /\ Finish(p)
    /\ UNCHANGED <<otps, tokens, sessions, spent, edits>>

Edit(p) == pc[p] = "account" /\ edits < MaxEdits /\ edits' = edits + 1 /\ Finish(p)

\* A new enrolment replaces the recovery codes.
EnableTOTP(p) ==
    /\ Edit(p)
    /\ Len(spent) + CodesPerUser <= MaxRecovery
    /\ spent' = spent \o [c \in 1..CodesPerUser |-> [times |-> 0, late |-> 0]]
    /\ users' = [users EXCEPT ![req[p].user] = [@ EXCEPT !.totp = TRUE,
                    !.recovery = (Len(spent) + 1)..(Len(spent) + CodesPerUser)]]
    /\ UNCHANGED <<codes, sessions>>

DisableTOTP(p) ==
    /\ Edit(p)
    /\ users' = [users EXCEPT ![req[p].user] = [@ EXCEPT !.totp = FALSE, !.recovery = {}]]
    /\ UNCHANGED <<codes, sessions, spent>>

\* EnableEmailOTP and DisableEmailOTP
SetEmailOTP(p, on) ==
    /\ Edit(p)
    /\ users' = [users EXCEPT ![req[p].user].otp = on]
    /\ UNCHANGED <<codes, sessions, spent>>

\* An administrator saves the form of an account; its sessions and codes stay.
UpdateUser(p, u, email, enabled) ==
    /\ Edit(p) /\ req[p].user \in Admins
    /\ FreeFor(email, u)
    /\ users' = [users EXCEPT ![u].email = email, ![u].enabled = enabled]
    /\ UNCHANGED <<codes, sessions, spent>>

-----------------------------------------------------------------------------

\* A cancelled request, a failed statement or mail, or the end of the process.
Abort(p) == pc[p] # "idle" /\ Finish(p) /\ UNCHANGED <<users, codes, sessions, spent, edits>>

\* Ten minutes, half an hour or two weeks pass. FindSession answers, and deletes, an
\* expired session as if it were not there.
Expire ==
    \/ /\ \E i \in DOMAIN otps : ~otps[i].used /\ otps' = Retire(otps, i)
       /\ UNCHANGED <<users, changes, tokens, sessions, spent, edits, work>>
    \/ /\ \E i \in DOMAIN changes : ~changes[i].used /\ ~changes[i].expired
                                   /\ changes' = [changes EXCEPT ![i].expired = TRUE]
       /\ UNCHANGED <<users, otps, tokens, sessions, spent, edits, work>>
    \/ /\ \E i \in DOMAIN tokens : ~tokens[i].used /\ tokens' = Retire(tokens, i)
       /\ UNCHANGED <<users, otps, changes, sessions, spent, edits, work>>
    \/ /\ \E s \in DOMAIN sessions :
            sessions[s].open /\ sessions' = [sessions EXCEPT ![s].open = FALSE]
       /\ UNCHANGED <<users, codes, spent, edits, work>>

Next ==
    \/ Expire
    \/ \E p \in Handlers :
         \/ \E u \in Users : Login(p, u) \/ ForgotPassword(p, u)
         \/ MatchRecoveryCode(p) \/ BurnRecoveryCode(p)
         \/ CreateLoginOTP(p) \/ CreateSession(p) \/ CreatePasswordResetToken(p)
         \/ \E i \in DOMAIN otps : UseLoginOTP(p, i)
         \/ \E i \in DOMAIN tokens : ResetPasswordWithToken(p, i)
         \/ \E s \in DOMAIN sessions : FindSession(p, s)
         \/ \E email \in Emails : RequestEmailChange(p, email)
         \/ CreateEmailChangeOTP(p) \/ UseEmailChangeOTP(p)
         \/ EnableTOTP(p) \/ DisableTOTP(p) \/ Logout(p) \/ Abort(p)
         \/ \E on \in BOOLEAN : SetEmailOTP(p, on)
         \/ \E u \in Users, email \in Emails, on \in BOOLEAN : UpdateUser(p, u, email, on)

Spec == Init /\ [][Next]_vars

-----------------------------------------------------------------------------
(* Properties.                                                             *)

\* The values of the tables and the requests; an attempt is counted once at most
\* beyond the limit.
TypeOK ==
    /\ users \in [Users -> Account]
    /\ otps \in Seq(Code) /\ changes \in Seq(Code) /\ tokens \in Seq(Code)
    /\ \A i \in DOMAIN otps : otps[i].attempts <= MaxAttempts + 1
    /\ \A i \in DOMAIN changes : changes[i].attempts <= MaxAttempts
    /\ sessions \in Seq(Session)
    /\ spent \in Seq(RecoveryCode) /\ edits \in 0..MaxEdits
    /\ pc \in [Handlers -> {"idle", "recover", "burn", "code", "session", "token",
                            "account", "change"}]
    /\ req \in [Handlers -> Request]

\* "It expires in 10 minutes and can be used once": a code or a link has its effect
\* once, and a login code opens one session, of the user it was sent to, whatever
\* crashes or overlaps between its use and the session.
UsedOnce ==
    /\ \A i \in DOMAIN otps : otps[i].wins <= 1
    /\ \A i \in DOMAIN changes : changes[i].wins <= 1
    /\ \A i \in DOMAIN tokens : tokens[i].wins <= 1
    /\ \A s, t \in DOMAIN sessions :
         sessions[s].by # 0 /\ sessions[s].by = sessions[t].by => s = t
    /\ \A s \in DOMAIN sessions :
         sessions[s].by # 0 => sessions[s].user = otps[sessions[s].by].user

\* A code is compared with MaxAttempts wrong ones at most, and is not accepted after
\* that: UseLoginOTP and UseEmailChangeOTP count in different ways.
WrongGuessesBounded ==
    \A table \in {otps, changes} : \A i \in DOMAIN table :
        /\ table[i].wrong <= MaxAttempts
        /\ table[i].wins > 0 => table[i].wrong < MaxAttempts

\* Of the codes of a user that were pending together one is accepted at most, however
\* many were sent and tried in between.
OnePendingCodeWins ==
    \A table \in {otps, changes} : \A i, j \in DOMAIN table :
        /\ table[i].user = table[j].user
        /\ table[i].wins > 0 /\ table[j].wins > 0
        /\ table[i].born = table[j].born
        => i = j

\* A reset ends every session its user had: the open ones were made after the last
\* reset of the password.
NoSessionOutlivesReset ==
    \A s \in DOMAIN sessions :
        sessions[s].open => sessions[s].era = Cardinality(Won(tokens, sessions[s].user))

\* Any number of requests may use recovery codes together. A recovery code opens the way
\* in once, and once more for each time a request wrote back a list that was older than
\* the last change of this code: nothing else brings a used code back, no new enrolment,
\* login or failure in between. A code an account still has is not used up.
CodesReusedOnlyByLateWrites ==
    /\ \A c \in DOMAIN spent : spent[c].times <= 1 + spent[c].late
    /\ \A u \in Users : \A c \in users[u].recovery : spent[c].times <= spent[c].late
=============================================================================
