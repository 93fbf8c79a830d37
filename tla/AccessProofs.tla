---------------------------- MODULE AccessProofs ----------------------------
(***************************************************************************)
(* Proofs about access: what a logout, a new password or a deactivation    *)
(* ended stays ended, only the operator changes passwords, and guesses are *)
(* limited, for any number of accounts, calls and starts of the process.   *)
(***************************************************************************)
EXTENDS Access, FiniteSetTheorems, SequenceTheorems, TLAPS

(* The version of an account counts the endings of its sessions, unless a  *)
(* command has overwritten it.                                             *)
UserOK(u) ==
    IF users[u].exists THEN u \notin lost => users[u].version = endings[u] + 1
    ELSE endings[u] = 0

TokenOK(token) == token.user \notin lost => token.version = token.born + 1

(* What a call has read is a row and the endings of one moment; who ends   *)
(* sessions has an account before it.                                      *)
CallOK(c, k) ==
    /\ k.at \in {"empty", "select"} => KindOf[c] \notin Commands
    /\ k.at = "principal" => k.seen.exists /\ users[UserOf[c]].exists
    /\ k.at = "read" /\ KindOf[c] \in Commands => users[UserOf[c]].exists
    /\ k.at \in {"read", "principal"} /\ k.seen.exists /\ UserOf[c] \notin lost =>
          k.seen.version = k.born + 1

AccessInv ==
    /\ now \in 1..MaxNow
    /\ users \in [Users -> Row]
    /\ endings \in [Users -> Nat]
    /\ lost \subseteq Users
    /\ tokens \subseteq Token
    /\ call \in [Calls -> Call]
    /\ \A u \in Users : UserOK(u)
    /\ \A token \in tokens : TokenOK(token)
    /\ \A c \in Calls : CallOK(c, call[c])

LEMMA RowsAreRows == NewRow \in Row /\ NoRow \in Row /\ NewRow.exists /\ NewRow.version = 1
  BY AccessAssumption DEF NewRow, NoRow, Row

-----------------------------------------------------------------------------
(* Steps that leave the accounts alone.                                    *)

LEMMA CallsMove ==
    ASSUME AccessInv, UNCHANGED <<users, endings, lost>>, now' \in 1..MaxNow,
           tokens' \subseteq Token, \A token \in tokens' : TokenOK(token),
           call' \in [Calls -> Call], \A c \in Calls : CallOK(c, call'[c])
    PROVE  AccessInv'
  BY DEF AccessInv, UserOK, TokenOK, CallOK

LEMMA OneCallMoves ==
    ASSUME AccessInv, UNCHANGED <<users, endings, lost, tokens, now>>,
           NEW c \in Calls, NEW k \in Call, CallOK(c, k), call' = [call EXCEPT ![c] = k]
    PROVE  AccessInv'
  <1>1. call' \in [Calls -> Call]
    BY DEF AccessInv
  <1>2. \A d \in Calls : CallOK(d, call'[d])
    BY DEF AccessInv
  <1> QED
    BY <1>1, <1>2, CallsMove DEF AccessInv

Quiet == {"new", "checked", "empty", "select", "done"}

LEMMA GotoIsAMove ==
    ASSUME AccessInv, NEW c \in Calls, NEW where \in Quiet, Goto(c, where)
    PROVE  \E k \in Call : /\ k.at = where /\ k = [call[c] EXCEPT !.at = where]
                           /\ call' = [call EXCEPT ![c] = k]
  <1> DEFINE k == [call[c] EXCEPT !.at = where]
  <1>1. call[c] \in Call
    BY DEF AccessInv
  <1>2. k \in Call /\ k.at = where
    BY <1>1 DEF Call, Quiet
  <1>3. call' = [call EXCEPT ![c] = k]
    BY DEF Goto
  <1> QED
    BY <1>2, <1>3

LEMMA GotoKeeps ==
    ASSUME AccessInv, NEW c \in Calls, NEW where \in Quiet, Goto(c, where),
           where \in {"empty", "select"} => KindOf[c] \notin Commands,
           UNCHANGED <<users, endings, lost, tokens, now>>
    PROVE  AccessInv'
  <1>1. PICK k \in Call : k.at = where /\ call' = [call EXCEPT ![c] = k]
    BY GotoIsAMove
  <1>2. CallOK(c, k)
    BY <1>1 DEF CallOK, Quiet
  <1> QED
    BY <1>1, <1>2, OneCallMoves

(* A call that reads the row of an account.                                *)
LEMMA ReadKeeps ==
    ASSUME AccessInv, NEW c \in Calls, Read(c, "read"),
           KindOf[c] \in Commands => users[UserOf[c]].exists,
           UNCHANGED <<users, endings, lost, tokens, now>>
    PROVE  AccessInv'
  <1> DEFINE u == UserOf[c]
             k == [[[call[c] EXCEPT !.at = "read"] EXCEPT !.seen = users[u]]
                       EXCEPT !.born = endings[u]]
  <1>1. u \in Users /\ call[c] \in Call /\ users[u] \in Row /\ endings[u] \in Nat /\ UserOK(u)
    BY AccessAssumption DEF AccessInv
  <1>2. k \in Call /\ k.at = "read" /\ k.seen = users[u] /\ k.born = endings[u]
    BY <1>1 DEF Call
  <1>3. call' = [call EXCEPT ![c] = k]
    BY <1>1 DEF Read, AccessInv, Call
  <1> HIDE DEF k
  <1>4. CallOK(c, k)
    BY <1>1, <1>2 DEF CallOK, UserOK
  <1> QED
    BY <1>2, <1>3, <1>4, OneCallMoves

(* A token is given out: it carries what its call has read.                *)
LEMMA IssueKeeps ==
    ASSUME AccessInv, NEW c \in Calls, NEW under \in Passwords, Issue(c, under),
           call[c].at \in {"read", "principal"}, call[c].seen.exists,
           UNCHANGED <<users, endings, lost, now>>,
           call' \in [Calls -> Call], \A d \in Calls : CallOK(d, call'[d])
    PROVE  AccessInv'
  <1> DEFINE token == [user |-> UserOf[c], version |-> call[c].seen.version,
                       born |-> call[c].born, under |-> under]
  <1>1. call[c] \in Call /\ CallOK(c, call[c])
    BY DEF AccessInv
  <1>2. token \in Token
    BY <1>1, AccessAssumption DEF Token, Call, Row
  <1>3. TokenOK(token)
    BY <1>1 DEF TokenOK, CallOK
  <1>4. tokens' = tokens \cup {token}
    BY DEF Issue
  <1> HIDE DEF token
  <1>5. tokens' \subseteq Token /\ \A t \in tokens' : TokenOK(t)
    BY <1>2, <1>3, <1>4 DEF AccessInv
  <1> QED
    BY <1>5, CallsMove DEF AccessInv

-----------------------------------------------------------------------------
(* Steps that write accounts.                                              *)

LEMMA AccountsMove ==
    ASSUME AccessInv, users' \in [Users -> Row], endings' \in [Users -> Nat],
           lost \subseteq lost', lost' \subseteq Users, \A u \in Users : UserOK(u)',
           \A u \in Users : users[u].exists => users'[u].exists,
           UNCHANGED <<tokens, now>>, NEW c \in Calls, NEW where \in Quiet, Goto(c, where),
           where \in {"empty", "select"} => KindOf[c] \notin Commands
    PROVE  AccessInv'
  <1>1. PICK k \in Call : k.at = where /\ call' = [call EXCEPT ![c] = k]
    BY GotoIsAMove
  <1>2. call' \in [Calls -> Call]
    BY <1>1 DEF AccessInv
  <1>3. \A token \in tokens : TokenOK(token)'
    BY DEF AccessInv, TokenOK
  <1>4. \A d \in Calls : CallOK(d, call[d])'
    <2> SUFFICES ASSUME NEW d \in Calls PROVE CallOK(d, call[d])'
      OBVIOUS
    <2>1. CASE d = c
      BY <1>1, <2>1, <1>2 DEF CallOK, Quiet, AccessInv
    <2>2. CASE d # c
      <3>1. call'[d] = call[d] /\ CallOK(d, call[d]) /\ UserOf[d] \in Users
        BY <1>1, <2>2, AccessAssumption DEF AccessInv
      <3> QED
        BY <3>1 DEF CallOK
    <2> QED
      BY <2>1, <2>2
  <1> QED
    BY <1>2, <1>3, <1>4 DEF AccessInv

LEMMA InsertUsersKeeps ==
    ASSUME AccessInv, NEW c \in Calls, InsertUsers(c)
    PROVE  AccessInv'
  <1>1. PICK where \in Quiet : Goto(c, where)
    BY DEF InsertUsers, AfterBootstrap, Quiet
  <1>7. KindOf[c] \notin Commands
    BY DEF InsertUsers, AccessInv, CallOK
  <1>2. UNCHANGED <<tokens, endings, lost, now>>
    BY DEF InsertUsers, rateVars
  <1>3. users' \in [Users -> Row]
    BY RowsAreRows DEF InsertUsers, AccessInv
  <1>4. \A u \in Users : users'[u] = users[u] \/ (~users[u].exists /\ users'[u] = NewRow)
    BY AccessAssumption DEF InsertUsers
  <1>5. \A u \in Users : UserOK(u)'
    BY <1>2, <1>4, RowsAreRows DEF UserOK, AccessInv
  <1>6. \A u \in Users : users[u].exists => users'[u].exists
    BY <1>4
  <1> QED
    BY <1>1, <1>2, <1>3, <1>5, <1>6, <1>7, AccountsMove DEF AccessInv

LEMMA CreateUserKeeps ==
    ASSUME AccessInv, NEW c \in Calls, CreateUser(c)
    PROVE  AccessInv'
  <1>1. Goto(c, "done") /\ "done" \in Quiet /\ UNCHANGED <<tokens, endings, lost, now>>
    BY DEF CreateUser, Quiet, rateVars
  <1>2. \E row \in Row : /\ users' = [users EXCEPT ![UserOf[c]] = row]
                         /\ row = users[UserOf[c]] \/ (~users[UserOf[c]].exists /\ row = NewRow)
    BY AccessAssumption, RowsAreRows DEF CreateUser, AccessInv
  <1>3. users' \in [Users -> Row]
    BY <1>2 DEF AccessInv
  <1>4. \A u \in Users : users'[u] = users[u] \/ (~users[u].exists /\ users'[u] = NewRow)
    BY <1>2, AccessAssumption DEF AccessInv
  <1>5. \A u \in Users : UserOK(u)'
    BY <1>1, <1>4, RowsAreRows DEF UserOK, AccessInv
  <1>6. \A u \in Users : users[u].exists => users'[u].exists
    BY <1>4, RowsAreRows
  <1> QED
    BY <1>1, <1>3, <1>5, <1>6, AccountsMove DEF AccessInv

(* An ending of the sessions of an account moves its version by one, or    *)
(* the account is lost.                                                    *)
LEMMA EndingKeeps ==
    ASSUME AccessInv, NEW c \in Calls, Goto(c, "done"), users[UserOf[c]].exists,
           NEW row \in Row, row.exists, users' = [users EXCEPT ![UserOf[c]] = row],
           NEW n \in {0, 1}, endings' = [endings EXCEPT ![UserOf[c]] = @ + n],
           lost' = lost \/ lost' = lost \cup {UserOf[c]},
           UserOf[c] \notin lost' => row.version = users[UserOf[c]].version + n,
           UNCHANGED <<tokens, now>>
    PROVE  AccessInv'
  <1> DEFINE me == UserOf[c]
  <1>0. me \in Users /\ endings \in [Users -> Nat] /\ users \in [Users -> Row] /\ lost \subseteq Users
    BY AccessAssumption DEF AccessInv
  <1> HIDE DEF me
  <1>1. users' \in [Users -> Row] /\ users'[me] = row /\ \A u \in Users \ {me} : users'[u] = users[u]
    BY <1>0 DEF me
  <1>2. /\ endings' \in [Users -> Nat] /\ endings'[me] = endings[me] + n
        /\ \A u \in Users \ {me} : endings'[u] = endings[u]
    BY <1>0 DEF me
  <1>3. lost \subseteq lost' /\ lost' \subseteq Users /\ lost' \ {me} = lost \ {me}
    BY <1>0 DEF me
  <1>4. ASSUME NEW u \in Users PROVE UserOK(u)'
    <2>1. UserOK(u) /\ users[u] \in Row /\ endings[u] \in Nat
      BY <1>0 DEF AccessInv
    <2>2. CASE u = me
      <3>1. users[me].version \in Nat /\ endings[me] \in Nat /\ users[me].exists
        BY <1>0, <2>1, <2>2 DEF Row, me
      <3>2. me \notin lost' => row.version = endings[me] + n + 1
        BY <1>3, <2>1, <2>2, <3>1 DEF UserOK, me
      <3>3. me \notin lost' => users'[me].version = endings'[me] + 1
        BY <1>1, <1>2, <3>1, <3>2
      <3> QED
        BY <2>2, <3>3, <1>1 DEF UserOK
    <2>3. CASE u # me
      BY <2>1, <2>3, <1>1, <1>2, <1>3 DEF UserOK
    <2> QED
      BY <2>2, <2>3
  <1>5. \A u \in Users : users[u].exists => users'[u].exists
    BY <1>1
  <1> QED
    BY <1>1, <1>2, <1>3, <1>4, <1>5, AccountsMove DEF Quiet

LEMMA RevokeSessionKeeps ==
    ASSUME AccessInv, NEW c \in Calls, RevokeSession(c)
    PROVE  AccessInv'
  <1> DEFINE u == UserOf[c]
             row == [users[u] EXCEPT !.version = @ + 1]
  <1>1. u \in Users /\ users[u] \in Row /\ users[u].exists
    BY AccessAssumption DEF AccessInv, RevokeSession, CallOK
  <1>2. row \in Row /\ row.exists /\ row.version = users[u].version + 1
    BY <1>1 DEF Row
  <1>3. /\ users' = [users EXCEPT ![u] = row]
        /\ endings' = [endings EXCEPT ![u] = @ + 1]
        /\ Goto(c, "done") /\ UNCHANGED <<tokens, lost, now>>
    BY <1>1 DEF RevokeSession, rateVars, AccessInv
  <1> HIDE DEF row
  <1> QED
    BY <1>1, <1>2, <1>3, EndingKeeps

(* What CommitCommand does to a row.                                       *)
LEMMA CommandWrites ==
    ASSUME AccessInv, NEW c \in Calls, CommitCommand(c)
    PROVE  \E row \in Row, n \in {0, 1} :
             /\ row.exists
             /\ users' = [users EXCEPT ![UserOf[c]] = row]
             /\ endings' = [endings EXCEPT ![UserOf[c]] = @ + n]
             /\ lost' = lost \/ lost' = lost \cup {UserOf[c]}
             /\ UserOf[c] \notin lost' => row.version = users[UserOf[c]].version + n
             /\ row.password # users[UserOf[c]].password => n = 1
  <1> DEFINE u == UserOf[c]
             old == users[u]
             ends == KindOf[c] # "activate"
             wanted == KindOf[c] = "activate"
             n == IF ends THEN 1 ELSE 0
             version == IF ends THEN call[c].seen.version + 1 ELSE old.version
             active == IF KindOf[c] = "set-password" \/ call[c].seen.active = wanted
                       THEN old.active ELSE wanted
  <1>1. /\ u \in Users /\ old \in Row /\ old.exists /\ call[c] \in Call
        /\ endings \in [Users -> Nat] /\ users \in [Users -> Row]
    BY AccessAssumption DEF AccessInv, CommitCommand, CallOK
  <1>2. PICK word \in Passwords :
          users' = [users EXCEPT ![u].version = version,
                                 ![u].password = IF KindOf[c] = "set-password" THEN word ELSE @,
                                 ![u].active = active]
    BY Zenon DEF CommitCommand
  <1> DEFINE password == IF KindOf[c] = "set-password" THEN word ELSE old.password
             row == [exists |-> TRUE, active |-> active, version |-> version, password |-> password]
  <1>3. version \in Nat /\ active \in BOOLEAN /\ password \in Passwords
    <2>1. version \in Nat
      BY <1>1 DEF Row, Call
    <2>2. active \in BOOLEAN
      <3>1. old.active \in BOOLEAN /\ wanted \in BOOLEAN
        BY <1>1 DEF Row
      <3> HIDE DEF wanted
      <3> QED
        BY Zenon, <3>1
    <2>3. password \in Passwords
      BY <1>1, <1>2 DEF Row
    <2> QED
      BY <2>1, <2>2, <2>3
  <1>4. row \in Row
    BY <1>3 DEF Row
  <1>5. users' = [users EXCEPT ![u] = row]
    <2> DEFINE new == [[[old EXCEPT !.version = version]
                             EXCEPT !.password = password] EXCEPT !.active = active]
    <2>1. users' = [users EXCEPT ![u] = new]
      <3> HIDE DEF version, active
      <3> QED
        BY <1>1, <1>2 DEF Row
    <2>2. new = row
      <3> HIDE DEF version, active, password
      <3>1. new \in Row /\ row \in Row
        BY <1>1, <1>3, <1>4 DEF Row
      <3>2. /\ new.exists = TRUE /\ new.active = active
            /\ new.version = version /\ new.password = password
        BY <1>1 DEF Row
      <3> HIDE DEF new
      <3> QED
        BY <3>1, <3>2 DEF Row
    <2> QED
      BY <2>1, <2>2
  <1>6. endings' = [endings EXCEPT ![u] = @ + n]
    <2>1. CASE ends
      BY <1>1, <2>1 DEF CommitCommand
    <2>2. CASE ~ends
      <3>1. endings' = endings /\ endings[u] + n = endings[u]
        BY <1>1, <2>2 DEF CommitCommand
      <3>2. [endings EXCEPT ![u] = endings[u]] = endings
        BY <1>1
      <3> QED
        BY <3>1, <3>2
    <2> QED
      BY <2>1, <2>2
  <1>7. lost' = lost \/ lost' = lost \cup {u}
    BY DEF CommitCommand
  <1>8. u \notin lost' => version = old.version + n
    BY <1>1 DEF CommitCommand, Row, Call
  <1>9. password # old.password => n = 1
    OBVIOUS
  <1> QED
    BY <1>4, <1>5, <1>6, <1>7, <1>8, <1>9

LEMMA CommitCommandKeeps ==
    ASSUME AccessInv, NEW c \in Calls, CommitCommand(c)
    PROVE  AccessInv'
  <1>1. Goto(c, "done") /\ UNCHANGED <<tokens, now>> /\ users[UserOf[c]].exists
    BY DEF CommitCommand, rateVars, AccessInv, CallOK
  <1> QED
    BY <1>1, CommandWrites, EndingKeeps

-----------------------------------------------------------------------------
(* Steps of a login, and of requests with a credential.                    *)

LEMMA StartProcessKeeps ==
    ASSUME AccessInv, NEW c \in Calls, StartProcess(c)
    PROVE  AccessInv'
  <1>1. UNCHANGED <<users, endings, lost, tokens, now>>
    BY DEF StartProcess, RatesForgotten, rateVars
  <1>2. CASE Goto(c, "checked")
    BY <1>1, <1>2, GotoKeeps DEF Quiet
  <1>3. CASE ~Goto(c, "checked")
    <2>1. ASSUME NEW d \in Calls
          PROVE  /\ call'[d] \in Call /\ call'[d].seen = call[d].seen /\ call'[d].born = call[d].born
                 /\ call'[d].at \in {"checked", "done", call[d].at}
      <3>1. \E where \in {"checked", "done", call[d].at} :
              call'[d] = [call[d] EXCEPT !.failed = 0, !.late = 0, !.at = where]
        BY <1>3 DEF StartProcess
      <3>2. call[d] \in Call /\ 0 \in 0..MaxNow
        BY RatesAssumption DEF AccessInv
      <3> QED
        BY <3>1, <3>2 DEF Call
    <2>2. call' \in [Calls -> Call]
      BY <1>3, <2>1 DEF StartProcess
    <2>3. \A d \in Calls : CallOK(d, call'[d])
      BY <2>1 DEF CallOK, AccessInv
    <2> QED
      BY <1>1, <2>2, <2>3, CallsMove DEF AccessInv
  <1> QED
    BY <1>2, <1>3

LEMMA CountUsersKeeps ==
    ASSUME AccessInv, NEW c \in Calls, CountUsers(c)
    PROVE  AccessInv'
  <1>1. KindOf[c] \notin Commands /\ UNCHANGED <<users, endings, lost, tokens, now>>
    BY DEF CountUsers, Commands, rateVars
  <1>2. Goto(c, "empty") \/ Goto(c, "done") \/ Read(c, "read")
    BY DEF CountUsers
  <1> QED
    BY <1>1, <1>2, GotoKeeps, ReadKeeps DEF Quiet

LEMMA SelectUserKeeps ==
    ASSUME AccessInv, NEW c \in Calls, SelectUser(c)
    PROVE  AccessInv'
  <1>1. UNCHANGED <<users, endings, lost, tokens, now>> /\ Read(c, "read")
    BY DEF SelectUser, rateVars
  <1>2. KindOf[c] \notin Commands
    BY DEF SelectUser, AccessInv, CallOK
  <1> QED
    BY <1>1, <1>2, ReadKeeps

LEMMA RequireUserKeeps ==
    ASSUME AccessInv, NEW c \in Calls, RequireUser(c)
    PROVE  AccessInv'
  <1>1. UNCHANGED <<users, endings, lost, tokens, now>>
    BY DEF RequireUser, rateVars
  <1>2. (users[UserOf[c]].exists /\ Read(c, "read")) \/ Goto(c, "done")
    BY DEF RequireUser
  <1> QED
    BY <1>1, <1>2, GotoKeeps, ReadKeeps DEF Quiet

(* Other calls are at most told that their lock came, or that failures     *)
(* were cleared: what they have read stays.                                *)
SameReads(k, old) == k.at = old.at /\ k.seen = old.seen /\ k.born = old.born

LEMMA LoginFailsKeeps ==
    ASSUME AccessInv, NEW c \in Calls, LoginFails(c)
    PROVE  AccessInv'
  <1>1. UNCHANGED <<users, endings, lost, tokens, now>>
    BY DEF LoginFails
  <1>2. ASSUME NEW d \in Calls
        PROVE  call'[d] \in Call /\ (call'[d].at = "done" \/ SameReads(call'[d], call[d]))
    <2>1. call[d] \in Call /\ now \in 0..MaxNow
      BY RatesAssumption DEF AccessInv
    <2>2. CASE d = c
      <3>1. call'[d] = [call[d] EXCEPT !.at = "done", !.failed = now]
        BY <2>2 DEF LoginFails
      <3> QED
        BY <2>1, <3>1 DEF Call
    <2>3. CASE d # c
      <3>1. call'[d] = [call[d] EXCEPT !.late = now] \/ call'[d] = call[d]
        BY <2>3 DEF LoginFails
      <3> QED
        BY <2>1, <3>1 DEF Call, SameReads
    <2> QED
      BY <2>2, <2>3
  <1>3. call' \in [Calls -> Call]
    BY <1>2 DEF LoginFails
  <1>4. \A d \in Calls : CallOK(d, call'[d])
    BY <1>2 DEF CallOK, AccessInv, SameReads
  <1> QED
    BY <1>1, <1>3, <1>4, CallsMove DEF AccessInv

LEMMA LoginSucceedsKeeps ==
    ASSUME AccessInv, NEW c \in Calls, LoginSucceeds(c)
    PROVE  AccessInv'
  <1>1. /\ UNCHANGED <<users, endings, lost, now>>
        /\ call[c].at = "read" /\ call[c].seen.exists /\ Issue(c, call[c].seen.password)
    BY DEF LoginSucceeds
  <1>2. ASSUME NEW d \in Calls
        PROVE  call'[d] \in Call /\ (call'[d].at = "done" \/ SameReads(call'[d], call[d]))
    <2>1. call[d] \in Call /\ 0 \in 0..MaxNow
      BY RatesAssumption DEF AccessInv
    <2>2. CASE d = c
      <3>1. call'[d] = [call[d] EXCEPT !.at = "done", !.failed = 0, !.late = 0]
        BY <2>2 DEF LoginSucceeds, OfKey
      <3> QED
        BY <2>1, <3>1 DEF Call
    <2>3. CASE d # c
      <3>1. \/ call'[d] = [call[d] EXCEPT !.at = @, !.failed = 0, !.late = 0]
            \/ call'[d] = call[d]
        BY <2>3 DEF LoginSucceeds
      <3> QED
        BY <2>1, <3>1 DEF Call, SameReads
    <2> QED
      BY <2>2, <2>3
  <1>3. call' \in [Calls -> Call]
    BY <1>2 DEF LoginSucceeds
  <1>4. \A d \in Calls : CallOK(d, call'[d])
    BY <1>2 DEF CallOK, AccessInv, SameReads
  <1>5. call[c].seen.password \in Passwords
    BY DEF AccessInv, Call, Row
  <1> QED
    BY <1>1, <1>3, <1>4, <1>5, IssueKeeps

LEMMA RefreshKeeps ==
    ASSUME AccessInv, NEW c \in Calls, Refresh(c)
    PROVE  AccessInv'
  <1>1. /\ UNCHANGED <<users, endings, lost, now>>
        /\ call[c].at = "principal" /\ Issue(c, call[c].under) /\ Goto(c, "done")
    BY DEF Refresh, rateVars
  <1>2. call[c].seen.exists /\ call[c].under \in Passwords
    BY <1>1 DEF AccessInv, CallOK, Call
  <1>3. PICK k \in Call : k.at = "done" /\ call' = [call EXCEPT ![c] = k]
    BY <1>1, GotoIsAMove DEF Quiet
  <1>4. call' \in [Calls -> Call] /\ \A d \in Calls : CallOK(d, call'[d])
    BY <1>3 DEF AccessInv, CallOK
  <1> QED
    BY <1>1, <1>2, <1>4, IssueKeeps

(* A token that is accepted is one of the present sessions of its account. *)
LEMMA UserEntersKeeps ==
    ASSUME AccessInv, NEW c \in Calls, UserEnters(c)
    PROVE  AccessInv'
  <1> DEFINE u == UserOf[c]
  <1>1. UNCHANGED <<users, endings, lost, tokens, now>>
    BY DEF UserEnters
  <1>2. PICK token \in tokens :
          /\ token.user = u /\ Accepted(token)
          /\ call' = [call EXCEPT ![c].at = "principal", ![c].seen = users[u],
                                  ![c].born = token.born, ![c].under = token.under]
    BY Zenon DEF UserEnters
  <1>3. /\ u \in Users /\ users[u] \in Row /\ call[c] \in Call
        /\ token \in Token /\ TokenOK(token)
    BY AccessAssumption DEF AccessInv
  <1> DEFINE k == [[[[call[c] EXCEPT !.at = "principal"] EXCEPT !.seen = users[u]]
                        EXCEPT !.born = token.born] EXCEPT !.under = token.under]
  <1>4. /\ k \in Call /\ k.at = "principal" /\ k.seen = users[u] /\ k.born = token.born
    BY <1>3 DEF Call, Token
  <1>5. call' = [call EXCEPT ![c] = k]
    BY <1>2, <1>3 DEF AccessInv, Call
  <1>6. users[u].exists /\ users[u].version = token.version
    BY <1>2 DEF Accepted
  <1> HIDE DEF k
  <1>7. CallOK(c, k)
    BY <1>2, <1>3, <1>4, <1>6 DEF CallOK, TokenOK
  <1> QED
    BY <1>1, <1>4, <1>5, <1>7, OneCallMoves

LEMMA CleansUpKeeps ==
    ASSUME AccessInv, CleansUp
    PROVE  AccessInv'
  <1>1. UNCHANGED <<users, endings, lost, tokens, now>>
    BY DEF CleansUp, Cleanup
  <1>2. ASSUME NEW d \in Calls PROVE call'[d] \in Call /\ SameReads(call'[d], call[d])
    <2>1. call[d] \in Call /\ 0 \in 0..MaxNow
      BY RatesAssumption DEF AccessInv
    <2>2. call'[d] = [call[d] EXCEPT !.failed = 0] \/ call'[d] = call[d]
      BY DEF CleansUp
    <2> QED
      BY <2>1, <2>2 DEF Call, SameReads
  <1>3. call' \in [Calls -> Call]
    BY <1>2 DEF CleansUp
  <1>4. \A d \in Calls : CallOK(d, call'[d])
    BY <1>2 DEF CallOK, AccessInv, SameReads
  <1> QED
    BY <1>1, <1>3, <1>4, CallsMove DEF AccessInv

LEMMA GoneKeeps ==
    ASSUME AccessInv, NEW c \in Calls,
           LoginArrives(c) \/ Refused(c) \/ QueryEnters(c) \/ ManageService(c)
    PROVE  AccessInv'
  <1>1. UNCHANGED <<users, endings, lost, tokens, now>>
    BY DEF LoginArrives, Refused, QueryEnters, ManageService, rateVars
  <1>2. Goto(c, "done") \/ Goto(c, "checked")
    BY DEF LoginArrives, Refused, QueryEnters, ManageService
  <1> QED
    BY <1>1, <1>2, GotoKeeps DEF Quiet

-----------------------------------------------------------------------------

(* Whatever calls come, the version of an account counts its endings, and  *)
(* what a call or a token carries was true when it was read.               *)
THEOREM AccessInvariant == Spec => []AccessInv
  <1>1. Init => AccessInv
    <2> SUFFICES ASSUME Init PROVE AccessInv
      OBVIOUS
    <2>1. PICK coming \in Arrivals :
            /\ now = coming.tick
            /\ call = [c \in Calls |->
                         [at |-> IF c \in coming.calls THEN "new" ELSE "done", seen |-> NoRow,
                          born |-> 0, under |-> FirstPassword, failed |-> 0, late |-> 0]]
      BY DEF Init
    <2>2. now \in 1..MaxNow
      BY <2>1, AccessAssumption
    <2>3. call \in [Calls -> Call]
      BY <2>1, RowsAreRows, AccessAssumption, RatesAssumption DEF Call
    <2>4. \A c \in Calls : CallOK(c, call[c])
      BY <2>1 DEF CallOK
    <2>5. /\ users = [u \in Users |-> NoRow] /\ endings = [u \in Users |-> 0]
          /\ tokens = {} /\ lost = {}
      BY DEF Init
    <2>6. \A u \in Users : UserOK(u)
      BY <2>5 DEF UserOK, NoRow
    <2> QED
      BY <2>2, <2>3, <2>4, <2>5, <2>6, RowsAreRows DEF AccessInv
  <1>2. AccessInv /\ [Next]_vars => AccessInv'
    <2> SUFFICES ASSUME AccessInv, [Next]_vars PROVE AccessInv'
      OBVIOUS
    <2>1. ASSUME NEW c \in Calls,
                 StartProcess(c) \/ CountUsers(c) \/ InsertUsers(c) \/ SelectUser(c)
          PROVE  AccessInv'
      BY <2>1, StartProcessKeeps, CountUsersKeeps, InsertUsersKeeps, SelectUserKeeps
    <2>2. ASSUME NEW c \in Calls, LoginArrives(c) \/ LoginFails(c) \/ LoginSucceeds(c)
          PROVE  AccessInv'
      BY <2>2, GoneKeeps, LoginFailsKeeps, LoginSucceedsKeeps
    <2>3. ASSUME NEW c \in Calls,
                 Refused(c) \/ UserEnters(c) \/ QueryEnters(c) \/ RevokeSession(c) \/ Refresh(c)
          PROVE  AccessInv'
      BY <2>3, GoneKeeps, UserEntersKeeps, RevokeSessionKeeps, RefreshKeeps
    <2>4. ASSUME NEW c \in Calls,
                 RequireUser(c) \/ CommitCommand(c) \/ CreateUser(c) \/ ManageService(c)
          PROVE  AccessInv'
      BY <2>4, GoneKeeps, RequireUserKeeps, CommitCommandKeeps, CreateUserKeeps
    <2>5. CASE UNCHANGED <<users, tokens, call, endings, lost>> /\ now' \in 1..MaxNow
      BY <2>5, CallsMove DEF AccessInv
    <2>6. CASE KeyExpires \/ UNCHANGED vars
      BY <2>5, <2>6 DEF KeyExpires, vars, accessVars, rateVars, AccessInv
    <2>7. CASE TimePasses
      BY <2>5, <2>7, RatesAssumption DEF AccessInv, TimePasses, Tick, accessVars
    <2>8. CASE CleansUp
      BY <2>8, CleansUpKeeps
    <2> QED
      BY <2>1, <2>2, <2>3, <2>4, <2>6, <2>7, <2>8 DEF Next
  <1> QED
    BY <1>1, <1>2, PTL DEF Spec

(* What a logout, a new password or a deactivation ended stays ended, for  *)
(* refreshed tokens and those on their way as well.                        *)
THEOREM EndedStaysEnded == Spec => []EndedSessionsStayEnded
  <1>1. AccessInv => EndedSessionsStayEnded
    <2> SUFFICES ASSUME AccessInv, NEW token \in tokens, token.user \notin lost, Accepted(token)
                 PROVE  token.born = endings[token.user]
      BY DEF EndedSessionsStayEnded
    <2>1. token \in Token /\ TokenOK(token)
      BY DEF AccessInv
    <2>2. UserOK(token.user) /\ endings[token.user] \in Nat
      BY <2>1 DEF AccessInv, Token
    <2>3. token.version = endings[token.user] + 1 /\ token.version = token.born + 1
      BY <2>1, <2>2 DEF Accepted, UserOK, TokenOK
    <2> QED
      BY <2>1, <2>2, <2>3 DEF Token
  <1> QED
    BY <1>1, AccessInvariant, PTL

(* No start of the process and no login gives an account another password: *)
(* a step that does ends the sessions of the account.                      *)
THEOREM PasswordsKept == Spec => PasswordsAreKept
  <1>1. ASSUME AccessInv, [Next]_vars, NEW u \in Users,
               users[u].exists, users'[u] # users[u], users'[u].password # users[u].password
        PROVE  users'[u].version > users[u].version \/ u \in lost'
    <2>1. users \in [Users -> Row] /\ users[u] \in Row
      BY <1>1 DEF AccessInv
    <2>2. ASSUME NEW c \in Calls, InsertUsers(c) \/ CreateUser(c)
          PROVE  FALSE
      <3>1. users'[u] = users[u]
        BY <1>1, <2>1, <2>2, AccessAssumption DEF InsertUsers, CreateUser
      <3> QED
        BY <1>1, <3>1
    <2>3. ASSUME NEW c \in Calls, RevokeSession(c)
          PROVE  FALSE
      <3>1. users'[u].password = users[u].password
        BY <2>1, <2>3, AccessAssumption DEF RevokeSession, Row
      <3> QED
        BY <1>1, <3>1
    <2>4. ASSUME NEW c \in Calls, CommitCommand(c)
          PROVE  users'[u].version > users[u].version \/ u \in lost'
      <3>1. PICK row \in Row, n \in {0, 1} :
              /\ users' = [users EXCEPT ![UserOf[c]] = row]
              /\ UserOf[c] \notin lost' => row.version = users[UserOf[c]].version + n
              /\ row.password # users[UserOf[c]].password => n = 1
        BY <1>1, <2>4, CommandWrites
      <3>2. UserOf[c] = u
        BY <1>1, <2>1, <3>1
      <3>3. users'[u] = row
        BY <2>1, <3>1, <3>2
      <3> QED
        BY <1>1, <2>1, <3>1, <3>2, <3>3 DEF Row
    <2>5. CASE UNCHANGED users
      BY <1>1, <2>5
    <2>6. ASSUME NEW c \in Calls,
                 \/ StartProcess(c) \/ CountUsers(c) \/ SelectUser(c) \/ LoginArrives(c)
                 \/ LoginFails(c) \/ LoginSucceeds(c) \/ Refused(c) \/ UserEnters(c) \/ QueryEnters(c)
                 \/ Refresh(c) \/ RequireUser(c) \/ ManageService(c)
          PROVE  UNCHANGED users
      BY Zenon, <2>6 DEF StartProcess, CountUsers, SelectUser, LoginArrives, LoginFails, LoginSucceeds,
                  Refused, UserEnters, QueryEnters, Refresh, RequireUser, ManageService
    <2>7. CASE KeyExpires \/ CleansUp \/ TimePasses \/ UNCHANGED vars
      BY <2>5, <2>7 DEF KeyExpires, CleansUp, TimePasses, accessVars, vars
    <2> QED
      BY <1>1, <2>2, <2>3, <2>4, <2>5, <2>6, <2>7 DEF Next
  <1>2. AccessInv /\ [Next]_vars =>
          [\A u \in Users :
             users[u].exists /\ users'[u] # users[u] /\ users'[u].password # users[u].password =>
                users'[u].version > users[u].version \/ u \in lost']_vars
    BY <1>1
  <1> QED
    BY <1>2, AccessInvariant, PTL DEF Spec, PasswordsAreKept

(***************************************************************************)
(* The windows.  The recent ones of times in order are the last of them.   *)
(***************************************************************************)

Old(times, window) == {i \in DOMAIN times : now - times[i] >= window}

LEMMA OldAreFirst ==
    ASSUME NEW S \in SUBSET Nat, NEW times \in Seq(S), NEW window
    PROVE  /\ Cardinality(Old(times, window)) \in 0..Len(times)
           /\ InOrder(times) /\ window \in Nat /\ now \in Nat =>
                \A i \in 1..Len(times) :
                    i <= Cardinality(Old(times, window)) <=> now - times[i] >= window
  <1> DEFINE n == Len(times)
             old == Old(times, window)
  <1>1. n \in Nat /\ DOMAIN times = 1..n /\ old \subseteq 1..n
    BY DEF Old
  <1>2. IsFiniteSet(1..n) /\ Cardinality(1..n) = n
    BY <1>1, FS_Interval
  <1>3. IsFiniteSet(old) /\ Cardinality(old) <= n
    BY <1>1, <1>2, FS_Subset
  <1>4. Cardinality(old) \in Nat
    BY <1>3, FS_CardinalityType
  <1>5. ASSUME InOrder(times), window \in Nat, now \in Nat, NEW i \in 1..n
        PROVE  i <= Cardinality(old) <=> i \in old
    <2>1. \A j \in 1..n : times[j] \in Nat
      <3>1. \A j \in 1..Len(times) : times[j] \in S
        BY ElementOfSeq
      <3> QED
        BY <3>1
    <2>2. CASE i \in old
      <3>1. ASSUME NEW j \in 1..i PROVE j \in old
        <4>1. j \in 1..n /\ j <= i /\ times[j] <= times[i]
          BY <1>1, <1>5 DEF InOrder
        <4>2. now - times[i] >= window
          BY <2>2 DEF Old
        <4>3. now - times[j] >= window
          BY <1>5, <2>1, <4>1, <4>2
        <4> QED
          BY <1>1, <4>1, <4>3 DEF Old
      <3>2. IsFiniteSet(1..i) /\ Cardinality(1..i) = i
        BY FS_Interval
      <3> QED
        BY <1>3, <2>2, <3>1, <3>2, FS_Subset
    <2>3. CASE i \notin old
      <3>1. old \subseteq 1..(i - 1)
        BY <1>1, <1>5, <2>1, <2>3 DEF Old, InOrder
      <3>2. IsFiniteSet(1..(i - 1)) /\ Cardinality(1..(i - 1)) = i - 1
        BY FS_Interval
      <3>3. Cardinality(old) <= i - 1
        BY <3>1, <3>2, FS_Subset
      <3> QED
        BY <1>4, <2>3, <3>3
    <2> QED
      BY <2>2, <2>3
  <1> QED
    BY <1>1, <1>3, <1>4, <1>5 DEF Old

LEMMA RecentAreLast ==
    ASSUME NEW S \in SUBSET Nat, NEW times \in Seq(S), NEW window
    PROVE  \E m \in 0..Len(times) :
             /\ Recent(times, window) \in Seq(S)
             /\ Len(Recent(times, window)) = Len(times) - m
             /\ \A i \in 1..(Len(times) - m) : Recent(times, window)[i] = times[m + i]
             /\ InOrder(times) => InOrder(Recent(times, window))
             /\ InOrder(times) /\ window \in Nat /\ now \in Nat =>
                  \A i \in 1..Len(times) : i <= m <=> now - times[i] >= window
  <1> DEFINE m == Cardinality(Old(times, window))
             recent == SubSeq(times, m + 1, Len(times))
  <1>1. recent = Recent(times, window)
    BY DEF Recent, Old
  <1>2. m \in 0..Len(times) /\ Len(times) \in Nat
    BY OldAreFirst
  <1>3. InOrder(times) /\ window \in Nat /\ now \in Nat =>
          \A i \in 1..Len(times) : i <= m <=> now - times[i] >= window
    BY OldAreFirst
  <1> HIDE DEF m
  <1>4. /\ recent \in Seq(S) /\ Len(recent) = Len(times) - m
        /\ \A i \in 1..(Len(times) - m) : recent[i] = times[m + i]
    <2>1. \A i \in (m + 1)..Len(times) : times[i] \in S
      BY <1>2
    <2>2. /\ recent \in Seq(S)
          /\ Len(recent) = IF m + 1 <= Len(times) THEN Len(times) - (m + 1) + 1 ELSE 0
          /\ \A i \in 1..(Len(times) - (m + 1) + 1) : recent[i] = times[m + 1 + i - 1]
      BY <1>2, <2>1, SubSeqProperties
    <2> QED
      BY <1>2, <2>2
  <1> HIDE DEF recent
  <1>5. InOrder(times) => InOrder(recent)
    <2> SUFFICES ASSUME InOrder(times), NEW i \in DOMAIN recent, NEW j \in DOMAIN recent, i <= j
                 PROVE  recent[i] <= recent[j]
      BY DEF InOrder
    <2>1. i \in 1..(Len(times) - m) /\ j \in 1..(Len(times) - m)
      BY <1>2, <1>4
    <2>2. m + i \in DOMAIN times /\ m + j \in DOMAIN times /\ m + i <= m + j
      BY <1>2, <2>1
    <2>3. times[m + i] <= times[m + j]
      BY <2>2 DEF InOrder
    <2> QED
      BY <1>4, <2>1, <2>3
  <1> QED
    BY <1>1, <1>2, <1>3, <1>4, <1>5

(* A time appended now keeps the order.                                    *)
LEMMA AppendNow ==
    ASSUME now \in Nat, NEW times \in Seq(1..now), 1 <= now
    PROVE  /\ Append(times, now) \in Seq(1..now)
           /\ Len(Append(times, now)) = Len(times) + 1
           /\ \A i \in 1..Len(times) : Append(times, now)[i] = times[i]
           /\ Append(times, now)[Len(times) + 1] = now
           /\ InOrder(times) => InOrder(Append(times, now))
  <1>1. /\ Append(times, now) \in Seq(1..now) /\ Len(Append(times, now)) = Len(times) + 1
        /\ Len(times) \in Nat
        /\ \A i \in 1..Len(times) : Append(times, now)[i] = times[i]
        /\ Append(times, now)[Len(times) + 1] = now
    BY AppendProperties
  <1>2. ASSUME InOrder(times) PROVE InOrder(Append(times, now))
    <2> DEFINE all == Append(times, now)
    <2> SUFFICES ASSUME NEW i \in DOMAIN all, NEW j \in DOMAIN all, i <= j PROVE all[i] <= all[j]
      BY DEF InOrder
    <2>1. DOMAIN all = 1..(Len(times) + 1) /\ DOMAIN times = 1..Len(times)
      BY <1>1
    <2>2. CASE j = Len(times) + 1
      <3>1. all[i] \in 1..now
        BY <1>1, <2>1
      <3> QED
        BY <1>1, <2>2, <3>1
    <2>3. CASE j # Len(times) + 1
      <3>1. i \in DOMAIN times /\ j \in DOMAIN times
        BY <1>1, <2>1, <2>3
      <3>2. times[i] <= times[j]
        BY <1>2, <3>1 DEF InOrder
      <3> QED
        BY <1>1, <2>1, <3>1, <3>2
    <2> QED
      BY <2>2, <2>3
  <1> QED
    BY <1>1, <1>2

-----------------------------------------------------------------------------
(* What each function of the limiter leaves behind.                        *)

LEMMA NowIsPositive == RatesTypeOK => now \in Nat /\ 1 <= now /\ 1..now \in SUBSET Nat
  BY RatesAssumption DEF RatesTypeOK

LEMMA CountedRates ==
    ASSUME RatesTypeOK, NEW b \in Buckets, NEW window
    PROVE  /\ Recent(rates[b], window) \in Seq(1..now)
           /\ Append(Recent(rates[b], window), now) \in Seq(1..now)
  <1>1. rates[b] \in Seq(1..now)
    BY DEF RatesTypeOK
  <1>2. Recent(rates[b], window) \in Seq(1..now)
    BY <1>1, NowIsPositive, RecentAreLast
  <1> QED
    BY <1>2, NowIsPositive, AppendNow

LEMMA KeptFailures ==
    ASSUME RatesTypeOK, NEW k \in Keys
    PROVE  LET recent == Recent(failures[k], FailureWindow)
           IN  /\ recent \in Seq(1..now) /\ InOrder(recent) /\ Len(recent) < FailureLimit
               /\ Append(recent, now) \in Seq(1..now) /\ InOrder(Append(recent, now))
  <1> DEFINE recent == Recent(failures[k], FailureWindow)
  <1>1. failures[k] \in Seq(1..now) /\ InOrder(failures[k]) /\ Len(failures[k]) < FailureLimit
    BY DEF RatesTypeOK
  <1>2. PICK m \in 0..Len(failures[k]) :
          recent \in Seq(1..now) /\ Len(recent) = Len(failures[k]) - m /\ InOrder(recent)
    BY <1>1, NowIsPositive, RecentAreLast
  <1>3. Len(recent) < FailureLimit
    BY <1>1, <1>2, LocksAssumption
  <1> QED
    BY <1>2, <1>3, NowIsPositive, AppendNow

LEMMA CountRequestKeepsTypes ==
    ASSUME RatesTypeOK, NEW b \in Buckets, CountRequest(b)
    PROVE  rates' \in [Buckets -> Seq(1..now)]
  <1> DEFINE recent == Recent(rates[b], WindowOf[b])
             new == IF RateAllows(b) THEN Append(recent, now) ELSE recent
  <1>1. new \in Seq(1..now)
    BY CountedRates
  <1>2. rates' = [rates EXCEPT ![b] = new]
    BY DEF CountRequest
  <1> HIDE DEF new
  <1> QED
    BY <1>1, <1>2 DEF RatesTypeOK

LEMMA OnlyRatesMove ==
    ASSUME RatesTypeOK, rates' \in [Buckets -> Seq(1..now)],
           locks' \in [Keys -> 0..(MaxNow + LockSeconds)],
           UNCHANGED <<now, failures>>
    PROVE  RatesTypeOK'
  <1>1. \A k \in Keys : InOrder(failures[k])'
    BY DEF RatesTypeOK, InOrder
  <1> QED
    BY <1>1 DEF RatesTypeOK

LEMMA EntersKeepsTypes ==
    ASSUME RatesTypeOK, NEW c \in Calls, Enters(c) \/ TooMany(c) \/ Uncounted(c)
    PROVE  rates' \in [Buckets -> Seq(1..now)]
  <1>1. AddressBucket(c) \in Buckets
    BY AccessAssumption
  <1> QED
    BY <1>1, CountRequestKeepsTypes DEF Enters, TooMany, Uncounted, RatesTypeOK

LEMMA CheckKeepsTypes ==
    ASSUME RatesTypeOK, NEW k, CheckLoginLock(k)
    PROVE  locks' \in [Keys -> 0..(MaxNow + LockSeconds)]
  <1>1. 0 \in 0..(MaxNow + LockSeconds)
    BY RatesAssumption, LocksAssumption
  <1>2. CASE Locked(k)
    BY <1>2 DEF RatesTypeOK, CheckLoginLock
  <1>3. CASE ~Locked(k)
    BY <1>1, <1>3 DEF RatesTypeOK, CheckLoginLock
  <1> QED
    BY <1>2, <1>3

LEMMA QueryEntersKeepsTypes ==
    ASSUME RatesTypeOK, NEW c \in Calls, QueryEnters(c)
    PROVE  rates' \in [Buckets -> Seq(1..now)]
  <1>1. PICK name : rates' = [b \in Buckets |->
                        IF b \in {AddressBucket(c), PrincipalBucket(name)}
                        THEN LET recent == Recent(rates[b], WindowOf[b])
                             IN  IF RateAllows(b) THEN Append(recent, now) ELSE recent
                        ELSE rates[b]]
    BY DEF QueryEnters
  <1>2. \A b \in Buckets : rates'[b] \in Seq(1..now)
    <2> SUFFICES ASSUME NEW b \in Buckets PROVE rates'[b] \in Seq(1..now)
      OBVIOUS
    <2>1. \/ rates'[b] = Recent(rates[b], WindowOf[b])
          \/ rates'[b] = Append(Recent(rates[b], WindowOf[b]), now)
          \/ rates'[b] = rates[b]
      BY <1>1
    <2> QED
      BY <2>1, CountedRates DEF RatesTypeOK
  <1> QED
    BY <1>1, <1>2

(* A list of failures is replaced.                                         *)
LEMMA FailuresMove ==
    ASSUME RatesTypeOK, NEW k \in Keys, NEW times \in Seq(1..now), InOrder(times),
           Len(times) < FailureLimit, failures' = [failures EXCEPT ![k] = times],
           locks' \in [Keys -> 0..(MaxNow + LockSeconds)],
           UNCHANGED <<now, rates>>
    PROVE  RatesTypeOK'
  <1>1. failures' \in [Keys -> Seq(1..now)]
    BY DEF RatesTypeOK
  <1>2. \A g \in Keys : InOrder(failures'[g]) /\ Len(failures'[g]) < FailureLimit
    BY DEF RatesTypeOK
  <1>3. \A g \in Keys : InOrder(failures[g])'
    BY <1>2 DEF InOrder
  <1> QED
    BY <1>1, <1>2, <1>3 DEF RatesTypeOK

LEMMA NoTimes == <<>> \in Seq(1..now) /\ InOrder(<<>>) /\ Len(<<>>) < FailureLimit
  BY LocksAssumption DEF InOrder

LEMMA ClearKeepsTypes ==
    ASSUME RatesTypeOK, NEW k \in Keys, ClearLoginFailures(k), UNCHANGED <<now, rates>>
    PROVE  RatesTypeOK'
  <1>1. locks' \in [Keys -> 0..(MaxNow + LockSeconds)]
    BY RatesAssumption, LocksAssumption DEF RatesTypeOK, ClearLoginFailures
  <1>2. failures' = [failures EXCEPT ![k] = <<>>]
    BY DEF ClearLoginFailures
  <1> QED
    BY <1>1, <1>2, NoTimes, FailuresMove

LEMMA RecordKeepsTypes ==
    ASSUME RatesTypeOK, NEW k \in Keys, RecordLoginFailure(k), UNCHANGED <<now, rates>>
    PROVE  RatesTypeOK'
  <1> DEFINE recent == Recent(failures[k], FailureWindow)
             attempts == Append(recent, now)
  <1>1. attempts \in Seq(1..now) /\ InOrder(attempts)
    BY KeptFailures
  <1>2. now + LockSeconds \in 0..(MaxNow + LockSeconds)
    BY RatesAssumption, LocksAssumption DEF RatesTypeOK
  <1>3. CASE Len(attempts) >= FailureLimit
    <2>1. locks' = [locks EXCEPT ![k] = now + LockSeconds] /\ failures' = [failures EXCEPT ![k] = <<>>]
      BY <1>3 DEF RecordLoginFailure
    <2>2. locks' \in [Keys -> 0..(MaxNow + LockSeconds)]
      BY <1>2, <2>1 DEF RatesTypeOK
    <2> QED
      BY <2>1, <2>2, NoTimes, FailuresMove
  <1>4. CASE ~(Len(attempts) >= FailureLimit)
    <2>1. locks' = locks /\ failures' = [failures EXCEPT ![k] = attempts]
      BY <1>4 DEF RecordLoginFailure
    <2>2. Len(attempts) \in Nat
      BY <1>1, LenProperties
    <2>3. Len(attempts) < FailureLimit
      BY <1>4, <2>2, LocksAssumption
    <2>4. locks' \in [Keys -> 0..(MaxNow + LockSeconds)]
      BY <2>1 DEF RatesTypeOK
    <2> HIDE DEF attempts
    <2> QED
      BY <1>1, <2>1, <2>3, <2>4, FailuresMove
  <1> QED
    BY <1>3, <1>4

(* The cleanup leaves the recent failures of a key, or drops them.         *)
LEMMA CleanupLeaves ==
    ASSUME RatesTypeOK, Cleanup
    PROVE  /\ now' = now /\ rates' \in [Buckets -> Seq(1..now)]
           /\ DOMAIN failures' = Keys /\ failures' = [k \in Keys |-> failures'[k]]
           /\ \A k \in Keys : \/ failures'[k] = Recent(failures[k], FailureWindow)
                             \/ (failures'[k] = <<>> /\ k \in Dropped)
           /\ locks' = [k \in Keys |-> IF Locked(k) THEN locks[k] ELSE 0]
  <1> DEFINE young   == [b \in Buckets |-> Recent(rates[b], LongestWindow)]
             recent  == [k \in Keys |-> Recent(failures[k], FailureWindow)]
             asked   == {b \in Buckets : young[b] # <<>>}
             failing == {k \in Keys : recent[k] # <<>>}
  <1>1. PICK inUse \in Kept([b \in asked |-> Len(young[b])]),
             counted \in Kept([k \in failing |-> recent[k][Len(recent[k])]]) :
            /\ rates' = [b \in Buckets |-> IF b \in inUse THEN young[b] ELSE <<>>]
            /\ failures' = [k \in Keys |-> IF k \in counted THEN recent[k] ELSE <<>>]
            /\ locks' = [k \in Keys |-> IF Locked(k) THEN locks[k] ELSE 0]
            /\ UNCHANGED now
    BY Zenon DEF Cleanup
  <1>2. \A b \in Buckets : young[b] \in Seq(1..now)
    BY CountedRates
  <1> HIDE DEF young
  <1>3. rates' \in [Buckets -> Seq(1..now)]
    BY <1>1, <1>2, NoTimes
  <1>4. \A k \in Keys : recent[k] = Recent(failures[k], FailureWindow)
    OBVIOUS
  <1> HIDE DEF asked, failing, recent
  <1>5. ASSUME NEW k \in Keys
        PROVE  failures'[k] = recent[k] \/ (failures'[k] = <<>> /\ k \in Dropped)
    <2>1. failures'[k] = recent[k] \/ failures'[k] = <<>>
      BY <1>1
    <2>2. failures'[k] = <<>> /\ recent[k] # <<>> => k \in Dropped
      BY Zenon, <1>4 DEF Dropped
    <2> QED
      BY <2>1, <2>2
  <1> QED
    BY <1>1, <1>3, <1>4, <1>5 DEF RatesTypeOK

LEMMA CleanupKeepsTypes ==
    ASSUME RatesTypeOK, Cleanup
    PROVE  RatesTypeOK'
  <1>1. \A k \in Keys : /\ failures'[k] \in Seq(1..now)
                        /\ InOrder(failures'[k]) /\ Len(failures'[k]) < FailureLimit
    BY CleanupLeaves, KeptFailures, NoTimes
  <1>2. \A k \in Keys : InOrder(failures[k])'
    BY <1>1 DEF InOrder
  <1>3. locks' \in [Keys -> 0..(MaxNow + LockSeconds)]
    BY CleanupLeaves, RatesAssumption, LocksAssumption DEF RatesTypeOK
  <1>4. failures' \in [Keys -> Seq(1..now)]
    BY CleanupLeaves, <1>1
  <1> QED
    BY <1>1, <1>2, <1>3, <1>4, CleanupLeaves DEF RatesTypeOK

LEMMA ForgottenTypes ==
    ASSUME RatesTypeOK, RatesForgotten
    PROVE  RatesTypeOK'
  <1>1. /\ rates' \in [Buckets -> Seq(1..now)] /\ failures' \in [Keys -> Seq(1..now)]
        /\ \A k \in Keys : InOrder(failures'[k]) /\ Len(failures'[k]) < FailureLimit
    BY NoTimes DEF RatesForgotten
  <1>2. \A k \in Keys : InOrder(failures[k])'
    BY <1>1 DEF InOrder
  <1>3. locks' \in [Keys -> 0..(MaxNow + LockSeconds)]
    BY RatesAssumption, LocksAssumption DEF RatesForgotten
  <1> QED
    BY <1>1, <1>2, <1>3 DEF RatesForgotten, RatesTypeOK

LEMMA TickKeepsTypes ==
    ASSUME RatesTypeOK, Tick
    PROVE  RatesTypeOK'
  <1>1. now \in Nat /\ now' = now + 1 /\ now' \in 1..MaxNow
    BY RatesAssumption DEF RatesTypeOK, Tick
  <1>2. \A times \in Seq(1..now) : times \in Seq(1..now')
    BY <1>1
  <1>3. \A k \in Keys : InOrder(failures[k])'
    BY DEF RatesTypeOK, Tick, InOrder
  <1> QED
    BY <1>1, <1>2, <1>3 DEF RatesTypeOK, Tick

LEMMA RatesUnmoved ==
    ASSUME RatesTypeOK, UNCHANGED rateVars
    PROVE  RatesTypeOK'
  <1>1. \A k \in Keys : InOrder(failures[k])'
    BY DEF RatesTypeOK, InOrder, rateVars
  <1> QED
    BY <1>1 DEF RatesTypeOK, rateVars

-----------------------------------------------------------------------------
(* Failed logins that count, and the times that stand for them: each call  *)
(* of S has a time of its own.                                             *)

Cover(S, at, times) ==
    \E f \in Injection(S, DOMAIN times) : \A c \in S : times[f[c]] = at[c]

LEMMA CoverOfFewer ==
    ASSUME NEW S, NEW at, NEW times, Cover(S, at, times),
           NEW T \in SUBSET S, NEW new, \A c \in T : new[c] = at[c]
    PROVE  Cover(T, new, times)
  <1>1. PICK f \in Injection(S, DOMAIN times) : \A c \in S : times[f[c]] = at[c]
    BY DEF Cover
  <1> DEFINE g == [c \in T |-> f[c]]
  <1>2. g \in Injection(T, DOMAIN times)
    BY <1>1 DEF Injection, IsInjective
  <1>3. \A c \in T : times[g[c]] = new[c]
    BY <1>1
  <1> QED
    BY <1>2, <1>3 DEF Cover

LEMMA CoverOfNone ==
    ASSUME NEW S, S = {}, NEW at, NEW times
    PROVE  Cover(S, at, times)
  <1> DEFINE f == [c \in S |-> 1]
  <1>1. f \in Injection(S, DOMAIN times)
    BY DEF Injection, IsInjective
  <1> QED
    BY <1>1 DEF Cover

LEMMA CoverCounts ==
    ASSUME NEW S, NEW at, NEW X, NEW times \in Seq(X), Cover(S, at, times)
    PROVE  IsFiniteSet(S) /\ Cardinality(S) \in Nat /\ Cardinality(S) <= Len(times)
  <1>1. DOMAIN times = 1..Len(times) /\ Len(times) \in Nat
    OBVIOUS
  <1>2. IsFiniteSet(DOMAIN times) /\ Cardinality(DOMAIN times) = Len(times)
    BY <1>1, FS_Interval
  <1>3. PICK f : f \in Injection(S, DOMAIN times)
    BY DEF Cover
  <1>4. IsFiniteSet(S) /\ Cardinality(S) <= Cardinality(DOMAIN times)
    BY <1>2, <1>3, FS_Injection
  <1> QED
    BY <1>2, <1>4, FS_CardinalityType

(* The first m times go; none of them stood for a call.                    *)
LEMMA CoverOfRest ==
    ASSUME NEW S, NEW at, NEW X, NEW times \in Seq(X), Cover(S, at, times),
           NEW m \in 0..Len(times), NEW rest \in Seq(X), Len(rest) = Len(times) - m,
           \A i \in 1..(Len(times) - m) : rest[i] = times[m + i],
           \A i \in 1..m, c \in S : times[i] # at[c]
    PROVE  Cover(S, at, rest)
  <1>1. PICK f \in Injection(S, DOMAIN times) : \A c \in S : times[f[c]] = at[c]
    BY DEF Cover
  <1>2. DOMAIN times = 1..Len(times) /\ Len(times) \in Nat /\ DOMAIN rest = 1..(Len(times) - m)
    OBVIOUS
  <1>3. f \in [S -> 1..Len(times)] /\ \A c, d \in S : f[c] = f[d] => c = d
    BY <1>1, <1>2 DEF Injection, IsInjective
  <1>4. \A c \in S : f[c] \in (m + 1)..Len(times)
    BY <1>1, <1>2, <1>3
  <1> DEFINE g == [c \in S |-> f[c] - m]
  <1>5. \A c \in S : g[c] \in 1..(Len(times) - m) /\ m + g[c] = f[c]
    BY <1>2, <1>4
  <1>6. g \in Injection(S, DOMAIN rest)
    <2>1. g \in [S -> DOMAIN rest]
      BY <1>2, <1>5
    <2>2. \A c, d \in S : g[c] = g[d] => c = d
      BY <1>3, <1>5
    <2> QED
      BY <2>1, <2>2 DEF Injection, IsInjective
  <1>7. \A c \in S : rest[g[c]] = at[c]
    BY <1>1, <1>5
  <1> QED
    BY <1>6, <1>7 DEF Cover

LEMMA CoverOfOneMore ==
    ASSUME NEW S, NEW at, NEW X, NEW times \in Seq(X), Cover(S, at, times),
           NEW c, NEW more \in Seq(X), Len(more) = Len(times) + 1,
           \A i \in 1..Len(times) : more[i] = times[i],
           NEW new, \A d \in S \ {c} : new[d] = at[d], more[Len(times) + 1] = new[c]
    PROVE  Cover(S \cup {c}, new, more)
  <1>1. PICK f \in Injection(S, DOMAIN times) : \A d \in S : times[f[d]] = at[d]
    BY DEF Cover
  <1>2. /\ DOMAIN times = 1..Len(times) /\ Len(times) \in Nat
        /\ DOMAIN more = 1..(Len(times) + 1)
    OBVIOUS
  <1>3. f \in [S -> 1..Len(times)] /\ \A a, b \in S : f[a] = f[b] => a = b
    BY <1>1, <1>2 DEF Injection, IsInjective
  <1> DEFINE g == [d \in S \cup {c} |-> IF d = c THEN Len(times) + 1 ELSE f[d]]
  <1>4. g[c] = Len(times) + 1 /\ \A d \in S \ {c} : g[d] = f[d] /\ g[d] \in 1..Len(times)
    BY <1>3
  <1>5. g \in Injection(S \cup {c}, DOMAIN more)
    <2>1. g \in [S \cup {c} -> DOMAIN more]
      BY <1>2, <1>4
    <2>2. \A a, b \in S \cup {c} : g[a] = g[b] => a = b
      BY <1>2, <1>3, <1>4
    <2> QED
      BY <2>1, <2>2 DEF Injection, IsInjective
  <1>6. \A d \in S \cup {c} : more[g[d]] = new[d]
    <2>1. \A d \in S \ {c} : more[g[d]] = new[d]
      BY <1>1, <1>4
    <2> HIDE DEF g
    <2> QED
      BY <1>4, <2>1
  <1> QED
    BY <1>5, <1>6 DEF Cover

-----------------------------------------------------------------------------
(* Logins under way.  However many they are, crowd has counted them.       *)

Underway(c) == call[c].at \notin {"new", "done"}

CrowdInv ==
    /\ crowd \in [Keys -> Nat]
    /\ \A k \in Keys : IsFiniteSet(Busy(k)) /\ Cardinality(Busy(k)) <= crowd[k]

(* What all of this rests on.                                              *)
Base == AccessInv /\ RatesTypeOK /\ CrowdInv

LEMMA KeysOfCalls ==
    ASSUME NEW c \in Calls PROVE LoginKey(c) \in Keys
  BY AccessAssumption DEF LoginKey

(* Who has not been answered has not failed.                               *)
Unanswered(c) == KindOf[c] = "login" /\ call[c].at # "done"

(* Steps that touch neither failures nor locks, and lead nobody past the   *)
(* check of a lock.                                                        *)
Untouched ==
    /\ UNCHANGED <<now, failures, locks, crowd>>
    /\ \A c \in Calls : call'[c].failed = call[c].failed /\ call'[c].late = call[c].late
    /\ \A c \in Calls : KindOf[c] = "login" /\ Underway(c)' => Underway(c)
    /\ \A c \in Calls : Unanswered(c)' => Unanswered(c)

LEMMA CrowdStays ==
    ASSUME CrowdInv, UNCHANGED crowd,
           \A c \in Calls : KindOf[c] = "login" /\ Underway(c)' => Underway(c)
    PROVE  CrowdInv'
  <1> SUFFICES ASSUME NEW k \in Keys
               PROVE  IsFiniteSet(Busy(k)') /\ Cardinality(Busy(k)') <= crowd[k]
    BY DEF CrowdInv
  <1>1. Busy(k)' \subseteq Busy(k)
    BY DEF Busy, Underway, OfKey
  <1>2. IsFiniteSet(Busy(k)) /\ Cardinality(Busy(k)) <= crowd[k] /\ crowd[k] \in Nat
    BY DEF CrowdInv
  <1>3. IsFiniteSet(Busy(k)') /\ Cardinality(Busy(k)') <= Cardinality(Busy(k))
    BY <1>1, <1>2, FS_Subset
  <1>4. Cardinality(Busy(k)') \in Nat /\ Cardinality(Busy(k)) \in Nat
    BY <1>2, <1>3, FS_CardinalityType
  <1> QED
    BY <1>2, <1>3, <1>4

(* One call goes somewhere.                                                *)
LEMMA OneMoves ==
    ASSUME Base, NEW c \in Calls, NEW k, call' = [call EXCEPT ![c] = k],
           k.failed = call[c].failed, k.late = call[c].late,
           KindOf[c] = "login" /\ k.at # "done" => Underway(c),
           UNCHANGED <<now, failures, locks, crowd>>
    PROVE  Untouched
  <1>1. call \in [Calls -> Call]
    BY DEF Base, AccessInv
  <1>2. call'[c] = k /\ \A d \in Calls \ {c} : call'[d] = call[d]
    BY <1>1
  <1> QED
    BY <1>2 DEF Untouched, Underway, Unanswered

LEMMA GotoMoves ==
    ASSUME Base, NEW c \in Calls, NEW where, Goto(c, where),
           KindOf[c] = "login" /\ where # "done" => Underway(c),
           UNCHANGED <<now, failures, locks, crowd>>
    PROVE  Untouched
  <1> DEFINE k == [call[c] EXCEPT !.at = where]
  <1>1. call[c] \in Call /\ call \in [Calls -> Call]
    BY DEF Base, AccessInv
  <1>2. k.failed = call[c].failed /\ k.late = call[c].late /\ k.at = where
    BY <1>1 DEF Call
  <1>3. call' = [call EXCEPT ![c] = k]
    BY DEF Goto
  <1> HIDE DEF k
  <1> QED
    BY <1>2, <1>3, OneMoves

LEMMA ReadMoves ==
    ASSUME Base, NEW c \in Calls, Read(c, "read"), KindOf[c] = "login" => Underway(c),
           UNCHANGED <<now, failures, locks, crowd>>
    PROVE  Untouched
  <1> DEFINE u == UserOf[c]
             k == [[[call[c] EXCEPT !.at = "read"] EXCEPT !.seen = users[u]]
                       EXCEPT !.born = endings[u]]
  <1>1. call[c] \in Call /\ call \in [Calls -> Call]
    BY DEF Base, AccessInv
  <1>2. k.failed = call[c].failed /\ k.late = call[c].late
    BY <1>1 DEF Call
  <1>3. call' = [call EXCEPT ![c] = k]
    BY <1>1 DEF Read, Call
  <1> HIDE DEF k
  <1> QED
    BY <1>2, <1>3, OneMoves

LEMMA UserEntersMoves ==
    ASSUME Base, NEW c \in Calls, UserEnters(c)
    PROVE  Untouched
  <1> DEFINE u == UserOf[c]
  <1>1. PICK token \in tokens :
          call' = [call EXCEPT ![c].at = "principal", ![c].seen = users[u],
                               ![c].born = token.born, ![c].under = token.under]
    BY Zenon DEF UserEnters
  <1> DEFINE k == [[[[call[c] EXCEPT !.at = "principal"] EXCEPT !.seen = users[u]]
                        EXCEPT !.born = token.born] EXCEPT !.under = token.under]
  <1>2. call[c] \in Call /\ call \in [Calls -> Call]
    BY DEF Base, AccessInv
  <1>3. k.failed = call[c].failed /\ k.late = call[c].late
    BY <1>2 DEF Call
  <1>4. call' = [call EXCEPT ![c] = k]
    BY <1>1, <1>2 DEF Call
  <1>5. KindOf[c] # "login" /\ UNCHANGED <<now, failures, locks, crowd>>
    BY DEF UserEnters
  <1> HIDE DEF k
  <1> QED
    BY <1>3, <1>4, <1>5, OneMoves

LEMMA OthersMove ==
    ASSUME Base, NEW c \in Calls,
           \/ CountUsers(c) \/ InsertUsers(c) \/ SelectUser(c)
           \/ Refused(c) \/ UserEnters(c) \/ QueryEnters(c) \/ RevokeSession(c) \/ Refresh(c)
           \/ RequireUser(c) \/ CommitCommand(c) \/ CreateUser(c) \/ ManageService(c)
    PROVE  Untouched
  <1>1. CASE CountUsers(c)
    <2>1. KindOf[c] = "login" => Underway(c)
      BY <1>1 DEF CountUsers, Underway
    <2>2. Goto(c, "empty") \/ Goto(c, "done") \/ Read(c, "read")
      BY <1>1 DEF CountUsers
    <2> QED
      BY <1>1, <2>1, <2>2, GotoMoves, ReadMoves DEF CountUsers, rateVars
  <1>2. CASE InsertUsers(c)
    <2>1. Underway(c)
      BY <1>2 DEF InsertUsers, Underway
    <2> QED
      BY <1>2, <2>1, GotoMoves DEF InsertUsers, AfterBootstrap, rateVars
  <1>3. CASE SelectUser(c)
    <2>1. Underway(c)
      BY <1>3 DEF SelectUser, Underway
    <2> QED
      BY <1>3, <2>1, ReadMoves DEF SelectUser, rateVars
  <1>4. CASE RequireUser(c)
    <2>1. KindOf[c] # "login" /\ (Goto(c, "done") \/ Read(c, "read"))
      BY <1>4 DEF RequireUser, Commands
    <2> QED
      BY <1>4, <2>1, GotoMoves, ReadMoves DEF RequireUser, rateVars
  <1>5. CASE UserEnters(c)
    BY <1>5, UserEntersMoves
  <1>6. CASE \/ Refused(c) \/ QueryEnters(c) \/ RevokeSession(c) \/ Refresh(c)
             \/ CommitCommand(c) \/ CreateUser(c) \/ ManageService(c)
    <2>1. Goto(c, "done") /\ UNCHANGED <<now, failures, locks, crowd>>
      BY Zenon, <1>6 DEF Refused, QueryEnters, RevokeSession, Refresh, CommitCommand, CreateUser,
                  ManageService, rateVars
    <2> QED
      BY <2>1, GotoMoves
  <1> QED
    BY <1>1, <1>2, <1>3, <1>4, <1>5, <1>6

(* A login comes in, over the rate, while its key is locked, or as one     *)
(* more of its crowd.                                                      *)
LEMMA LoginArrivesDoes ==
    ASSUME Base, NEW c \in Calls, LoginArrives(c)
    PROVE  \/ Untouched
           \/ /\ ~Locked(LoginKey(c)) /\ KindOf[c] = "login" /\ call[c].at = "new"
              /\ Goto(c, "checked") /\ Crowds(LoginKey(c), Busy(LoginKey(c)) \cup {c})
              /\ locks' = [locks EXCEPT ![LoginKey(c)] = 0] /\ UNCHANGED <<now, failures>>
  <1>1. CASE Goto(c, "done") /\ UNCHANGED <<locks, crowd>>
    BY <1>1, GotoMoves DEF LoginArrives
  <1>2. CASE /\ CheckLoginLock(LoginKey(c))
             /\ IF Locked(LoginKey(c)) THEN Goto(c, "done") /\ UNCHANGED crowd
                ELSE Goto(c, "checked") /\ Crowds(LoginKey(c), Busy(LoginKey(c)) \cup {c})
    BY <1>1, <1>2 DEF LoginArrives, CheckLoginLock
  <1> QED
    BY <1>1, <1>2 DEF LoginArrives

LEMMA LoginArrivesKeepsCrowd ==
    ASSUME Base, NEW c \in Calls, LoginArrives(c)
    PROVE  CrowdInv' /\ \A k \in Keys : crowd'[k] >= crowd[k]
  <1> DEFINE key == LoginKey(c)
             more == Busy(key) \cup {c}
             n == Cardinality(more)
  <1>1. CASE Untouched
    BY <1>1, CrowdStays DEF Base, Untouched, CrowdInv
  <1>2. CASE Goto(c, "checked") /\ Crowds(key, more)
    <2>1. key \in Keys /\ IsFiniteSet(Busy(key)) /\ crowd \in [Keys -> Nat]
      BY KeysOfCalls DEF Base, CrowdInv
    <2>2. IsFiniteSet(more) /\ n \in Nat
      BY <2>1, FS_AddElement, FS_CardinalityType
    <2>3. \A d \in Calls \ {c} : call'[d] = call[d]
      BY <1>2 DEF Goto, Base, AccessInv
    <2>4. crowd' = IF n > crowd[key] THEN [crowd EXCEPT ![key] = n] ELSE crowd
      BY <1>2 DEF Crowds
    <2>5. Busy(key)' \subseteq more
      BY <2>3 DEF Busy, OfKey
    <2> HIDE DEF key, n
    <2>6. crowd' \in [Keys -> Nat] /\ n <= crowd'[key] /\ \A k \in Keys : crowd'[k] >= crowd[k]
      BY <2>1, <2>2, <2>4
    <2>7. IsFiniteSet(Busy(key)') /\ Cardinality(Busy(key)') <= crowd'[key]
      <3>1. IsFiniteSet(Busy(key)') /\ Cardinality(Busy(key)') <= n
        BY <2>2, <2>5, FS_Subset DEF n
      <3> QED
        BY <2>1, <2>2, <2>6, <3>1, FS_CardinalityType
    <2>8. ASSUME NEW k \in Keys, k # key
          PROVE  IsFiniteSet(Busy(k)') /\ Cardinality(Busy(k)') <= crowd'[k]
      <3>1. Busy(k)' \subseteq Busy(k)
        BY <2>3, <2>8 DEF Busy, OfKey, key
      <3>2. IsFiniteSet(Busy(k)) /\ Cardinality(Busy(k)) <= crowd[k] /\ crowd[k] \in Nat
        BY DEF Base, CrowdInv
      <3>3. IsFiniteSet(Busy(k)') /\ Cardinality(Busy(k)') <= Cardinality(Busy(k))
        BY <3>1, <3>2, FS_Subset
      <3>4. Cardinality(Busy(k)') \in Nat /\ Cardinality(Busy(k)) \in Nat /\ crowd'[k] \in Nat
        BY <2>6, <3>2, <3>3, FS_CardinalityType
      <3> QED
        BY <2>6, <3>2, <3>3, <3>4
    <2>9. ASSUME NEW k \in Keys PROVE IsFiniteSet(Busy(k)') /\ Cardinality(Busy(k)') <= crowd'[k]
      <3>1. CASE k = key
        BY <2>7, <3>1 DEF Busy, OfKey
      <3>2. CASE k # key
        BY <2>8, <3>2
      <3> QED
        BY <3>1, <3>2
    <2> QED
      BY <2>6, <2>9 DEF CrowdInv
  <1> QED
    BY <1>1, <1>2, LoginArrivesDoes

(* A login that fails, and what it makes of the other calls.               *)
LEMMA LoginFailsDoes ==
    ASSUME Base, NEW c \in Calls, LoginFails(c), NEW d \in Calls
    PROVE  /\ d = c => call'[d].at = "done" /\ call'[d].failed = now /\ call'[d].late = call[d].late
           /\ d # c => /\ call'[d].at = call[d].at /\ call'[d].failed = call[d].failed
                       /\ call'[d].late =
                            IF d \in Busy(LoginKey(c)) /\ failures'[LoginKey(c)] = <<>>
                            THEN now ELSE call[d].late
  <1>1. call[d] \in Call
    BY DEF Base, AccessInv
  <1>2. CASE d = c
    <2>1. call'[d] = [call[d] EXCEPT !.at = "done", !.failed = now]
      BY <1>2 DEF LoginFails
    <2> QED
      BY <1>1, <1>2, <2>1 DEF Call
  <1>3. CASE d # c /\ d \in Busy(LoginKey(c)) /\ failures'[LoginKey(c)] = <<>>
    <2>1. call'[d] = [call[d] EXCEPT !.late = now]
      BY <1>3 DEF LoginFails
    <2> QED
      BY <1>1, <1>3, <2>1 DEF Call
  <1>4. CASE d # c /\ ~(d \in Busy(LoginKey(c)) /\ failures'[LoginKey(c)] = <<>>)
    <2>1. call'[d] = call[d]
      BY <1>4 DEF LoginFails
    <2> QED
      BY <1>4, <2>1
  <1> QED
    BY <1>2, <1>3, <1>4

LEMMA LoginSucceedsDoes ==
    ASSUME Base, NEW c \in Calls, LoginSucceeds(c), NEW d \in Calls
    PROVE  /\ call'[d].at = IF d = c THEN "done" ELSE call[d].at
           /\ call'[d].failed = IF OfKey(d, LoginKey(c)) THEN 0 ELSE call[d].failed
           /\ call'[d].late = IF OfKey(d, LoginKey(c)) THEN 0 ELSE call[d].late
  <1>1. call[d] \in Call
    BY DEF Base, AccessInv
  <1>2. OfKey(c, LoginKey(c))
    BY DEF LoginSucceeds, OfKey
  <1>3. CASE OfKey(d, LoginKey(c))
    <2>1. call'[d] = [call[d] EXCEPT !.at = IF d = c THEN "done" ELSE @, !.failed = 0, !.late = 0]
      BY <1>3 DEF LoginSucceeds
    <2> QED
      BY <1>1, <1>3, <2>1 DEF Call
  <1>4. CASE ~OfKey(d, LoginKey(c))
    <2>1. call'[d] = call[d]
      BY <1>4 DEF LoginSucceeds
    <2> QED
      BY <1>2, <1>4, <2>1
  <1> QED
    BY <1>3, <1>4

(* A process starts in place of another, or beside it.                     *)
LEMMA StartProcessDoes ==
    ASSUME Base, NEW c \in Calls, StartProcess(c)
    PROVE  \/ Untouched
           \/ /\ RatesForgotten /\ UNCHANGED crowd
              /\ \A d \in Calls : /\ call'[d].failed = 0 /\ call'[d].late = 0
                                  /\ KindOf[d] = "login" =>
                                       call'[d].at = IF call[d].at = "new" THEN "new" ELSE "done"
  <1>1. KindOf[c] = "start" /\ UNCHANGED crowd
    BY DEF StartProcess
  <1>2. CASE Goto(c, "checked") /\ UNCHANGED rateVars
    BY <1>1, <1>2, GotoMoves DEF rateVars
  <1>3. CASE RatesForgotten /\ ~(Goto(c, "checked") /\ UNCHANGED rateVars)
    <2>1. ASSUME NEW d \in Calls
          PROVE  /\ call'[d].failed = 0 /\ call'[d].late = 0
                 /\ KindOf[d] = "login" =>
                      call'[d].at = IF call[d].at = "new" THEN "new" ELSE "done"
      <3> DEFINE where == IF d = c THEN "checked"
                          ELSE IF KindOf[d] \in Requests /\ call[d].at # "new" THEN "done"
                          ELSE call[d].at
      <3>1. call'[d] = [call[d] EXCEPT !.failed = 0, !.late = 0, !.at = where]
        BY <1>3 DEF StartProcess
      <3>2. call[d] \in Call
        BY DEF Base, AccessInv
      <3>3. KindOf[d] = "login" => where = IF call[d].at = "new" THEN "new" ELSE "done"
        BY <1>1 DEF Requests
      <3> HIDE DEF where
      <3> QED
        BY <3>1, <3>2, <3>3 DEF Call
    <2> QED
      BY <1>1, <1>3, <2>1
  <1> QED
    BY <1>2, <1>3 DEF StartProcess

LEMMA CleansUpDoes ==
    ASSUME Base, CleansUp, NEW d \in Calls
    PROVE  /\ call'[d].at = call[d].at /\ call'[d].late = call[d].late
           /\ call'[d].failed = IF KindOf[d] = "login" /\ LoginKey(d) \in Dropped
                                THEN 0 ELSE call[d].failed
  <1>1. call[d] \in Call
    BY DEF Base, AccessInv
  <1>2. CASE KindOf[d] = "login" /\ LoginKey(d) \in Dropped
    <2>1. call'[d] = [call[d] EXCEPT !.failed = 0]
      BY <1>2 DEF CleansUp
    <2> QED
      BY <1>1, <1>2, <2>1 DEF Call
  <1>3. CASE ~(KindOf[d] = "login" /\ LoginKey(d) \in Dropped)
    <2>1. call'[d] = call[d]
      BY <1>3 DEF CleansUp
    <2> QED
      BY <1>3, <2>1
  <1> QED
    BY <1>2, <1>3

LEMMA VerdictsKeepCrowd ==
    ASSUME Base, NEW c \in Calls, LoginFails(c) \/ LoginSucceeds(c) \/ StartProcess(c)
    PROVE  CrowdInv'
  <1>1. UNCHANGED crowd
    BY DEF LoginFails, LoginSucceeds, StartProcess
  <1>2. \A d \in Calls : KindOf[d] = "login" /\ Underway(d)' => Underway(d)
    BY LoginFailsDoes, LoginSucceedsDoes, StartProcessDoes DEF Underway, Untouched
  <1> QED
    BY <1>1, <1>2, CrowdStays DEF Base

-----------------------------------------------------------------------------
(* The guesses.  Of a window that is not over yet, either its key was      *)
(* locked in it, and whoever is on the way was on the way at that time, or *)
(* each login refused in it has an entry of its own in the list, and none  *)
(* was on the way while its key was locked.                                *)

FailedAt == [c \in Calls |-> call[c].failed]

RefusedSince(k, t) == {c \in Calls : OfKey(c, k) /\ call[c].failed >= t}

LockedIn(k, t) ==
    /\ locks[k] >= t + LockSeconds
    /\ \A c \in Busy(k) : call[c].late >= t

NotLockedIn(k, t) ==
    /\ Cover(RefusedSince(k, t), FailedAt, failures[k])
    /\ \A c \in Calls : OfKey(c, k) => call[c].late < t

Window(t) == t..(t + FailureWindow - 1)

(* Refused in the window of t: the first by the list, the late ones with   *)
(* those that were on the way when the lock came.                          *)
InTime(k, t) == {c \in Calls : OfKey(c, k) /\ call[c].failed \in Window(t) /\ call[c].late < t}

Late(k, t) == {c \in Calls : OfKey(c, k) /\ call[c].late \in Window(t)}

WindowOK(k, t) ==
    /\ IsFiniteSet(InTime(k, t)) /\ Cardinality(InTime(k, t)) <= FailureLimit
    /\ Late(k, t) = {} \/ (IsFiniteSet(Late(k, t)) /\ Cardinality(Late(k, t)) < crowd[k])

LoginOK(c, k) ==
    /\ call[c].failed <= now /\ call[c].late <= now
    /\ call[c].at # "done" => call[c].failed = 0
    /\ call[c].failed # 0 => call[c].late <= call[c].failed /\ crowd[k] >= 1

KeyOK(k) ==
    /\ \A c \in Calls : OfKey(c, k) => LoginOK(c, k)
    /\ \A t \in 1..MaxNow : now \in Window(t) => LockedIn(k, t) \/ NotLockedIn(k, t)
    /\ \A t \in 1..MaxNow : WindowOK(k, t)

GuessInv == \A k \in Keys : KeyOK(k)

LEMMA Fields ==
    ASSUME Base, NEW k \in Keys
    PROVE  /\ now \in Nat /\ now >= 1 /\ locks[k] \in Nat /\ failures[k] \in Seq(1..now)
           /\ InOrder(failures[k]) /\ crowd[k] \in Nat
           /\ LockSeconds \in Nat /\ FailureWindow \in Nat /\ FailureWindow >= 1
           /\ FailureWindow <= LockSeconds
           /\ FailureLimit \in Nat /\ FailureLimit >= 1
           /\ Len(failures[k]) \in Nat /\ Len(failures[k]) < FailureLimit
           /\ \A c \in Calls : call[c].failed \in Nat /\ call[c].late \in Nat
           /\ \A t \in 1..MaxNow : t \in Nat /\ t >= 1
  <1>1. \A c \in Calls : call[c].failed \in Nat /\ call[c].late \in Nat
    BY RatesAssumption DEF Base, AccessInv, Call
  <1>2. /\ LockSeconds \in Nat /\ FailureWindow \in Nat /\ FailureWindow >= 1
        /\ FailureLimit \in Nat /\ FailureLimit >= 1 /\ FailureWindow <= LockSeconds
    BY LocksAssumption
  <1>3. now \in Nat /\ now >= 1 /\ locks[k] \in Nat
    BY <1>2, RatesAssumption DEF Base, RatesTypeOK
  <1>4. \A t \in 1..MaxNow : t \in Nat /\ t >= 1
    BY RatesAssumption
  <1>5. crowd[k] \in Nat
    BY DEF Base, CrowdInv
  <1>6. /\ failures[k] \in Seq(1..now) /\ InOrder(failures[k]) /\ Len(failures[k]) < FailureLimit
        /\ Len(failures[k]) \in Nat
    BY DEF Base, RatesTypeOK
  <1> QED
    BY <1>1, <1>2, <1>3, <1>4, <1>5, <1>6

(* Sets of refused logins that do not grow.                                *)
LEMMA WindowKept ==
    ASSUME Base, Base', NEW k \in Keys, NEW t, WindowOK(k, t), crowd'[k] >= crowd[k],
           InTime(k, t)' \subseteq InTime(k, t), Late(k, t)' \subseteq Late(k, t)
    PROVE  WindowOK(k, t)'
  <1>1. IsFiniteSet(InTime(k, t)) /\ Cardinality(InTime(k, t)) <= FailureLimit
    BY DEF WindowOK
  <1>2. /\ IsFiniteSet(InTime(k, t)')
        /\ Cardinality(InTime(k, t)') <= Cardinality(InTime(k, t))
    BY <1>1, FS_Subset
  <1>3. Cardinality(InTime(k, t)') <= FailureLimit
    BY <1>1, <1>2, FS_CardinalityType, LocksAssumption
  <1>4. CASE Late(k, t) = {}
    BY <1>2, <1>3, <1>4 DEF WindowOK
  <1>5. CASE IsFiniteSet(Late(k, t)) /\ Cardinality(Late(k, t)) < crowd[k]
    <2>1. IsFiniteSet(Late(k, t)') /\ Cardinality(Late(k, t)') <= Cardinality(Late(k, t))
      BY <1>5, FS_Subset
    <2>2. Cardinality(Late(k, t)') \in Nat /\ Cardinality(Late(k, t)) \in Nat
      BY <1>5, <2>1, FS_CardinalityType
    <2>3. crowd[k] \in Nat /\ crowd'[k] \in Nat
      BY DEF Base, CrowdInv
    <2>4. Cardinality(Late(k, t)') < crowd'[k]
      BY <1>5, <2>1, <2>2, <2>3
    <2> QED
      BY <1>2, <1>3, <2>1, <2>4 DEF WindowOK
  <1> QED
    BY <1>4, <1>5 DEF WindowOK

(* The recent part of the list still stands for the refused of a window    *)
(* that is not over.                                                       *)
LEMMA RecentCovers ==
    ASSUME Base, NEW k \in Keys, NEW t \in 1..MaxNow, now \in Window(t),
           Cover(RefusedSince(k, t), FailedAt, failures[k])
    PROVE  /\ Cover(RefusedSince(k, t), FailedAt, Recent(failures[k], FailureWindow))
           /\ Recent(failures[k], FailureWindow) \in Seq(1..now)
  <1> DEFINE times == failures[k]
             rest == Recent(times, FailureWindow)
             S == RefusedSince(k, t)
  <1>0. /\ now \in Nat /\ now >= 1 /\ times \in Seq(1..now) /\ InOrder(times) /\ t \in Nat
        /\ FailureWindow \in Nat /\ \A c \in Calls : call[c].failed \in Nat
    BY Fields
  <1>1. 1..now \in SUBSET Nat
    BY <1>0
  <1>2. PICK m \in 0..Len(times) :
          /\ rest \in Seq(1..now) /\ Len(rest) = Len(times) - m
          /\ \A i \in 1..(Len(times) - m) : rest[i] = times[m + i]
          /\ \A i \in 1..Len(times) : i <= m <=> now - times[i] >= FailureWindow
    BY <1>0, <1>1, RecentAreLast
  <1>3. ASSUME NEW i \in 1..m, NEW c \in S, times[i] = FailedAt[c]
        PROVE  FALSE
    <2>1. i \in 1..Len(times) /\ now - times[i] >= FailureWindow
      BY <1>0, <1>2
    <2>2. c \in Calls /\ FailedAt[c] = call[c].failed /\ call[c].failed >= t
      BY DEF RefusedSince, FailedAt
    <2>3. now < t + FailureWindow
      BY <1>0 DEF Window
    <2> QED
      BY <1>0, <1>3, <2>1, <2>2, <2>3
  <1> HIDE DEF S, rest, times
  <1>4. Cover(S, FailedAt, times)
    BY DEF S, times
  <1>5. Cover(S, FailedAt, rest)
    BY <1>0, <1>2, <1>3, <1>4, CoverOfRest
  <1> QED
    BY <1>2, <1>5 DEF S, rest, times

(* A step that refuses none of the logins of a key and sets no lock: if it *)
(* lets another one past the check, no lock was there.                     *)
LEMMA KeyCarried ==
    ASSUME Base, Base', NEW k \in Keys, KeyOK(k), now' = now, crowd'[k] >= crowd[k],
           \A c \in Calls : OfKey(c, k) => /\ call'[c].late = call[c].late
                                           /\ call'[c].failed \in {call[c].failed, 0}
                                           /\ call'[c].at # "done" => call[c].at # "done",
           \/ failures'[k] \in {failures[k], Recent(failures[k], FailureWindow)}
           \/ \A c \in Calls : OfKey(c, k) => call'[c].failed = 0,
           Locked(k) => locks'[k] = locks[k] /\ Busy(k)' \subseteq Busy(k)
    PROVE  KeyOK(k)'
  <1>0. /\ now \in Nat /\ locks[k] \in Nat /\ crowd[k] \in Nat /\ crowd'[k] \in Nat
        /\ FailureWindow \in Nat /\ LockSeconds \in Nat /\ FailureWindow <= LockSeconds
        /\ \A c \in Calls : call[c].failed \in Nat /\ call[c].late \in Nat
        /\ \A t \in 1..MaxNow : t \in Nat /\ t >= 1
    BY Fields DEF Base, CrowdInv
  <1>1. ASSUME NEW c \in Calls, OfKey(c, k) PROVE LoginOK(c, k)'
    <2>1. LoginOK(c, k)
      BY <1>1 DEF KeyOK
    <2> QED
      BY <1>0, <1>1, <2>1 DEF LoginOK
  <1>2. ASSUME NEW t \in 1..MaxNow, now \in Window(t)
        PROVE  LockedIn(k, t)' \/ NotLockedIn(k, t)'
    <2>1. CASE LockedIn(k, t)
      <3>1. Locked(k)
        BY <1>0, <1>2, <2>1 DEF Locked, LockedIn, Window
      <3>2. \A c \in Busy(k)' : c \in Busy(k) /\ c \in Calls /\ OfKey(c, k)
        BY <3>1 DEF Busy
      <3> QED
        BY <2>1, <3>1, <3>2 DEF LockedIn
    <2>2. CASE NotLockedIn(k, t)
      <3>1. \A c \in Calls : OfKey(c, k) => call'[c].late < t
        BY <2>2 DEF NotLockedIn
      <3>2. CASE \A c \in Calls : OfKey(c, k) => call'[c].failed = 0
        <4>1. RefusedSince(k, t)' = {}
          BY <1>0, <3>2 DEF RefusedSince, OfKey, LoginKey
        <4> QED
          BY <3>1, <4>1, CoverOfNone DEF NotLockedIn, OfKey, LoginKey
      <3>3. CASE failures'[k] \in {failures[k], Recent(failures[k], FailureWindow)}
        <4>1. Cover(RefusedSince(k, t), FailedAt, failures'[k])
          BY <1>2, <2>2, <3>3, RecentCovers DEF NotLockedIn
        <4>2. /\ RefusedSince(k, t)' \subseteq RefusedSince(k, t)
              /\ \A c \in RefusedSince(k, t)' : FailedAt'[c] = FailedAt[c]
          BY <1>0 DEF RefusedSince, FailedAt, OfKey, LoginKey
        <4>3. Cover(RefusedSince(k, t)', FailedAt', failures'[k])
          BY <4>1, <4>2, CoverOfFewer
        <4> QED
          BY <3>1, <4>3 DEF NotLockedIn, OfKey, LoginKey
      <3> QED
        BY <3>2, <3>3
    <2> QED
      BY <1>2, <2>1, <2>2 DEF KeyOK
  <1>3. ASSUME NEW t \in 1..MaxNow PROVE WindowOK(k, t)'
    <2>1. InTime(k, t)' \subseteq InTime(k, t)
      BY <1>0 DEF InTime, Window, OfKey, LoginKey
    <2>2. Late(k, t)' \subseteq Late(k, t)
      BY DEF Late, OfKey, LoginKey
    <2> QED
      BY <2>1, <2>2, WindowKept DEF KeyOK
  <1> QED
    BY <1>1, <1>2, <1>3 DEF KeyOK, OfKey, LoginKey

(* A key whose calls have nothing that counts.                             *)
NothingCounts(k) == \A c \in Calls : OfKey(c, k) => call[c].failed = 0 /\ call[c].late = 0

ClearedKeys == \A k \in Keys : NothingCounts(k) => KeyOK(k)

LEMMA KeyCleared == Base => ClearedKeys
  <1> SUFFICES ASSUME Base, NEW k \in Keys, NothingCounts(k) PROVE KeyOK(k)
    BY DEF ClearedKeys
  <1>0. /\ now \in Nat /\ FailureWindow \in Nat /\ FailureLimit \in Nat
        /\ \A t \in 1..MaxNow : t \in Nat /\ t >= 1
    BY Fields
  <1>1. \A c \in Calls : OfKey(c, k) => LoginOK(c, k)
    BY <1>0 DEF LoginOK, NothingCounts
  <1>2. ASSUME NEW t \in 1..MaxNow PROVE NotLockedIn(k, t) /\ WindowOK(k, t)
    <2>1. RefusedSince(k, t) = {} /\ InTime(k, t) = {} /\ Late(k, t) = {}
      BY <1>0 DEF RefusedSince, InTime, Late, Window, NothingCounts
    <2>2. NotLockedIn(k, t)
      BY <1>0, <2>1, CoverOfNone DEF NotLockedIn, NothingCounts
    <2> QED
      BY <1>0, <2>1, <2>2, FS_EmptySet DEF WindowOK
  <1> QED
    BY <1>1, <1>2 DEF KeyOK

LEMMA KeyClearedNext == Base' => ClearedKeys'
  BY KeyCleared, PTL

LEMMA UntouchedKeeps ==
    ASSUME Base, GuessInv, Base', Untouched
    PROVE  GuessInv'
  <1> SUFFICES ASSUME NEW k \in Keys PROVE KeyOK(k)'
    BY DEF GuessInv
  <1>1. KeyOK(k) /\ crowd[k] \in Nat
    BY Fields DEF GuessInv
  <1>2. Busy(k)' \subseteq Busy(k)
    BY DEF Untouched, Busy, Underway, OfKey
  <1>3. \A c \in Calls : OfKey(c, k) => /\ call'[c].late = call[c].late
                                        /\ call'[c].failed \in {call[c].failed, 0}
                                        /\ call'[c].at # "done" => call[c].at # "done"
    BY DEF Untouched, Unanswered, OfKey
  <1>4. now' = now /\ crowd'[k] >= crowd[k] /\ failures' = failures /\ locks' = locks
    BY <1>1 DEF Untouched
  <1> QED
    BY <1>1, <1>2, <1>3, <1>4, KeyCarried

(* A login passes the check only where no lock is.                         *)
LEMMA LoginArrivesKeepsGuesses ==
    ASSUME Base, GuessInv, Base', NEW c \in Calls, LoginArrives(c)
    PROVE  GuessInv'
  <1> DEFINE key == LoginKey(c)
  <1>1. CASE Untouched
    BY <1>1, UntouchedKeeps
  <1>2. CASE /\ ~Locked(key) /\ KindOf[c] = "login" /\ call[c].at = "new"
             /\ Goto(c, "checked") /\ Crowds(key, Busy(key) \cup {c})
             /\ locks' = [locks EXCEPT ![key] = 0] /\ UNCHANGED <<now, failures>>
    <2> SUFFICES ASSUME NEW k \in Keys PROVE KeyOK(k)'
      BY DEF GuessInv
    <2>1. KeyOK(k) /\ locks \in [Keys -> 0..(MaxNow + LockSeconds)] /\ crowd'[k] >= crowd[k]
      BY LoginArrivesKeepsCrowd DEF GuessInv, Base, RatesTypeOK
    <2>2. /\ \A d \in Calls \ {c} : call'[d] = call[d]
          /\ call'[c].failed = call[c].failed /\ call'[c].late = call[c].late
      BY <1>2 DEF Goto, Base, AccessInv, Call
    <2>3. \A d \in Calls : OfKey(d, k) => /\ call'[d].late = call[d].late
                                          /\ call'[d].failed \in {call[d].failed, 0}
                                          /\ call'[d].at # "done" => call[d].at # "done"
      BY <1>2, <2>2
    <2>4. Locked(k) => locks'[k] = locks[k] /\ Busy(k)' \subseteq Busy(k)
      BY <1>2, <2>1, <2>2 DEF Busy, OfKey
    <2> QED
      BY <1>2, <2>1, <2>3, <2>4, KeyCarried
  <1> QED
    BY <1>1, <1>2, LoginArrivesDoes

LEMMA LoginSucceedsKeepsGuesses ==
    ASSUME Base, GuessInv, Base', NEW c \in Calls, LoginSucceeds(c)
    PROVE  GuessInv'
  <1> SUFFICES ASSUME NEW k \in Keys PROVE KeyOK(k)'
    BY DEF GuessInv
  <1>1. CASE k = LoginKey(c)
    <2>1. \A d \in Calls : OfKey(d, k) => call'[d].failed = 0 /\ call'[d].late = 0
      BY <1>1, LoginSucceedsDoes
    <2>2. NothingCounts(k)'
      BY <2>1 DEF NothingCounts, OfKey, LoginKey
    <2> QED
      BY <2>2, KeyClearedNext DEF ClearedKeys
  <1>2. CASE k # LoginKey(c)
    <2>1. KeyOK(k) /\ crowd[k] \in Nat /\ now' = now /\ crowd' = crowd
      BY Fields DEF GuessInv, LoginSucceeds
    <2>2. locks'[k] = locks[k] /\ failures'[k] = failures[k]
      BY <1>2 DEF LoginSucceeds, ClearLoginFailures, Base, RatesTypeOK
    <2>3. \A d \in Calls : OfKey(d, k) => /\ call'[d].late = call[d].late
                                          /\ call'[d].failed \in {call[d].failed, 0}
                                          /\ call'[d].at # "done" => call[d].at # "done"
      BY LoginSucceedsDoes, <1>2 DEF OfKey
    <2>4. Busy(k)' \subseteq Busy(k)
      BY LoginSucceedsDoes DEF Busy, OfKey
    <2> QED
      BY <2>1, <2>2, <2>3, <2>4, KeyCarried
  <1> QED
    BY <1>1, <1>2

LEMMA StartProcessKeepsGuesses ==
    ASSUME Base, GuessInv, Base', NEW c \in Calls, StartProcess(c)
    PROVE  GuessInv'
  <1>1. CASE Untouched
    BY <1>1, UntouchedKeeps
  <1>2. CASE \A d \in Calls : call'[d].failed = 0 /\ call'[d].late = 0
    <2> SUFFICES ASSUME NEW k \in Keys PROVE KeyOK(k)'
      BY DEF GuessInv
    <2>1. NothingCounts(k)'
      BY <1>2 DEF NothingCounts
    <2> QED
      BY <2>1, KeyClearedNext DEF ClearedKeys
  <1> QED
    BY <1>1, <1>2, StartProcessDoes

LEMMA CleansUpKeepsGuesses ==
    ASSUME Base, GuessInv, Base', CleansUp
    PROVE  GuessInv'
  <1> SUFFICES ASSUME NEW k \in Keys PROVE KeyOK(k)'
    BY DEF GuessInv
  <1>1. KeyOK(k) /\ crowd[k] \in Nat /\ crowd' = crowd /\ Cleanup
    BY Fields DEF GuessInv, CleansUp
  <1>2. /\ now' = now
        /\ \/ failures'[k] = Recent(failures[k], FailureWindow)
           \/ (failures'[k] = <<>> /\ k \in Dropped)
        /\ locks' = [g \in Keys |-> IF Locked(g) THEN locks[g] ELSE 0]
    BY <1>1, CleanupLeaves DEF Base
  <1>3. \A c \in Calls : OfKey(c, k) => /\ call'[c].late = call[c].late
                                        /\ call'[c].failed \in {call[c].failed, 0}
                                        /\ call'[c].at # "done" => call[c].at # "done"
    BY CleansUpDoes
  <1>4. k \in Dropped => \A c \in Calls : OfKey(c, k) => call'[c].failed = 0
    BY CleansUpDoes DEF OfKey
  <1>5. Locked(k) => locks'[k] = locks[k] /\ Busy(k)' \subseteq Busy(k)
    BY <1>2, CleansUpDoes DEF Busy, OfKey
  <1>6. \/ failures'[k] \in {failures[k], Recent(failures[k], FailureWindow)}
        \/ \A c \in Calls : OfKey(c, k) => call'[c].failed = 0
    BY <1>2, <1>4
  <1> QED
    BY <1>1, <1>2, <1>3, <1>5, <1>6, KeyCarried

(* A tick begins a window in which nothing has happened.                   *)
LEMMA TimePassesKeepsGuesses ==
    ASSUME Base, GuessInv, Base', TimePasses
    PROVE  GuessInv'
  <1> SUFFICES ASSUME NEW k \in Keys PROVE KeyOK(k)'
    BY DEF GuessInv
  <1>0. /\ KeyOK(k) /\ call' = call /\ crowd' = crowd /\ now' = now + 1
        /\ failures' = failures /\ locks' = locks
    BY DEF GuessInv, TimePasses, Tick, accessVars
  <1>1. /\ now \in Nat /\ FailureWindow \in Nat
        /\ \A c \in Calls : call[c].failed \in Nat /\ call[c].late \in Nat
        /\ \A t \in 1..MaxNow : t \in Nat /\ t >= 1
    BY Fields
  <1>2. \A c \in Calls : OfKey(c, k) => LoginOK(c, k)'
    BY <1>0, <1>1 DEF KeyOK, LoginOK
  <1>3. ASSUME NEW t \in 1..MaxNow, now + 1 \in Window(t)
        PROVE  LockedIn(k, t)' \/ NotLockedIn(k, t)'
    <2>1. CASE t = now + 1
      <3>1. \A c \in Calls : OfKey(c, k) => call[c].failed < t /\ call[c].late < t
        BY <1>0, <1>1, <2>1 DEF KeyOK, LoginOK
      <3>2. RefusedSince(k, t)' = {}
        BY <1>0, <1>1, <3>1 DEF RefusedSince, OfKey, LoginKey
      <3> QED
        BY <1>0, <3>1, <3>2, CoverOfNone DEF NotLockedIn, OfKey, LoginKey
    <2>2. CASE t # now + 1
      <3>1. now \in Window(t)
        BY <1>1, <1>3, <2>2 DEF Window
      <3>2. LockedIn(k, t) \/ NotLockedIn(k, t)
        BY <1>0, <3>1 DEF KeyOK
      <3>3. Busy(k)' = Busy(k) /\ RefusedSince(k, t)' = RefusedSince(k, t) /\ FailedAt' = FailedAt
        BY <1>0 DEF Busy, RefusedSince, FailedAt, OfKey, LoginKey
      <3> QED
        BY <1>0, <3>2, <3>3 DEF LockedIn, NotLockedIn, OfKey, LoginKey
    <2> QED
      BY <2>1, <2>2
  <1>4. ASSUME NEW t \in 1..MaxNow PROVE WindowOK(k, t)'
    <2>1. InTime(k, t)' = InTime(k, t) /\ Late(k, t)' = Late(k, t)
      BY <1>0 DEF InTime, Late, OfKey, LoginKey, Window
    <2> QED
      BY <1>0, <2>1 DEF KeyOK, WindowOK
  <1> QED
    BY <1>0, <1>2, <1>3, <1>4 DEF KeyOK, OfKey, LoginKey

-----------------------------------------------------------------------------
(* A login that fails.                                                     *)

LEMMA LoginFailsElsewhere ==
    ASSUME Base, GuessInv, Base', NEW c \in Calls, LoginFails(c),
           NEW k \in Keys, k # LoginKey(c)
    PROVE  KeyOK(k)'
  <1>1. KeyOK(k) /\ crowd[k] \in Nat /\ now' = now /\ crowd' = crowd
    BY Fields DEF GuessInv, LoginFails
  <1>2. locks'[k] = locks[k] /\ failures'[k] = failures[k]
    BY DEF LoginFails, RecordLoginFailure, Base, RatesTypeOK
  <1>3. \A d \in Calls : OfKey(d, k) => call'[d].late = call[d].late
    BY LoginFailsDoes DEF OfKey, Busy
  <1>4. \A d \in Calls : OfKey(d, k) => /\ call'[d].failed \in {call[d].failed, 0}
                                        /\ call'[d].at # "done" => call[d].at # "done"
    BY LoginFailsDoes DEF OfKey
  <1>5. Busy(k)' \subseteq Busy(k)
    BY LoginFailsDoes DEF Busy, OfKey
  <1> QED
    BY <1>1, <1>2, <1>3, <1>4, <1>5, KeyCarried

(* The two outcomes for its key: a lock, or one more entry in the list.    *)
Locks(c, k) ==
    /\ locks'[k] = now + LockSeconds
    /\ \A d \in Busy(k) \ {c} : call'[d].late = now

Lists(c, k) ==
    /\ locks'[k] = locks[k]
    /\ failures'[k] = Append(Recent(failures[k], FailureWindow), now)
    /\ \A d \in Calls : call'[d].late = call[d].late

LEMMA LoginFailsHere ==
    ASSUME Base, GuessInv, NEW c \in Calls, LoginFails(c), NEW k \in Keys, k = LoginKey(c)
    PROVE  /\ Locks(c, k) \/ Lists(c, k)
           /\ now' = now /\ crowd' = crowd /\ crowd[k] >= 1
           /\ OfKey(c, k) /\ c \in Busy(k)
           /\ call'[c].at = "done" /\ call'[c].failed = now /\ call'[c].late = call[c].late
           /\ \A d \in Calls \ {c} : /\ call'[d].at = call[d].at
                                     /\ call'[d].failed = call[d].failed
                                     /\ call'[d].late # call[d].late =>
                                          d \in Busy(k) /\ call'[d].late = now /\ Locks(c, k)
  <1> DEFINE attempts == Append(Recent(failures[k], FailureWindow), now)
  <1>1. locks \in [Keys -> 0..(MaxNow + LockSeconds)] /\ failures \in [Keys -> Seq(1..now)]
    BY DEF Base, RatesTypeOK
  <1>2. OfKey(c, k) /\ c \in Busy(k) /\ now' = now /\ crowd' = crowd
    BY DEF OfKey, Busy, LoginFails
  <1>3. crowd[k] >= 1
    <2>1. IsFiniteSet(Busy(k)) /\ Cardinality(Busy(k)) <= crowd[k] /\ crowd[k] \in Nat
      BY DEF Base, CrowdInv
    <2>2. Cardinality(Busy(k)) \in Nat /\ Cardinality(Busy(k)) # 0
      BY <1>2, <2>1, FS_EmptySet, FS_CardinalityType
    <2> QED
      BY <2>1, <2>2
  <1>4. CASE locks' = [locks EXCEPT ![k] = now + LockSeconds] /\ failures' = [failures EXCEPT ![k] = <<>>]
    <2>1. locks'[k] = now + LockSeconds /\ failures'[LoginKey(c)] = <<>>
      BY <1>1, <1>4
    <2>2. Locks(c, k)
      BY <2>1, LoginFailsDoes DEF Locks, Busy
    <2> QED
      BY <1>2, <1>3, <2>2, LoginFailsDoes
  <1>5. CASE locks' = locks /\ failures' = [failures EXCEPT ![k] = attempts]
    <2>1. attempts # <<>>
      <3>1. Len(attempts) = Len(Recent(failures[k], FailureWindow)) + 1
            /\ Len(Recent(failures[k], FailureWindow)) \in Nat
        <4>1. Recent(failures[k], FailureWindow) \in Seq(1..now) /\ now \in Nat /\ now >= 1
          BY KeptFailures, Fields DEF Base
        <4> QED
          BY <4>1, AppendNow, LenProperties
      <3> HIDE DEF attempts
      <3> QED
        BY <3>1
    <2> HIDE DEF attempts
    <2>2. failures'[LoginKey(c)] # <<>> /\ failures'[k] = attempts
      BY <1>1, <1>5, <2>1
    <2>3. \A d \in Calls : call'[d].late = call[d].late
      BY <2>2, LoginFailsDoes
    <2>4. Lists(c, k)
      BY <1>5, <2>2, <2>3 DEF Lists, attempts
    <2> QED
      BY <1>2, <1>3, <2>3, <2>4, LoginFailsDoes
  <1> QED
    BY <1>4, <1>5 DEF LoginFails, RecordLoginFailure

LEMMA LoginFailsLogins ==
    ASSUME Base, GuessInv, NEW c \in Calls, LoginFails(c), NEW k \in Keys, k = LoginKey(c),
           NEW d \in Calls, OfKey(d, k)
    PROVE  LoginOK(d, k)'
  <1>1. /\ LoginOK(d, k) /\ now \in Nat /\ call[d].late \in Nat /\ call[d].failed \in Nat
        /\ now' = now /\ crowd' = crowd /\ crowd[k] >= 1
    BY Fields, LoginFailsHere DEF GuessInv, KeyOK
  <1>2. CASE d = c
    <2>1. call'[c].at = "done" /\ call'[c].failed = now /\ call'[c].late = call[c].late
      BY LoginFailsHere
    <2> QED
      BY <1>1, <1>2, <2>1 DEF LoginOK
  <1>3. CASE d # c
    <2>1. /\ call'[d].at = call[d].at /\ call'[d].failed = call[d].failed
          /\ call'[d].late # call[d].late => d \in Busy(k) /\ call'[d].late = now
      BY <1>3, LoginFailsHere
    <2>2. d \in Busy(k) => call[d].failed = 0
      BY <1>1 DEF Busy, LoginOK
    <2> QED
      BY <1>1, <2>1, <2>2 DEF LoginOK
  <1> QED
    BY <1>2, <1>3

(* One more entry for one more refused login.                              *)
LEMMA OneMoreEntry ==
    ASSUME Base, GuessInv, NEW c \in Calls, LoginFails(c), NEW k \in Keys, k = LoginKey(c),
           Lists(c, k), NEW t \in 1..MaxNow, now \in Window(t),
           Cover(RefusedSince(k, t), FailedAt, failures[k])
    PROVE  Cover(RefusedSince(k, t)', FailedAt', failures'[k])
  <1> DEFINE S == RefusedSince(k, t)
             recent == Recent(failures[k], FailureWindow)
             more == Append(recent, now)
  <1>1. Cover(S, FailedAt, recent) /\ recent \in Seq(1..now)
    BY RecentCovers
  <1>2. now \in Nat /\ now >= 1 /\ more = failures'[k]
    BY Fields DEF Lists
  <1> HIDE DEF recent
  <1>3. /\ more \in Seq(1..now) /\ Len(more) = Len(recent) + 1
        /\ \A i \in 1..Len(recent) : more[i] = recent[i]
        /\ more[Len(recent) + 1] = now
    BY <1>1, <1>2, AppendNow
  <1> HIDE DEF more
  <1>4. call'[c].failed = now /\ \A d \in Calls \ {c} : call'[d].failed = call[d].failed
    BY LoginFailsHere
  <1>5. (\A d \in S \ {c} : FailedAt'[d] = FailedAt[d]) /\ FailedAt'[c] = now
    BY <1>4 DEF RefusedSince, FailedAt
  <1>6. RefusedSince(k, t)' \subseteq S \cup {c}
    BY <1>4 DEF RefusedSince, OfKey, LoginKey
  <1> HIDE DEF S
  <1>7. Cover(S \cup {c}, FailedAt', more)
    BY <1>1, <1>3, <1>5, CoverOfOneMore
  <1>8. Cover(RefusedSince(k, t)', FailedAt', more)
    BY <1>6, <1>7, CoverOfFewer
  <1> QED
    BY <1>2, <1>8

LEMMA LoginFailsLocks ==
    ASSUME Base, GuessInv, NEW c \in Calls, LoginFails(c), NEW k \in Keys, k = LoginKey(c),
           NEW t \in 1..MaxNow, now \in Window(t)
    PROVE  LockedIn(k, t)' \/ NotLockedIn(k, t)'
  <1>0. /\ now \in Nat /\ t \in Nat /\ LockSeconds \in Nat /\ FailureWindow \in Nat /\ t <= now
        /\ LockedIn(k, t) \/ NotLockedIn(k, t)
    BY Fields DEF GuessInv, KeyOK, Window
  <1>1. Busy(k)' \subseteq Busy(k) \ {c}
    BY LoginFailsHere DEF Busy, OfKey, LoginKey
  <1>2. CASE Locks(c, k)
    <2>1. \A d \in Busy(k)' : call'[d].late >= t
      BY <1>0, <1>1, <1>2 DEF Locks
    <2>2. locks'[k] >= t + LockSeconds
      BY <1>0, <1>2 DEF Locks
    <2> QED
      BY <2>1, <2>2 DEF LockedIn
  <1>3. CASE Lists(c, k) /\ LockedIn(k, t)
    <2>1. \A d \in Busy(k)' : d \in Calls /\ call'[d].late >= t
      BY <1>1, <1>3 DEF Lists, LockedIn, Busy
    <2> QED
      BY <1>3, <2>1 DEF Lists, LockedIn
  <1>4. CASE Lists(c, k) /\ NotLockedIn(k, t)
    <2>1. Cover(RefusedSince(k, t)', FailedAt', failures'[k])
      BY <1>4, OneMoreEntry DEF NotLockedIn
    <2>2. \A d \in Calls : OfKey(d, k) => call'[d].late < t
      BY <1>4 DEF Lists, NotLockedIn
    <2> QED
      BY <2>1, <2>2 DEF NotLockedIn, OfKey, LoginKey
  <1> QED
    BY <1>0, <1>2, <1>3, <1>4, LoginFailsHere

LEMMA LoginFailsInWindow ==
    ASSUME Base, GuessInv, Base', NEW c \in Calls, LoginFails(c), NEW k \in Keys, k = LoginKey(c),
           NEW t \in 1..MaxNow
    PROVE  WindowOK(k, t)'
  <1>0. /\ now \in Nat /\ t \in Nat /\ t >= 1 /\ FailureWindow \in Nat /\ FailureLimit \in Nat
        /\ crowd[k] \in Nat /\ WindowOK(k, t) /\ now' = now /\ crowd' = crowd
        /\ \A d \in Calls : call[d].failed \in Nat /\ call[d].late \in Nat
        /\ \A d \in Busy(k) : d \in Calls /\ OfKey(d, k) /\ call[d].failed = 0
    BY Fields, LoginFailsHere DEF GuessInv, KeyOK, LoginOK, Busy
  <1>1. \A d \in InTime(k, t)' : \/ d \in InTime(k, t)
                                 \/ d = c /\ now \in Window(t) /\ call[c].late < t
    <2> SUFFICES ASSUME NEW d \in InTime(k, t)', d # c PROVE d \in InTime(k, t)
      BY LoginFailsHere DEF InTime
    <2>1. /\ d \in Calls /\ OfKey(d, k) /\ call[d].failed \in Window(t) /\ call'[d].late < t
      BY LoginFailsHere DEF InTime, OfKey, LoginKey, Window
    <2>2. call'[d].late = call[d].late
      BY <1>0, <2>1, LoginFailsHere DEF Window
    <2> QED
      BY <2>1, <2>2 DEF InTime
  <1>2. \A d \in Late(k, t)' : \/ d \in Late(k, t)
                               \/ d \in Busy(k) \ {c} /\ now \in Window(t) /\ Locks(c, k)
    BY LoginFailsHere DEF Late, OfKey, LoginKey, Window
  <1>3. CASE now \notin Window(t)
    BY <1>0, <1>1, <1>2, <1>3, WindowKept
  <1>4. CASE now \in Window(t) /\ LockedIn(k, t)
    <2>1. ASSUME NEW d \in Busy(k) PROVE call[d].late >= t /\ d \in Late(k, t)
      <3>1. call[d].late >= t /\ call[d].late <= now /\ d \in Calls /\ OfKey(d, k)
        BY <1>0, <1>4 DEF LockedIn, GuessInv, KeyOK, LoginOK
      <3> QED
        BY <1>0, <1>4, <3>1 DEF Late, Window
    <2>2. c \in Busy(k)
      BY LoginFailsHere
    <2>3. InTime(k, t)' \subseteq InTime(k, t) /\ Late(k, t)' \subseteq Late(k, t)
      BY <1>0, <1>1, <1>2, <2>1, <2>2
    <2> QED
      BY <1>0, <2>3, WindowKept
  <1>5. CASE now \in Window(t) /\ NotLockedIn(k, t)
    <2> DEFINE S == RefusedSince(k, t)
    <2>1. /\ Cover(S, FailedAt, failures[k]) /\ failures[k] \in Seq(1..now)
          /\ Len(failures[k]) \in Nat /\ Len(failures[k]) < FailureLimit
      BY <1>5, Fields DEF NotLockedIn
    <2>2. IsFiniteSet(S) /\ Cardinality(S) \in Nat /\ Cardinality(S) <= Len(failures[k])
      BY <2>1, CoverCounts
    <2>3. InTime(k, t)' \subseteq S \cup {c}
      <3>1. InTime(k, t) \subseteq S
        BY <1>0 DEF InTime, RefusedSince, Window
      <3> QED
        BY <1>1, <3>1
    <2> HIDE DEF S
    <2>4. /\ IsFiniteSet(S \cup {c}) /\ Cardinality(S \cup {c}) \in Nat
          /\ Cardinality(S \cup {c}) <= Cardinality(S) + 1
      <3>1. /\ IsFiniteSet(S \cup {c})
            /\ Cardinality(S \cup {c}) = IF c \in S THEN Cardinality(S) ELSE Cardinality(S) + 1
        BY <2>2, FS_AddElement
      <3> QED
        BY <2>2, <3>1
    <2>5. /\ IsFiniteSet(InTime(k, t)') /\ Cardinality(InTime(k, t)') \in Nat
          /\ Cardinality(InTime(k, t)') <= Cardinality(S \cup {c})
      BY <2>3, <2>4, FS_Subset, FS_CardinalityType
    <2>6. Cardinality(InTime(k, t)') <= FailureLimit
      BY <1>0, <2>1, <2>2, <2>4, <2>5
    <2>7. Late(k, t) = {}
      BY <1>0, <1>5 DEF Late, NotLockedIn, Window
    <2>8. Late(k, t)' \subseteq Busy(k) \ {c}
      BY <1>2, <2>7
    <2>9. IsFiniteSet(Busy(k)) /\ Cardinality(Busy(k)) <= crowd[k] /\ c \in Busy(k)
      BY LoginFailsHere DEF Base, CrowdInv
    <2>10. /\ IsFiniteSet(Busy(k) \ {c})
           /\ Cardinality(Busy(k) \ {c}) = Cardinality(Busy(k)) - 1
      BY <2>9, FS_RemoveElement
    <2>11. /\ IsFiniteSet(Late(k, t)')
           /\ Cardinality(Late(k, t)') <= Cardinality(Busy(k) \ {c})
      BY <2>8, <2>10, FS_Subset
    <2>12. Cardinality(Late(k, t)') < crowd'[k]
      <3>1. Cardinality(Late(k, t)') \in Nat /\ Cardinality(Busy(k)) \in Nat
        BY <2>9, <2>11, FS_CardinalityType
      <3> QED
        BY <1>0, <2>9, <2>10, <2>11, <3>1
    <2> QED
      BY <2>5, <2>6, <2>11, <2>12 DEF WindowOK
  <1> QED
    BY <1>3, <1>4, <1>5 DEF GuessInv, KeyOK

LEMMA LoginFailsKeepsGuesses ==
    ASSUME Base, GuessInv, Base', NEW c \in Calls, LoginFails(c)
    PROVE  GuessInv'
  <1> SUFFICES ASSUME NEW k \in Keys PROVE KeyOK(k)'
    BY DEF GuessInv
  <1>1. CASE k # LoginKey(c)
    BY <1>1, LoginFailsElsewhere
  <1>2. CASE k = LoginKey(c)
    <2>1. \A d \in Calls : OfKey(d, k) => LoginOK(d, k)'
      BY <1>2, LoginFailsLogins
    <2>2. now' = now
      BY DEF LoginFails
    <2>3. \A t \in 1..MaxNow : now' \in Window(t)' => LockedIn(k, t)' \/ NotLockedIn(k, t)'
      BY <1>2, <2>2, LoginFailsLocks DEF Window
    <2>4. \A t \in 1..MaxNow : WindowOK(k, t)'
      BY <1>2, LoginFailsInWindow
    <2> QED
      BY <2>1, <2>3, <2>4 DEF KeyOK, OfKey, LoginKey
  <1> QED
    BY <1>1, <1>2

-----------------------------------------------------------------------------

(* The types of the limiter, and the crowds, are kept beside AccessInv.    *)
LEMMA NextKeepsRates ==
    ASSUME Base, [Next]_vars
    PROVE  RatesTypeOK'
  <1>1. ASSUME NEW c \in Calls, LoginArrives(c) PROVE RatesTypeOK'
    <2>1. rates' \in [Buckets -> Seq(1..now)]
      BY <1>1, EntersKeepsTypes DEF Base, LoginArrives
    <2>2. locks' \in [Keys -> 0..(MaxNow + LockSeconds)]
      BY <1>1, CheckKeepsTypes DEF Base, LoginArrives, RatesTypeOK
    <2> QED
      BY <1>1, <2>1, <2>2, OnlyRatesMove DEF Base, LoginArrives
  <1>2. ASSUME NEW c \in Calls, LoginFails(c) \/ LoginSucceeds(c) PROVE RatesTypeOK'
    <2>1. LoginKey(c) \in Keys /\ UNCHANGED <<now, rates>>
      BY <1>2, KeysOfCalls DEF LoginFails, LoginSucceeds
    <2> QED
      BY <1>2, <2>1, RecordKeepsTypes, ClearKeepsTypes DEF Base, LoginFails, LoginSucceeds
  <1>3. ASSUME NEW c \in Calls, Refused(c) \/ UserEnters(c) PROVE RatesTypeOK'
    <2>1. rates' \in [Buckets -> Seq(1..now)]
      BY Zenon, <1>3, EntersKeepsTypes DEF Base, Refused, UserEnters
    <2> QED
      BY Zenon, <1>3, <2>1, OnlyRatesMove DEF Base, Refused, UserEnters, RatesTypeOK
  <1>4. ASSUME NEW c \in Calls, QueryEnters(c) PROVE RatesTypeOK'
    <2>1. rates' \in [Buckets -> Seq(1..now)]
      BY <1>4, QueryEntersKeepsTypes DEF Base
    <2> QED
      BY <1>4, <2>1, OnlyRatesMove DEF Base, QueryEnters, RatesTypeOK
  <1>5. ASSUME NEW c \in Calls,
               \/ CountUsers(c) \/ InsertUsers(c) \/ SelectUser(c) \/ RevokeSession(c) \/ Refresh(c)
               \/ RequireUser(c) \/ CommitCommand(c) \/ CreateUser(c) \/ ManageService(c)
        PROVE  RatesTypeOK'
    <2>1. UNCHANGED rateVars
      BY Zenon, <1>5 DEF CountUsers, InsertUsers, SelectUser, RevokeSession, Refresh, RequireUser,
                  CommitCommand, CreateUser, ManageService
    <2> QED
      BY <2>1, RatesUnmoved DEF Base
  <1>6. CASE KeyExpires \/ UNCHANGED vars
    BY <1>6, RatesUnmoved DEF Base, KeyExpires, vars
  <1>7. CASE TimePasses \/ CleansUp
    BY <1>7, TickKeepsTypes, CleanupKeepsTypes DEF Base, TimePasses, CleansUp
  <1>8. ASSUME NEW c \in Calls, StartProcess(c) PROVE RatesTypeOK'
    <2>1. CASE RatesForgotten
      BY <2>1, ForgottenTypes DEF Base
    <2>2. CASE UNCHANGED rateVars
      BY <2>2, RatesUnmoved DEF Base
    <2> QED
      BY <1>8, <2>1, <2>2 DEF StartProcess
  <1> QED
    BY <1>1, <1>2, <1>3, <1>4, <1>5, <1>6, <1>7, <1>8 DEF Next

LEMMA NextKeepsCrowd ==
    ASSUME Base, [Next]_vars
    PROVE  CrowdInv'
  <1>1. ASSUME Untouched PROVE CrowdInv'
    BY <1>1, CrowdStays DEF Base, Untouched
  <1>2. ASSUME NEW c \in Calls,
               \/ CountUsers(c) \/ InsertUsers(c) \/ SelectUser(c)
               \/ Refused(c) \/ UserEnters(c) \/ QueryEnters(c) \/ RevokeSession(c) \/ Refresh(c)
               \/ RequireUser(c) \/ CommitCommand(c) \/ CreateUser(c) \/ ManageService(c)
        PROVE  CrowdInv'
    BY <1>1, <1>2, OthersMove
  <1>3. ASSUME NEW c \in Calls,
               LoginArrives(c) \/ LoginFails(c) \/ LoginSucceeds(c) \/ StartProcess(c)
        PROVE  CrowdInv'
    BY <1>3, LoginArrivesKeepsCrowd, VerdictsKeepCrowd
  <1>4. CASE KeyExpires \/ TimePasses \/ CleansUp \/ UNCHANGED vars
    <2>1. UNCHANGED crowd
      BY <1>4 DEF KeyExpires, TimePasses, CleansUp, vars, accessVars
    <2>2. \A c \in Calls : Underway(c)' => Underway(c)
      <3>1. CASE CleansUp
        BY <3>1, CleansUpDoes DEF Underway
      <3>2. CASE UNCHANGED call
        BY <3>2 DEF Underway
      <3> QED
        BY <1>4, <3>1, <3>2 DEF KeyExpires, TimePasses, vars, accessVars
    <2> QED
      BY <2>1, <2>2, CrowdStays DEF Base
  <1> QED
    BY <1>2, <1>3, <1>4 DEF Next

LEMMA InitCrowd == Init => CrowdInv
  <1> SUFFICES ASSUME Init PROVE CrowdInv
    OBVIOUS
  <1>1. crowd = [k \in Keys |-> 0]
    BY DEF Init
  <1>2. \A c \in Calls : call[c].at \in {"new", "done"}
    BY DEF Init
  <1>3. \A k \in Keys : Busy(k) = {}
    BY <1>2 DEF Busy
  <1> QED
    BY <1>1, <1>3, FS_EmptySet DEF CrowdInv

LEMMA InitRates == Init => RatesTypeOK
  <1> SUFFICES ASSUME Init PROVE RatesTypeOK
    OBVIOUS
  <1>1. now \in 1..MaxNow
    BY AccessAssumption DEF Init
  <1>2. /\ rates = [b \in Buckets |-> <<>>] /\ failures = [k \in Keys |-> <<>>]
        /\ locks = [k \in Keys |-> 0]
    BY DEF Init, RatesInit
  <1>3. 0 \in 0..(MaxNow + LockSeconds)
    BY RatesAssumption, LocksAssumption
  <1> QED
    BY <1>1, <1>2, <1>3, NoTimes DEF RatesTypeOK

(* Accounts, calls, windows and crowds stay what they are.                 *)
THEOREM RatesInvariant == Spec => []Base
  <1>1. Init => RatesTypeOK /\ CrowdInv
    BY InitRates, InitCrowd
  <1>2. Base /\ [Next]_vars => RatesTypeOK' /\ CrowdInv'
    BY NextKeepsRates, NextKeepsCrowd
  <1> QED
    BY <1>1, <1>2, AccessInvariant, PTL DEF Spec, Base

(* Everything the limiter, the accounts and the calls keep has its type,   *)
(* the times of a window are in order, and a list of failures never gets   *)
(* as long as the limit.                                                   *)
THEOREM AccessTypeCorrect == Spec => []TypeOK
  <1> DEFINE ServiceOK == service \in {"absent", "active", "expired", "revoked"}
  <1>1. Init => ServiceOK
    BY DEF Init
  <1>2. ServiceOK /\ [Next]_vars => ServiceOK'
    <2> SUFFICES ASSUME ServiceOK, [Next]_vars PROVE ServiceOK'
      OBVIOUS
    <2>1. ASSUME NEW c \in Calls, ManageService(c) PROVE ServiceOK'
      BY <2>1 DEF ManageService
    <2>2. CASE KeyExpires
      BY <2>2 DEF KeyExpires
    <2>3. CASE UNCHANGED service
      BY <2>3
    <2>4. ASSUME NEW c \in Calls,
                 \/ StartProcess(c) \/ CountUsers(c) \/ InsertUsers(c) \/ SelectUser(c)
                 \/ LoginArrives(c) \/ LoginFails(c) \/ LoginSucceeds(c) \/ Refused(c) \/ UserEnters(c)
                 \/ QueryEnters(c) \/ RevokeSession(c) \/ Refresh(c) \/ RequireUser(c)
                 \/ CommitCommand(c) \/ CreateUser(c)
          PROVE  UNCHANGED service
      BY Zenon, <2>4 DEF StartProcess, CountUsers, InsertUsers, SelectUser, LoginArrives, LoginFails,
                  LoginSucceeds, Refused, UserEnters, QueryEnters, RevokeSession, Refresh, RequireUser,
                  CommitCommand, CreateUser
    <2>5. CASE TimePasses \/ CleansUp \/ UNCHANGED vars
      BY <2>3, <2>5 DEF TimePasses, CleansUp, accessVars, vars
    <2> QED
      BY <2>1, <2>2, <2>3, <2>4, <2>5 DEF Next
  <1>3. Base /\ ServiceOK => TypeOK
    BY DEF Base, AccessInv, CrowdInv, TypeOK
  <1> HIDE DEF ServiceOK
  <1> QED
    BY <1>1, <1>2, <1>3, RatesInvariant, PTL DEF Spec

(* For any number of calls, names and addresses, any limit and any window  *)
(* no longer than a lock: of the logins of a key in a window, refused at   *)
(* the same time as others or not, no more than the limit count, and one   *)
(* more for each of the others past the check at once.                     *)
THEOREM GuessesLimited == Spec => []GuessesAreLimited
  <1>1. Init /\ Base => GuessInv
    <2> SUFFICES ASSUME Init, Base PROVE GuessInv
      OBVIOUS
    <2>1. \A c \in Calls : call[c].failed = 0 /\ call[c].late = 0
      BY DEF Init
    <2> QED
      BY <2>1, KeyCleared DEF GuessInv, ClearedKeys, NothingCounts
  <1>2. Base /\ Base' /\ GuessInv /\ [Next]_vars => GuessInv'
    <2> SUFFICES ASSUME Base, Base', GuessInv, [Next]_vars PROVE GuessInv'
      OBVIOUS
    <2>1. ASSUME NEW c \in Calls,
                 \/ CountUsers(c) \/ InsertUsers(c) \/ SelectUser(c)
                 \/ Refused(c) \/ UserEnters(c) \/ QueryEnters(c) \/ RevokeSession(c) \/ Refresh(c)
                 \/ RequireUser(c) \/ CommitCommand(c) \/ CreateUser(c) \/ ManageService(c)
          PROVE  GuessInv'
      BY <2>1, OthersMove, UntouchedKeeps
    <2>2. ASSUME NEW c \in Calls,
                 LoginArrives(c) \/ LoginFails(c) \/ LoginSucceeds(c) \/ StartProcess(c)
          PROVE  GuessInv'
      BY <2>2, LoginArrivesKeepsGuesses, LoginFailsKeepsGuesses, LoginSucceedsKeepsGuesses,
         StartProcessKeepsGuesses
    <2>3. CASE KeyExpires \/ UNCHANGED vars
      <3>1. Untouched
        BY <2>3 DEF KeyExpires, vars, accessVars, rateVars, Untouched, Underway, Unanswered
      <3> QED
        BY <3>1, UntouchedKeeps
    <2>4. CASE TimePasses \/ CleansUp
      BY <2>4, TimePassesKeepsGuesses, CleansUpKeepsGuesses
    <2> QED
      BY <2>1, <2>2, <2>3, <2>4 DEF Next
  <1>3. Base /\ GuessInv => GuessesAreLimited
    <2> SUFFICES ASSUME Base, GuessInv, NEW k \in Keys, NEW t \in 1..MaxNow
                 PROVE  Cardinality({c \in Calls : /\ KindOf[c] = "login" /\ LoginKey(c) = k
                                                   /\ call[c].failed \in Window(t)})
                            < FailureLimit + crowd[k]
      BY DEF GuessesAreLimited, Window
    <2> DEFINE refused == {c \in Calls : /\ KindOf[c] = "login" /\ LoginKey(c) = k
                                         /\ call[c].failed \in Window(t)}
    <2>0. /\ FailureLimit \in Nat /\ FailureLimit >= 1 /\ crowd[k] \in Nat
          /\ t \in Nat /\ t >= 1 /\ FailureWindow \in Nat
          /\ \A c \in Calls : call[c].failed \in Nat /\ call[c].late \in Nat
      BY Fields
    <2>1. WindowOK(k, t) /\ \A c \in Calls : OfKey(c, k) => LoginOK(c, k)
      BY DEF GuessInv, KeyOK
    <2>2. ASSUME NEW c \in refused
          PROVE  c \in InTime(k, t) \cup Late(k, t) /\ crowd[k] >= 1
      <3>1. c \in Calls /\ OfKey(c, k) /\ call[c].failed \in Window(t) /\ call[c].failed # 0
        BY <2>0 DEF OfKey, Window
      <3>2. call[c].late <= call[c].failed /\ crowd[k] >= 1
        BY <2>1, <3>1 DEF LoginOK
      <3> QED
        BY <2>0, <3>1, <3>2 DEF InTime, Late, Window
    <2> HIDE DEF refused
    <2>3. CASE refused = {}
      <3>1. Cardinality(refused) = 0
        BY <2>3, FS_EmptySet
      <3> QED
        BY <2>0, <3>1 DEF refused
    <2>4. CASE refused # {} /\ Late(k, t) = {}
      <3>1. crowd[k] >= 1 /\ refused \subseteq InTime(k, t)
        BY <2>2, <2>4
      <3>2. /\ IsFiniteSet(InTime(k, t)) /\ Cardinality(InTime(k, t)) <= FailureLimit
        BY <2>1 DEF WindowOK
      <3>3. /\ Cardinality(refused) <= Cardinality(InTime(k, t)) /\ IsFiniteSet(refused)
        BY <3>1, <3>2, FS_Subset
      <3>4. Cardinality(refused) \in Nat /\ Cardinality(InTime(k, t)) \in Nat
        BY <3>2, <3>3, FS_CardinalityType
      <3>5. Cardinality(refused) < FailureLimit + crowd[k]
        BY <2>0, <3>1, <3>2, <3>3, <3>4
      <3> QED
        BY <3>5 DEF refused
    <2>5. CASE Late(k, t) # {}
      <3> DEFINE A == InTime(k, t)
                 B == Late(k, t)
      <3>1. /\ IsFiniteSet(A) /\ Cardinality(A) <= FailureLimit
            /\ IsFiniteSet(B) /\ Cardinality(B) < crowd[k]
        BY <2>1, <2>5 DEF WindowOK
      <3>2. refused \subseteq A \cup B
        BY <2>2
      <3> HIDE DEF A, B
      <3>3. /\ IsFiniteSet(A \cup B)
            /\ Cardinality(A \cup B) = Cardinality(A) + Cardinality(B) - Cardinality(A \cap B)
        BY <3>1, FS_Union
      <3>4. IsFiniteSet(A \cap B)
        BY <3>1, FS_Intersection
      <3>5. IsFiniteSet(refused) /\ Cardinality(refused) <= Cardinality(A \cup B)
        BY <3>2, <3>3, FS_Subset
      <3>6. /\ Cardinality(A) \in Nat /\ Cardinality(B) \in Nat /\ Cardinality(A \cap B) \in Nat
            /\ Cardinality(A \cup B) \in Nat /\ Cardinality(refused) \in Nat
        BY <3>1, <3>3, <3>4, <3>5, FS_CardinalityType
      <3>7. Cardinality(refused) < FailureLimit + crowd[k]
        BY <2>0, <3>1, <3>3, <3>5, <3>6
      <3> QED
        BY <3>7 DEF refused
    <2> QED
      BY <2>3, <2>4, <2>5
  <1> QED
    BY <1>1, <1>2, <1>3, RatesInvariant, PTL DEF Spec
=============================================================================
