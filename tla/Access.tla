------------------------------- MODULE Access -------------------------------
(***************************************************************************)
(* Who gets in (utils/auth.py, routes/auth.py, scripts/manage_auth.py): a  *)
(* login answers with a token that carries the token_version of its        *)
(* account, every request is served from the row that its database session *)
(* reads first, a logout adds one to the version, and the commands of the  *)
(* operator read a row, ask for a password, and write what they computed   *)
(* from it.  MySQL repeats the first read of a transaction.                *)
(***************************************************************************)
EXTENDS RateLimiter

CONSTANTS
    Calls,      \* requests, starts of the process, commands of manage_auth
    KindOf,     \* what each call asks for
    UserOf,     \* the account it is about: the one MySQL finds for the name
    NameOf,     \* the name it comes with, stripped and lower-cased
    AddressOf,  \* the address it comes from
    Users,
    Bootstrap,  \* the accounts of the environment
    Passwords,
    FirstPassword,  \* of the environment, and of create-user
    Arrivals    \* the calls that come in one behaviour, the tick it begins with: a bound

Requests == {"login", "logout", "refresh", "query"}
Commands == {"set-password", "deactivate", "activate"}
Kinds == Requests \cup Commands \cup {"start", "create-user", "create-service", "revoke-service"}

(* check_rate_limit counts per address and path, check_principal_rate_limit*)
(* per principal and group of paths: the queries.                          *)
AddressBucket(c) == <<AddressOf[c], KindOf[c]>>
PrincipalBucket(name) == <<name, "queries">>
Service == "service"

ASSUME AccessAssumption ==
    /\ KindOf \in [Calls -> Kinds] /\ UserOf \in [Calls -> Users]
    /\ Bootstrap \subseteq Users /\ FirstPassword \in Passwords
    /\ Service \notin Users
    /\ {AddressBucket(c) : c \in Calls} \cup {PrincipalBucket(n) : n \in Users \cup {Service}}
          \subseteq Buckets
    /\ Keys = {<<NameOf[c], AddressOf[c]>> : c \in Calls}
    /\ Arrivals \subseteq [calls : SUBSET Calls, tick : 1..MaxNow]

VARIABLES
    users,      \* auth_users
    service,    \* the credential of a service in service_clients
    tokens,     \* tokens given out: history, the server keeps none
    call,
    endings,    \* how often the sessions of an account were ended: history
    lost,       \* accounts whose version a command overwrote: history
    crowd       \* the most logins of a key past the check at once: history

accessVars == <<users, service, tokens, call, endings, lost, crowd>>
vars == <<accessVars, rateVars>>

Row == [exists : BOOLEAN, active : BOOLEAN, version : Nat, password : Passwords]

(* born and under: what endings and password were at its login.            *)
Token == [user : Users, version : Nat, born : Nat, under : Passwords]

NoRow == [exists |-> FALSE, active |-> FALSE, version |-> 0, password |-> FirstPassword]
NewRow == [exists |-> TRUE, active |-> TRUE, version |-> 1, password |-> FirstPassword]

(* seen, born: the row, and the endings, when the call read it; under: of  *)
(* the token it came with.  Of a login, failed: when it was refused; late: *)
(* when its key was last locked while it was under way; 0 for never.       *)
Call ==
    [at : {"new", "checked", "empty", "select", "read", "principal", "done"},
     seen : Row, born : Nat, under : Passwords, failed : 0..MaxNow, late : 0..MaxNow]

TypeOK ==
    /\ RatesTypeOK
    /\ users \in [Users -> Row]
    /\ service \in {"absent", "active", "expired", "revoked"}
    /\ tokens \subseteq Token
    /\ call \in [Calls -> Call]
    /\ endings \in [Users -> Nat]
    /\ lost \subseteq Users
    /\ crowd \in [Keys -> Nat]

Init ==
    /\ RatesInit
    /\ users = [u \in Users |-> NoRow]
    /\ service = "absent"
    /\ tokens = {}
    /\ \E coming \in Arrivals :
         /\ now = coming.tick
         /\ call = [c \in Calls |->
                      [at |-> IF c \in coming.calls THEN "new" ELSE "done", seen |-> NoRow,
                       born |-> 0, under |-> FirstPassword, failed |-> 0, late |-> 0]]
    /\ endings = [u \in Users |-> 0]
    /\ lost = {}
    /\ crowd = [k \in Keys |-> 0]

(* The counter goes by the name as typed; names that MySQL takes for the   *)
(* same account, as utf8mb4_unicode_ci compares, have a key each.          *)
LoginKey(c) == <<NameOf[c], AddressOf[c]>>

OfKey(c, k) == KindOf[c] = "login" /\ LoginKey(c) = k

(* Logins that have passed check_login_lock and have no verdict yet.       *)
Busy(k) == {c \in Calls : OfKey(c, k) /\ call[c].at \notin {"new", "done"}}

Goto(c, where) == call' = [call EXCEPT ![c].at = where]

Accepted(token) ==
    LET row == users[token.user]
    IN  row.exists /\ row.active /\ row.version = token.version

-----------------------------------------------------------------------------
(* ensure_bootstrap_users, at the start and in every login.                *)

Read(c, where) ==
    call' = [call EXCEPT ![c].at = where, ![c].seen = users[UserOf[c]],
                         ![c].born = endings[UserOf[c]]]

(* A process starts: in place of the one before, whose requests are gone   *)
(* with their counters, or as one more worker with counters of its own.    *)
StartProcess(c) ==
    /\ KindOf[c] = "start" /\ call[c].at = "new"
    /\ \/ /\ RatesForgotten
          /\ call' = [d \in Calls |->
                        [call[d] EXCEPT
                           !.failed = 0, !.late = 0,
                           !.at = IF d = c THEN "checked"
                                  ELSE IF KindOf[d] \in Requests /\ @ # "new" THEN "done" ELSE @]]
       \/ Goto(c, "checked") /\ UNCHANGED rateVars
    /\ UNCHANGED <<users, service, tokens, endings, lost, crowd>>

(* The count opens the snapshot in which a login then finds its account.   *)
CountUsers(c) ==
    /\ KindOf[c] \in {"start", "login"} /\ call[c].at = "checked"
    /\ IF \A u \in Users : ~users[u].exists THEN Goto(c, "empty")
       ELSE IF KindOf[c] = "start" THEN Goto(c, "done") ELSE Read(c, "read")
    /\ UNCHANGED <<users, service, tokens, endings, lost, crowd, rateVars>>

AfterBootstrap(c) == Goto(c, IF KindOf[c] = "start" THEN "done" ELSE "select")

(* Faulty variant of InsertUsers: accounts of the environment are set.     *)
InsertUsersOrReset(c) ==
    /\ call[c].at = "empty"
    /\ users' = [u \in Users |-> IF u \in Bootstrap
                                 THEN [NewRow EXCEPT !.version = endings[u] + 1] ELSE users[u]]
    /\ AfterBootstrap(c)
    /\ UNCHANGED <<service, tokens, endings, lost, crowd, rateVars>>

(* Both accounts or, when a name is taken since the count, none.           *)
InsertUsers(c) ==
    /\ call[c].at = "empty"
    /\ IF \E u \in Bootstrap : users[u].exists THEN UNCHANGED users
       ELSE users' = [u \in Users |-> IF u \in Bootstrap THEN NewRow ELSE users[u]]
    /\ AfterBootstrap(c)
    /\ UNCHANGED <<service, tokens, endings, lost, crowd, rateVars>>

SelectUser(c) ==
    /\ call[c].at = "select"
    /\ Read(c, "read")
    /\ UNCHANGED <<users, service, tokens, endings, lost, crowd, rateVars>>

-----------------------------------------------------------------------------
(* The middleware: over the rate of its address a request is answered 429  *)
(* before its handler runs.                                                *)

Enters(c) == RateAllows(AddressBucket(c)) /\ CountRequest(AddressBucket(c))
TooMany(c) == ~RateAllows(AddressBucket(c)) /\ CountRequest(AddressBucket(c))

(* GET /logout ends the session as POST /api/auth/logout does, uncounted.  *)
Uncounted(c) == KindOf[c] = "logout" /\ UNCHANGED rates

-----------------------------------------------------------------------------
(* POST /api/auth/login.                                                   *)

Crowds(k, logins) ==
    crowd' = IF Cardinality(logins) > crowd[k] THEN [crowd EXCEPT ![k] = Cardinality(logins)]
             ELSE crowd

LoginArrives(c) ==
    /\ KindOf[c] = "login" /\ call[c].at = "new"
    /\ \/ /\ Enters(c)
          /\ CheckLoginLock(LoginKey(c))
          /\ IF Locked(LoginKey(c)) THEN Goto(c, "done") /\ UNCHANGED crowd
             ELSE Goto(c, "checked") /\ Crowds(LoginKey(c), Busy(LoginKey(c)) \cup {c})
       \/ TooMany(c) /\ Goto(c, "done") /\ UNCHANGED <<locks, crowd>>
    /\ UNCHANGED <<users, service, tokens, endings, lost, now, failures>>

(* The hash is compared without giving way, and its verdict recorded.      *)
LoginFails(c) ==
    /\ KindOf[c] = "login" /\ call[c].at = "read"
    /\ RecordLoginFailure(LoginKey(c))
    /\ call' = [d \in Calls |->
                  IF d = c THEN [call[c] EXCEPT !.at = "done", !.failed = now]
                  ELSE IF d \in Busy(LoginKey(c)) /\ failures'[LoginKey(c)] = <<>>
                  THEN [call[d] EXCEPT !.late = now] ELSE call[d]]
    /\ UNCHANGED <<users, service, tokens, endings, lost, crowd, now, rates>>

Issue(c, under) ==
    tokens' = tokens \cup {[user |-> UserOf[c], version |-> call[c].seen.version,
                            born |-> call[c].born, under |-> under]}

LoginSucceeds(c) ==
    /\ KindOf[c] = "login" /\ call[c].at = "read"
    /\ call[c].seen.exists /\ call[c].seen.active
    /\ ClearLoginFailures(LoginKey(c))
    /\ Issue(c, call[c].seen.password)
    /\ call' = [d \in Calls |->
                  IF OfKey(d, LoginKey(c))
                  THEN [call[d] EXCEPT !.at = IF d = c THEN "done" ELSE @,
                                       !.failed = 0, !.late = 0]
                  ELSE call[d]]
    /\ UNCHANGED <<users, service, endings, lost, crowd, now, rates>>

-----------------------------------------------------------------------------
(* Requests with a credential.                                             *)

(* Without a credential that is accepted: 401, or nothing to log out.      *)
Refused(c) ==
    /\ KindOf[c] \in {"logout", "refresh", "query"} /\ call[c].at = "new"
    /\ Enters(c) \/ TooMany(c) \/ Uncounted(c)
    /\ Goto(c, "done")
    /\ UNCHANGED <<users, service, tokens, endings, lost, crowd, now, failures, locks>>

(* get_principal with a token: the row it reads is the one of its session. *)
UserEnters(c) ==
    /\ KindOf[c] \in {"logout", "refresh"} /\ call[c].at = "new"
    /\ Enters(c) \/ Uncounted(c)
    /\ \E token \in tokens :
         /\ token.user = UserOf[c] /\ Accepted(token)
         /\ call' = [call EXCEPT ![c].at = "principal", ![c].seen = users[UserOf[c]],
                                 ![c].born = token.born, ![c].under = token.under]
    /\ UNCHANGED <<users, service, tokens, endings, lost, crowd, now, failures, locks>>

(* A query is counted for its principal as well, user or service.          *)
QueryEnters(c) ==
    /\ KindOf[c] = "query" /\ call[c].at = "new"
    /\ RateAllows(AddressBucket(c))
    /\ \E name \in {UserOf[c], Service} :
         /\ IF name = Service THEN service = "active"
            ELSE \E token \in tokens : token.user = name /\ Accepted(token)
         /\ rates' = [b \in Buckets |->
                        IF b \in {AddressBucket(c), PrincipalBucket(name)}
                        THEN LET recent == Recent(rates[b], WindowOf[b])
                             IN  IF RateAllows(b) THEN Append(recent, now) ELSE recent
                        ELSE rates[b]]
    /\ Goto(c, "done")
    /\ UNCHANGED <<users, service, tokens, endings, lost, crowd, now, failures, locks>>

(* Faulty variant of RevokeSession: the version that was read, plus one.   *)
RevokeSessionAsRead(c) ==
    /\ KindOf[c] = "logout" /\ call[c].at = "principal"
    /\ users' = [users EXCEPT ![UserOf[c]].version = call[c].seen.version + 1]
    /\ endings' = [endings EXCEPT ![UserOf[c]] = @ + 1]
    /\ Goto(c, "done")
    /\ UNCHANGED <<service, tokens, lost, crowd, rateVars>>

(* revoke_session adds one to whatever the version is by now.              *)
RevokeSession(c) ==
    /\ KindOf[c] = "logout" /\ call[c].at = "principal"
    /\ users' = [users EXCEPT ![UserOf[c]].version = @ + 1]
    /\ endings' = [endings EXCEPT ![UserOf[c]] = @ + 1]
    /\ Goto(c, "done")
    /\ UNCHANGED <<service, tokens, lost, crowd, rateVars>>

(* Faulty variant of Refresh: the account is read in a session of its own. *)
RefreshFromNow(c) ==
    /\ KindOf[c] = "refresh" /\ call[c].at = "principal"
    /\ tokens' = tokens \cup {[user |-> UserOf[c], version |-> users[UserOf[c]].version,
                               born |-> call[c].born, under |-> call[c].under]}
    /\ Goto(c, "done")
    /\ UNCHANGED <<users, service, endings, lost, crowd, rateVars>>

(* refresh_token finds the row again that get_principal read.              *)
Refresh(c) ==
    /\ KindOf[c] = "refresh" /\ call[c].at = "principal"
    /\ Issue(c, call[c].under)
    /\ Goto(c, "done")
    /\ UNCHANGED <<users, service, endings, lost, crowd, rateVars>>

-----------------------------------------------------------------------------
(* manage_auth.                                                            *)

RequireUser(c) ==
    /\ KindOf[c] \in Commands /\ call[c].at = "new"
    /\ IF users[UserOf[c]].exists THEN Read(c, "read") ELSE Goto(c, "done")
    /\ UNCHANGED <<users, service, tokens, endings, lost, crowd, rateVars>>

(* The columns that differ from what was read are written; the version is  *)
(* the one that was read, plus one.                                        *)
CommitCommand(c) ==
    LET u == UserOf[c]
        ends == KindOf[c] # "activate"
        wanted == KindOf[c] = "activate"
    IN  /\ KindOf[c] \in Commands /\ call[c].at = "read"
        /\ \E password \in Passwords :
             users' = [users EXCEPT
                         ![u].version = IF ends THEN call[c].seen.version + 1 ELSE @,
                         ![u].password = IF KindOf[c] = "set-password" THEN password ELSE @,
                         ![u].active = IF KindOf[c] = "set-password" \/ call[c].seen.active = wanted
                                       THEN @ ELSE wanted]
        /\ endings' = [endings EXCEPT ![u] = IF ends THEN @ + 1 ELSE @]
        /\ lost' = IF ends /\ users[u].version # call[c].seen.version THEN lost \cup {u} ELSE lost
        /\ Goto(c, "done")
        /\ UNCHANGED <<service, tokens, crowd, rateVars>>

CreateUser(c) ==
    /\ KindOf[c] = "create-user" /\ call[c].at = "new"
    /\ users' = [users EXCEPT ![UserOf[c]] = IF @.exists THEN @ ELSE NewRow]
    /\ Goto(c, "done")
    /\ UNCHANGED <<service, tokens, endings, lost, crowd, rateVars>>

ManageService(c) ==
    /\ KindOf[c] \in {"create-service", "revoke-service"} /\ call[c].at = "new"
    /\ service' = IF KindOf[c] = "revoke-service"
                  THEN IF service = "absent" THEN service ELSE "revoked"
                  ELSE IF service = "absent" THEN "active" ELSE service
    /\ Goto(c, "done")
    /\ UNCHANGED <<users, tokens, endings, lost, crowd, rateVars>>

KeyExpires ==
    /\ service = "active" /\ service' = "expired"
    /\ UNCHANGED <<users, tokens, call, endings, lost, crowd, rateVars>>

(* The periodic cleanup: of what it drops for want of room, nothing counts *)
(* any more.                                                               *)
CleansUp ==
    /\ Cleanup
    /\ call' = [c \in Calls |->
                  IF KindOf[c] = "login" /\ LoginKey(c) \in Dropped
                  THEN [call[c] EXCEPT !.failed = 0] ELSE call[c]]
    /\ UNCHANGED <<users, service, tokens, endings, lost, crowd>>

TimePasses == Tick /\ UNCHANGED accessVars

-----------------------------------------------------------------------------

Next ==
    \/ \E c \in Calls :
         \/ StartProcess(c) \/ CountUsers(c) \/ InsertUsers(c) \/ SelectUser(c)
         \/ LoginArrives(c) \/ LoginFails(c) \/ LoginSucceeds(c)
         \/ Refused(c) \/ UserEnters(c) \/ QueryEnters(c) \/ RevokeSession(c) \/ Refresh(c)
         \/ RequireUser(c) \/ CommitCommand(c) \/ CreateUser(c) \/ ManageService(c)
    \/ KeyExpires
    \/ CleansUp
    \/ TimePasses

Spec == Init /\ [][Next]_vars

-----------------------------------------------------------------------------

(* A logout, a new password and a deactivation end every session that goes *)
(* back to an earlier login, its refreshed tokens included, also those     *)
(* that are still on their way, unless a command overwrote the version     *)
(* (routes/auth.py, revoke_session).                                       *)
EndedSessionsStayEnded ==
    \A token \in tokens :
        token.user \notin lost /\ Accepted(token) => token.born = endings[token.user]

(* In any window of time, at most FailureLimit logins of a key (a name as  *)
(* typed, in lower case, and an address) are refused, and one more for     *)
(* each other login of the key that was past check_login_lock at the same  *)
(* time.  The count begins anew where the code empties its list: after a   *)
(* successful login of the key, with a new process, for want of room.      *)
GuessesAreLimited ==
    \A k \in Keys : \A t \in 1..MaxNow :
        Cardinality({c \in Calls : /\ KindOf[c] = "login" /\ LoginKey(c) = k
                                   /\ call[c].failed \in t..(t + FailureWindow - 1)})
            < FailureLimit + crowd[k]

(* Starting the process, or logging in, never gives an account its first   *)
(* password again: only the operator changes passwords (auth.py,           *)
(* ensure_bootstrap_users).                                                *)
PasswordsAreKept ==
    [][\A u \in Users :
         users[u].exists /\ users'[u] # users[u] /\ users'[u].password # users[u].password =>
            users'[u].version > users[u].version \/ u \in lost']_vars

(* With a new password every token given out under another one is refused  *)
(* (manage_auth.py:97).                                                    *)
NewPasswordsEndSessions ==
    \A token \in tokens : Accepted(token) => token.under = users[token.user].password
=============================================================================
