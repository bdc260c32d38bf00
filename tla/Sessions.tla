------------------------------- MODULE Sessions ------------------------------
(***************************************************************************)
(* Accounts, passwords, sign-ins and sessions: identity.py as web.py and   *)
(* cli.py call it, statement by statement where another transaction can    *)
(* come between two statements.                                            *)
(*                                                                         *)
(* db is what is committed; a transaction's writes reach it when it        *)
(* commits.  SELECT ... FOR UPDATE and UPDATE hold the row to the commit;   *)
(* a write whose row is held waits.  An UPDATE revokes the rows that its   *)
(* statement saw and that are still open when it gets them (READ           *)
(* COMMITTED).  No statement succeeds without the schema.  blocked is the  *)
(* guard schema of a restore and frozen the table locks of a backup:       *)
(* Recovery sets them, this module obeys them.                             *)
(*                                                                         *)
(* Left out: accounts of an external provider, what a page shows, and the  *)
(* games a deactivation locks and reconciles (TeamAuthority).  Names of    *)
(* absent accounts stand for unknown usernames.  Variables below the line  *)
(* "history" are read by properties only.  "Fault" marks a plausible bug.  *)
(***************************************************************************)
EXTENDS Integers, Sequences, FiniteSets

CONSTANTS
  Users, Sources, Clients,
  Scenarios,      \* rows to start from and the requests that may be made: how many,
                  \* how many at once, until when
  UsernameLimit, SourceLimit, Window,
  Idle, Absolute, \* SessionPolicy
  MaxTokens,      \* bound: sessions ever issued; they are numbered
  MaxTime,        \* bound on the clock; a scenario may end it earlier
  MaxResets       \* bound: password resets of one account

Tokens == 1 .. MaxTokens
Times == 0 .. MaxTime
Passwords == 0 .. MaxResets

Reasons ==
  {"no", "rotated", "logout", "password_reset", "account_deactivated",
   "expired_or_inactive", "database_restore"}

NoRow == [revoked |-> "none"]

AuthSession ==
  [user : Users, seen : Times, expires : 0 .. (MaxTime + Absolute), revoked : Reasons]

Account == [state : {"absent", "active", "inactive"}, password : Passwords, admin : BOOLEAN]

\* tested: the outcome depended on the password.
LoginAttempt ==
  [user : Users, source : Sources, at : Times, tested : BOOLEAN, succeeded : BOOLEAN]

Database ==
  [schema : BOOLEAN, users : [Users -> Account],
   sessions : [Tokens -> AuthSession \cup {NoRow}], attempts : Seq(LoginAttempt)]

Pages == {"page", "add_user", "disable_user"}

\* token: the cookie sent along, 0 for none.  password: what is typed.
Request ==
  [op : Pages \cup {"sign_in", "logout", "reset", "create_admin"},
   user : Users, token : 0 .. MaxTokens, password : Passwords, source : Sources]

ASSUME SessionsAssumption ==
  /\ UsernameLimit \in Nat \ {0} /\ SourceLimit \in Nat \ {0} /\ Window \in Nat
  /\ Idle \in Nat \ {0} /\ Absolute \in Nat \ {0}
  /\ MaxTokens \in Nat /\ MaxTime \in Nat /\ MaxResets \in Nat
  /\ IsFiniteSet(Users)
  /\ \A s \in Scenarios :
       /\ s.requests \subseteq Request /\ s.issued \in 0 .. MaxTokens
       /\ s.bound \in Nat /\ s.atOnce \in Nat /\ s.until \in Times
       /\ s.db \in Database /\ s.db.schema
       \* nobody has tried to sign in or reset a password
       /\ s.db.attempts = <<>> /\ \A u \in Users : s.db.users[u].password = 0
       /\ \A t \in Tokens : s.db.sessions[t] # NoRow => t <= s.issued
       \* the first administrator at most, and active
       /\ \A u, v \in Users :
            s.db.users[u].admin /\ s.db.users[v].admin => u = v /\ s.db.users[u].state = "active"

VARIABLES
  db, blocked, frozen, clock,
  tx,        \* the request each client has in hand
  issued,    \* tokens handed out: they are random, never used twice
  started,   \* requests so far, up to the bound of the scenario
  scenario,
  \* history
  origin,    \* per token: the password verified, and whether a reset overlapped
  latest,    \* per account: the number of its last reset
  lost,      \* accounts whose reset a rehash, or the restore of an archive, has overwritten
  rivals     \* two first administrators were created side by side

history == <<origin, latest, lost, rivals>>

vars == <<db, blocked, frozen, clock, tx, issued, started, scenario, history>>

NoTx == [pc |-> "idle"]

Transaction ==
  [pc : {"count", "verify", "record", "check", "lock", "answer", "acting", "read",
         "logout", "lock_user", "write", "revoke", "count_admins", "create"},
   req : Request, now : Times, actor : Users, good : BOOLEAN, succeeded : BOOLEAN,
   targets : SUBSET Tokens, crossed : BOOLEAN]

SessionsTypeOK ==
  /\ db \in Database
  /\ blocked \in BOOLEAN /\ frozen \in BOOLEAN /\ clock \in Times
  /\ tx \in [Clients -> {NoTx} \cup Transaction]
  /\ issued \in 0 .. MaxTokens /\ started \in 0 .. scenario.bound
  /\ scenario \in Scenarios
  /\ origin \in [Tokens -> [password : Passwords, crossed : BOOLEAN]]
  /\ latest \in [Users -> Passwords] /\ lost \subseteq Users /\ rivals \in BOOLEAN
  \* a token has a row only once it was handed out
  /\ \A t \in Tokens : db.sessions[t] # NoRow => t <= issued

SessionsInit ==
  /\ scenario \in Scenarios
  /\ db = scenario.db /\ issued = scenario.issued
  /\ blocked = FALSE /\ frozen = FALSE /\ clock = 0
  /\ tx = [c \in Clients |-> NoTx] /\ started = 0
  /\ origin = [t \in Tokens |-> [password |-> 0, crossed |-> FALSE]]
  /\ latest = [u \in Users |-> 0] /\ lost = {} /\ rivals = FALSE

-----------------------------------------------------------------------------
(***************************************************************************)
(* Locks, and how a step leaves the request.                               *)
(***************************************************************************)
At(c, pc) == tx[c].pc = pc

Others(c, pc) == {d \in Clients \ {c} : At(d, pc)}

\* Fault: the session row is read without FOR UPDATE.
NeverLocked(c, t) == FALSE

\* resolve_session holds the row it judges.
RowLocked(c, t) == \E d \in Others(c, "answer") : tx[d].req.token = t

\* deactivate_user holds the account, and a new session row refers to it.
UserLocked(c, u) ==
  \E d \in Others(c, "revoke") : tx[d].req.op = "disable_user" /\ tx[d].req.user = u

CredentialLocked(c, u) ==
  \E d \in Others(c, "revoke") : tx[d].req.op = "reset" /\ tx[d].req.user = u

Writable == db.schema /\ ~frozen

Move(c, t) == tx' = [tx EXCEPT ![c] = t]

End(c) == Move(c, NoTx)

\* All that most steps leave alone.
Kept == UNCHANGED <<blocked, frozen, clock, started, scenario>>

Reads == UNCHANGED <<db, issued, history>> /\ Kept

-----------------------------------------------------------------------------
(***************************************************************************)
(* A request arrives.  The middleware and the command line both refuse     *)
(* while the database is a guarded recovery target.                        *)
(***************************************************************************)
FirstStep(op) ==
  CASE op \in Pages -> "check"
    [] op = "sign_in" -> "count"
    [] op = "logout" -> "read"
    [] op = "reset" -> "write"
    [] op = "create_admin" -> "count_admins"

Arrive(c) ==
  /\ At(c, "idle") /\ started < scenario.bound /\ ~blocked
  /\ Cardinality({d \in Clients : ~At(d, "idle")}) < scenario.atOnce
  /\ \E q \in scenario.requests :
       /\ q.token <= issued
       /\ Move(c, [pc |-> FirstStep(q.op), req |-> q, now |-> clock, actor |-> q.user,
                   good |-> FALSE, succeeded |-> FALSE, targets |-> {}, crossed |-> FALSE])
  /\ started' = started + 1
  /\ UNCHANGED <<db, blocked, frozen, clock, issued, scenario, history>>

\* The request fails at a statement, or its process dies: nothing is committed.
Lose(c) == ~At(c, "idle") /\ End(c) /\ Reads

Tick ==
  /\ clock < scenario.until /\ clock' = clock + 1
  /\ UNCHANGED <<db, blocked, frozen, tx, issued, started, scenario, history>>

-----------------------------------------------------------------------------
(***************************************************************************)
(* login: authenticate_local and rotate_session in one transaction.        *)
(***************************************************************************)
\* Counted by username or by source.
Failures(column, value, now) ==
  Cardinality({i \in DOMAIN db.attempts :
                 /\ db.attempts[i][column] = value
                 /\ db.attempts[i].at >= now - Window
                 /\ ~db.attempts[i].succeeded})

\* Fault: the limit is passed before it holds.
AllowedInclusive(q, now) ==
  /\ Failures("user", q.user, now) <= UsernameLimit
  /\ Failures("source", q.source, now) <= SourceLimit

\* Two counts; the second may see more failures and refuse more, never fewer.
Allowed(q, now) ==
  /\ Failures("user", q.user, now) < UsernameLimit
  /\ Failures("source", q.source, now) < SourceLimit

CountFailures(c) ==
  /\ At(c, "count") /\ db.schema
  /\ Move(c, [tx[c] EXCEPT !.pc = "verify", !.good = Allowed(tx[c].req, tx[c].now)])
  /\ Reads

Verify(c) ==
  LET q == tx[c].req  u == db.users[q.user]
  IN /\ At(c, "verify") /\ db.schema
     /\ Move(c, [tx[c] EXCEPT !.pc = "record",
                   !.succeeded = tx[c].good /\ u.state = "active" /\ u.password = q.password])
     /\ Reads

Attempted(d, c) ==
  [d EXCEPT !.attempts =
     Append(@, [user |-> tx[c].req.user, source |-> tx[c].req.source, at |-> tx[c].now,
                tested |-> tx[c].good, succeeded |-> tx[c].succeeded])]

\* The attempt is committed with the refusal.
RecordFailure(c) ==
  /\ At(c, "record") /\ ~tx[c].succeeded /\ Writable
  /\ db' = Attempted(db, c)
  /\ End(c) /\ UNCHANGED <<issued, history>> /\ Kept

RevokeOpen(d, T, reason) ==
  [d EXCEPT !.sessions = [t \in Tokens |->
     IF t \in T /\ d.sessions[t].revoked = "no" THEN [d.sessions[t] EXCEPT !.revoked = reason]
     ELSE d.sessions[t]]]

\* issue_session: the row of a token never used before.
Issued(d, u, now) ==
  [d EXCEPT !.sessions[issued + 1] =
     [user |-> u, seen |-> now, expires |-> now + Absolute, revoked |-> "no"]]

\* upgraded: the stored hash was made with older parameters; the password that was
\* typed is hashed anew over whatever is stored by now.
RecordSuccess(c) ==
  LET q == tx[c].req
      resetting == CredentialLocked(c, q.user)
  IN /\ At(c, "record") /\ tx[c].succeeded /\ Writable
     /\ issued < MaxTokens
     /\ ~UserLocked(c, q.user) /\ ~RowLocked(c, q.token)
     /\ \E upgraded \in BOOLEAN :
          LET signed == Issued(RevokeOpen(Attempted(db, c), {q.token}, "rotated"),
                               q.user, tx[c].now)
          IN /\ upgraded => ~resetting
             /\ db' = IF upgraded THEN [signed EXCEPT !.users[q.user].password = q.password]
                                  ELSE signed
             /\ lost' = IF upgraded /\ q.password # latest[q.user]
                        THEN lost \cup {q.user} ELSE lost
     /\ issued' = issued + 1
     /\ origin' = [origin EXCEPT ![issued + 1] =
                     [password |-> q.password, crossed |-> tx[c].crossed \/ resetting]]
     /\ End(c) /\ UNCHANGED <<latest, rivals>> /\ Kept

-----------------------------------------------------------------------------
(***************************************************************************)
(* _current_user: resolve_session in a transaction of its own, before the  *)
(* page or the handler runs.                                               *)
(***************************************************************************)
CheckGuard(c) ==
  /\ At(c, "check")
  /\ IF blocked THEN End(c) ELSE Move(c, [tx[c] EXCEPT !.pc = "lock", !.now = clock])
  /\ Reads

Row(c) == IF tx[c].req.token = 0 THEN NoRow ELSE db.sessions[tx[c].req.token]

\* The row is locked, then the account is read.
LockSession(c) ==
  LET row == Row(c)
  IN /\ At(c, "lock") /\ db.schema /\ ~RowLocked(c, tx[c].req.token)
     /\ IF row.revoked # "no" THEN End(c)
        ELSE Move(c, [tx[c] EXCEPT !.pc = "answer", !.actor = row.user,
                        !.good = /\ db.users[row.user].state = "active"
                                 /\ tx[c].now < row.expires
                                 /\ tx[c].now - row.seen < Idle])
     /\ Reads

\* The user, or None: an expired session is revoked with the refusal.
Answer(c) ==
  LET t == tx[c].req.token
  IN /\ At(c, "answer") /\ Writable
     /\ db' = IF tx[c].good THEN [db EXCEPT !.sessions[t].seen = tx[c].now]
              ELSE [db EXCEPT !.sessions[t].revoked = "expired_or_inactive"]
     /\ IF tx[c].good THEN Move(c, [tx[c] EXCEPT !.pc = "acting"]) ELSE End(c)
     /\ UNCHANGED <<issued, history>> /\ Kept

ShowPage(c) == At(c, "acting") /\ tx[c].req.op = "page" /\ End(c) /\ Reads

\* Fault: one's own account is not refused.
AnyAccount(c) == TRUE

NotOwnAccount(c) == tx[c].req.op = "disable_user" => tx[c].req.user # tx[c].actor

\* require_system: the role alone, in a transaction of its own.
RequireSystem(c) ==
  /\ At(c, "acting") /\ db.schema /\ tx[c].req.op \in {"add_user", "disable_user"}
  /\ IF db.users[tx[c].actor].admin /\ NotOwnAccount(c)
     THEN Move(c, [tx[c] EXCEPT !.pc = IF tx[c].req.op = "add_user" THEN "create"
                                       ELSE "lock_user"])
     ELSE End(c)
  /\ Reads

ReadForLogout(c) ==
  /\ At(c, "read") /\ db.schema
  /\ IF Row(c).revoked = "no" THEN Move(c, [tx[c] EXCEPT !.pc = "logout"]) ELSE End(c)
  /\ Reads

\* The row read before is written, whatever has happened to it since.
Logout(c) ==
  /\ At(c, "logout") /\ Writable /\ ~RowLocked(c, tx[c].req.token)
  /\ db.sessions[tx[c].req.token] # NoRow
  /\ db' = [db EXCEPT !.sessions[tx[c].req.token].revoked = "logout"]
  /\ End(c) /\ UNCHANGED <<issued, history>> /\ Kept

-----------------------------------------------------------------------------
(***************************************************************************)
(* Accounts.                                                               *)
(***************************************************************************)
\* What an UPDATE of the open sessions of u sees.
OpenSessions(u) ==
  {t \in Tokens : db.sessions[t].revoked = "no" /\ db.sessions[t].user = u}

\* Fault: a reset leaves the sessions alone.
NoSessions(c) == IF tx[c].req.op = "reset" THEN {} ELSE OpenSessions(tx[c].req.user)

SessionsToRevoke(c) == OpenSessions(tx[c].req.user)

\* deactivate_user locks the account, reset_password writes its credential; then
\* revoke_user_sessions.
BeginRevoking(c) ==
  LET u == tx[c].req.user
  IN /\ \/ At(c, "lock_user") /\ ~UserLocked(c, u)
        \/ At(c, "write") /\ ~CredentialLocked(c, u) /\ latest[u] < MaxResets
     /\ Writable
     /\ IF db.users[u].state = "absent" THEN End(c)
        ELSE Move(c, [tx[c] EXCEPT !.pc = "revoke", !.targets = SessionsToRevoke(c)])
     /\ Reads

\* The commit of either, once every row is free.
Revoke(c) ==
  LET q == tx[c].req
      reset == q.op = "reset"
      revoked == RevokeOpen(db, tx[c].targets,
                            IF reset THEN "password_reset" ELSE "account_deactivated")
  IN /\ At(c, "revoke") /\ Writable
     /\ \A t \in tx[c].targets : ~RowLocked(c, t)
     /\ db' = IF reset THEN [revoked EXCEPT !.users[q.user].password = latest[q.user] + 1]
              ELSE [revoked EXCEPT !.users[q.user].state = "inactive"]
     /\ latest' = IF reset THEN [latest EXCEPT ![q.user] = @ + 1] ELSE latest
     /\ lost' = IF reset THEN lost \ {q.user} ELSE lost
     /\ tx' = [d \in Clients |->
                 IF d = c THEN NoTx
                 ELSE IF reset /\ At(d, "record") /\ tx[d].req.user = q.user
                      THEN [tx[d] EXCEPT !.crossed = TRUE] ELSE tx[d]]
     /\ UNCHANGED <<issued, origin, rivals>> /\ Kept

\* Fault: create-admin does not look for an administrator.
NoneYetUnchecked == TRUE

NoneYet == \A u \in Users : ~db.users[u].admin

\* create-admin counts the global roles, without a lock.
CountAdmins(c) ==
  /\ At(c, "count_admins") /\ db.schema
  /\ IF NoneYet THEN Move(c, [tx[c] EXCEPT !.pc = "create"]) ELSE End(c)
  /\ rivals' = (rivals \/ (NoneYet /\ \E d \in Others(c, "create") : tx[d].req.op = "create_admin"))
  /\ UNCHANGED <<db, issued, origin, latest, lost>> /\ Kept

\* create_local_user; the unique username refuses a second account of a name.
Create(c) ==
  LET q == tx[c].req
  IN /\ At(c, "create") /\ Writable
     /\ db' = IF db.users[q.user].state # "absent" THEN db
              ELSE [db EXCEPT !.users[q.user] =
                      [state |-> "active", password |-> 0, admin |-> q.op = "create_admin"]]
     /\ End(c) /\ UNCHANGED <<issued, history>> /\ Kept

SignIn(c) == CountFailures(c) \/ Verify(c) \/ RecordFailure(c) \/ RecordSuccess(c)

UseSession(c) ==
  \/ CheckGuard(c) \/ LockSession(c) \/ Answer(c)
  \/ ShowPage(c) \/ RequireSystem(c) \/ ReadForLogout(c) \/ Logout(c)

ChangeAccounts(c) == BeginRevoking(c) \/ Revoke(c) \/ CountAdmins(c) \/ Create(c)

SessionsNext ==
  \/ \E c \in Clients :
       Arrive(c) \/ Lose(c) \/ SignIn(c) \/ UseSession(c) \/ ChangeAccounts(c)
  \/ Tick

-----------------------------------------------------------------------------
(***************************************************************************)
(* Properties.                                                             *)
(***************************************************************************)
Admits(c) == At(c, "answer") /\ tx'[c].pc = "acting"

\* A request is admitted only on a session that is open, of an account that is
\* active, at the moment the admission commits, although both were read before:
\* the row lock of resolve_session holds off every revocation, and the foreign key
\* of a new session orders sign-ins and deactivations.
AdmissionsAreCurrent ==
  [][\A c \in Clients : Admits(c) =>
       LET row == db.sessions[tx[c].req.token]
       IN row.revoked = "no" /\ db.users[row.user].state = "active"]_vars

\* However sign-ins interleave, at most limit - 1 + (sign-ins at once) passwords
\* are tested and found wrong for a username, or from a source, within a window:
\* the count that authenticate_local takes without a lock misses only those in flight.
GuessesAreBounded ==
  \A i \in DOMAIN db.attempts :
    LET last == db.attempts[i]
        Wrong(column) ==
          Cardinality({j \in DOMAIN db.attempts :
                         LET a == db.attempts[j]
                         IN /\ a[column] = last[column] /\ a.tested /\ ~a.succeeded
                            /\ a.at \in (last.at - Window) .. last.at})
    IN /\ Wrong("user") <= UsernameLimit - 1 + scenario.atOnce
       /\ Wrong("source") <= SourceLimit - 1 + scenario.atOnce

\* After a reset, the stored password and every open session of the account come
\* from it or from a sign-in with the new password.  The two ways around it are
\* sign-ins that verified the old password and overlapped the reset: one issues
\* its session past the UPDATE, one writes its rehash over the new credential.
ResetEndsEarlierSessions ==
  \A u \in Users \ lost :
    /\ db.users[u].state # "absent" => db.users[u].password = latest[u]
    /\ \A t \in OpenSessions(u) : origin[t].password = latest[u] \/ origin[t].crossed

\* Unless two first administrators were created side by side, there is one global
\* role at most and its account stays active: create-admin grants it once, nobody
\* deactivates their own account and nobody else may deactivate.
AnAdministratorRemains ==
  LET admins == {u \in Users : db.users[u].admin}
  IN ~rivals => Cardinality(admins) <= 1 /\ \A u \in admins : db.users[u].state = "active"
==============================================================================
