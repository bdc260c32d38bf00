--------------------------- MODULE RecoveryProofs ---------------------------
(***************************************************************************)
(* What Recovery, with the requests of Sessions, keeps for any accounts,   *)
(* clients, operators, archives and bounds.                                *)
(***************************************************************************)
EXTENDS Recovery, FiniteSetTheorems, TLAPS

-----------------------------------------------------------------------------
(***************************************************************************)
(* The inductive invariant, of the requests first.                         *)
(***************************************************************************)
\* A token names a row only once it was handed out.
Numbered(d) == \A t \in Tokens : d.sessions[t] # NoRow => t <= issued

OneAdministrator(d) ==
  \A u, v \in Users :
    d.users[u].admin /\ d.users[v].admin => u = v /\ d.users[u].state = "active"

\* Which request comes to which statement.
Belongs(t) ==
  /\ t.pc = "lock_user" => t.req.op = "disable_user"
  /\ t.pc = "write" => t.req.op = "reset"
  /\ t.pc = "revoke" => t.req.op \in {"reset", "disable_user"}
  /\ t.pc = "count_admins" => t.req.op = "create_admin"
  /\ t.pc = "logout" => t.req.token \in Tokens

\* Past the lock on its session a request holds an open one, of an account that was
\* active; a revocation has seen every session there is to revoke.
Holds(t) ==
  /\ t.pc = "answer" =>
       LET row == db.sessions[t.req.token]
       IN /\ t.req.token \in Tokens /\ row \in AuthSession /\ row.revoked = "no"
          /\ t.good => db.users[row.user].state = "active"
  /\ t.pc = "revoke" =>
       IF t.req.op = "reset" THEN latest[t.req.user] < MaxResets
       ELSE OpenSessions(t.req.user) \subseteq t.targets

\* Requests that write something of this database.
Past == {"answer", "revoke", "create", "lock_user"}

\* The first administrator is created over none; a deactivation is the administrator's
\* and of another account.
Administers(t) ==
  /\ t.pc = "create" /\ t.req.op = "create_admin" => NoneYet
  /\ t.pc \in {"lock_user", "revoke"} /\ t.req.op = "disable_user" =>
       db.users[t.actor].admin /\ t.req.user # t.actor

Creating(t) == t.pc = "create" /\ t.req.op = "create_admin"

\* Row locks: one holder of a session, one reset of an account.
Apart(s, t) ==
  /\ ~(s.pc = "answer" /\ t.pc = "answer" /\ s.req.token = t.req.token)
  /\ ~(/\ s.pc = "revoke" /\ s.req.op = "reset"
       /\ t.pc = "revoke" /\ t.req.op = "reset" /\ s.req.user = t.req.user)

Requests ==
  /\ \A c \in Clients : Belongs(tx[c]) /\ Holds(tx[c]) /\ (rivals \/ Administers(tx[c]))
  /\ \A c, d \in Clients : c # d =>
       Apart(tx[c], tx[d]) /\ (rivals \/ ~(Creating(tx[c]) /\ Creating(tx[d])))

\* Before pg_restore commits there is nothing to act on.
Blank ==
  ~db.schema =>
    /\ \A t \in Tokens : db.sessions[t] = NoRow
    /\ \A c \in Clients : tx[c].pc \notin Past

SInv == SessionsTypeOK /\ Requests /\ Blank /\ (rivals \/ OneAdministrator(db))

-----------------------------------------------------------------------------
(***************************************************************************)
(* The inductive invariant, of backup and restore.                         *)
(***************************************************************************)
Sidecars == [written : {TRUE}, inventory : Inventories, checksum : Database]

ArchiveFiles == [state : {"dumped"}, content : Database, manifest : {NoManifest} \cup Sidecars]

RecoveryTypes ==
  /\ file \in [Archives -> {NoFile, Touched} \cup ArchiveFiles]
  /\ backup \in {NoJob} \cup [pc : {"dump", "inventory"}, archive : Archives]
                \cup [pc : {"manifest"}, archive : Archives, inventory : Inventories]
  /\ restore \in [Operators -> {NoJob} \cup
        [pc : {"own", "prove", "guard", "run", "revoke", "verify", "confirm", "unblock"},
         archive : Archives]]
  /\ child \in [Operators -> [state : {"none", "committed", "failed"}] \cup
                             [state : {"running"}, archive : Archives]]
  /\ losses \in 0 .. MaxLosses

\* What is in an archive was a whole database, and its manifest counts it.
GoodFile(f) ==
  f.state = "dumped" =>
    /\ f.content.schema /\ Numbered(f.content)
    /\ rivals \/ OneAdministrator(f.content)
    /\ f.manifest # NoManifest => f.manifest.inventory = DomainInventory(f.manifest.checksum)

Files == \A a \in Archives : GoodFile(file[a])

\* The tables a backup reads are locked from its snapshot to its inventory.
BackingUp ==
  /\ frozen <=> backup.pc \in {"dump", "inventory"}
  /\ backup.pc \in {"dump", "inventory"} => db.schema /\ ~blocked
  /\ backup.pc = "dump" => file[backup.archive] = Touched
  /\ backup.pc = "inventory" => file[backup.archive] = Archive(db, NoManifest)
  /\ backup.pc = "manifest" =>
       /\ file[backup.archive] \in ArchiveFiles
       /\ file[backup.archive].manifest = NoManifest
       /\ backup.inventory = DomainInventory(file[backup.archive].content)

Waiting == {"idle", "own"}

AfterCommit == {"revoke", "verify", "confirm", "unblock"}

\* One restore at a time is past its lock; behind its guard, or over an empty target;
\* an orphaned pg_restore finds a guard or a database in its way.
Restoring ==
  /\ \A r, s \in Operators :
       restore[r].pc \notin Waiting /\ restore[s].pc \notin Waiting => r = s
  /\ \A r \in Operators :
       /\ restore[r] # NoJob => Verified(restore[r].archive)
       /\ restore[r].pc = "guard" => blocked \/ ~db.schema
       /\ restore[r].pc \in AfterCommit \cup {"run"} => blocked
       /\ restore[r].pc \in AfterCommit => db.schema
       /\ child[r].state \in {"committed", "failed"} => restore[r].pc = "run"
       /\ child[r].state = "committed" => db.schema
       /\ child[r].state = "running" => Verified(child[r].archive) /\ (blocked \/ db.schema)

\* Whatever there is after a loss comes from one archive, and its sessions are over
\* before it is served.
FromArchive ==
  losses > 0 /\ db.schema =>
    /\ restored \in ArchiveFiles /\ restored.manifest \in Sidecars
    /\ restored.manifest.checksum = restored.content
    /\ Numbered(restored.content)
    /\ ~blocked \/ (\E r \in Operators : restore[r].pc = "unblock") =>
         \A t \in Tokens :
           restored.content.sessions[t] # NoRow => db.sessions[t].revoked # "no"

RInv == RecoveryTypes /\ Files /\ BackingUp /\ Restoring /\ FromArchive

IInv == SInv /\ RInv
-----------------------------------------------------------------------------
(***************************************************************************)
(* Types of the parts.                                                     *)
(***************************************************************************)
\* Numbers of the requests are natural.
LEMMA Numbers ==
  /\ Tokens \subseteq Nat /\ 0 \notin Tokens /\ Times \subseteq Nat /\ Passwords \subseteq Nat
  /\ 0 \in Times /\ 0 \in Passwords
  /\ MaxTokens \in Nat /\ MaxTime \in Nat /\ MaxResets \in Nat /\ Absolute \in Nat
BY SessionsAssumption DEF Tokens, Times, Passwords

\* The fields of a request, and that it differs from an idle client.
LEMMA Requested ==
  /\ NoTx.pc = "idle"
  /\ \A t \in Transaction :
       /\ t.pc # "idle" /\ t # NoTx
       /\ t.req \in Request /\ t.now \in Times /\ t.actor \in Users
       /\ t.good \in BOOLEAN /\ t.succeeded \in BOOLEAN
       /\ t.targets \subseteq Tokens /\ t.crossed \in BOOLEAN
       /\ t.req.user \in Users /\ t.req.token \in 0 .. MaxTokens
       /\ t.req.password \in Passwords /\ t.req.source \in Sources
BY DEF NoTx, Transaction, Request

\* The rows of a database.
LEMMA DatabaseRows ==
  ASSUME NEW d \in Database
  PROVE  /\ d.schema \in BOOLEAN
         /\ d.users \in [Users -> Account] /\ d.sessions \in [Tokens -> AuthSession \cup {NoRow}]
         /\ d.attempts \in Seq(LoginAttempt)
         /\ \A u \in Users : d.users[u] \in Account
         /\ \A t \in Tokens : d.sessions[t] \in AuthSession \/ d.sessions[t] = NoRow
         /\ \A u \in Users : /\ d.users[u].state \in {"absent", "active", "inactive"}
                             /\ d.users[u].password \in Passwords /\ d.users[u].admin \in BOOLEAN
BY DEF Database, Account

\* A row of a session is never taken for the absence of one.
LEMMA SessionRows ==
  /\ NoRow.revoked = "none"
  /\ \A row \in AuthSession :
       /\ row.revoked \in Reasons /\ row.revoked # "none" /\ row # NoRow
       /\ row.user \in Users /\ row.seen \in Times
BY DEF NoRow, AuthSession, Reasons

\* Who is at a statement has a request.
LEMMA AtRequest ==
  ASSUME SessionsTypeOK, NEW c \in Clients, tx[c].pc # "idle"
  PROVE  tx[c] \in Transaction
BY Requested DEF SessionsTypeOK

-----------------------------------------------------------------------------
(***************************************************************************)
(* One lemma for every step of a request.                                  *)
(***************************************************************************)
\* A request that stands still keeps what it holds, if the rows stay that it holds it of.
LEMMA HoldsOn ==
  ASSUME NEW d \in Clients, tx'[d] = tx[d], Holds(tx[d]),
         At(d, "answer") =>
           LET row == db.sessions[tx[d].req.token]
           IN /\ db'.sessions[tx[d].req.token] = row
              /\ db.users[row.user].state = "active" => db'.users[row.user].state = "active",
         At(d, "revoke") =>
           IF tx[d].req.op = "reset" THEN latest'[tx[d].req.user] = latest[tx[d].req.user]
           ELSE OpenSessions(tx[d].req.user)' \subseteq OpenSessions(tx[d].req.user)
  PROVE  Holds(tx[d])'
<1>1. CASE tx[d].pc = "answer"
  BY <1>1 DEF Holds, At
<1>2. CASE tx[d].pc = "revoke"
  BY <1>2 DEF Holds, At
<1>3. CASE tx[d].pc \notin {"answer", "revoke"}
  BY <1>3 DEF Holds
<1> QED
  BY <1>1, <1>2, <1>3

\* It stays the administrator's, or the only one that creates, if nobody else becomes so.
LEMMA AdministersOn ==
  ASSUME NEW d \in Clients, tx'[d] = tx[d], rivals \/ Administers(tx[d]), rivals => rivals',
         tx[d] \in Transaction \/ tx[d].pc = "idle",
         rivals' \/ \A u \in Users : db.users[u].admin => db'.users[u].admin,
         rivals' \/ (Creating(tx[d]) => NoneYet')
  PROVE  rivals' \/ Administers(tx[d])'
<1>1. CASE tx[d].pc \in {"lock_user", "revoke"}
  BY <1>1, Requested DEF Administers
<1>2. CASE tx[d].pc \notin {"lock_user", "revoke"}
  BY <1>2 DEF Administers, Creating
<1> QED
  BY <1>1, <1>2

\* A request that only counts another overlap is as far from the others as before.
LEMMA ApartOn ==
  ASSUME NEW t, NEW u, u = t \/ (t.pc = "record" /\ u.pc = "record")
  PROVE  /\ \A s : (Apart(s, t) => Apart(s, u)) /\ (Apart(t, s) => Apart(u, s))
         /\ Creating(u) => Creating(t)
BY DEF Apart, Creating

\* A step of client c keeps the invariant if what c holds then is good, and what others
\* hold is left as it was.
LEMMA Keeps ==
  ASSUME SInv, SessionsTypeOK', NEW c \in Clients,
         \A d \in Clients \ {c} :
           tx'[d] = tx[d] \/ (tx[d].pc = "record" /\ tx'[d].pc = "record"),
         Belongs(tx'[c]), Holds(tx[c])', rivals' \/ Administers(tx[c])',
         \A d \in Clients \ {c} :
           /\ Apart(tx[d], tx'[c]) /\ Apart(tx'[c], tx[d])
           /\ rivals' \/ ~(Creating(tx[d]) /\ Creating(tx'[c])),
         rivals => rivals',
         \A d \in Clients \ {c} : At(d, "answer") =>
           LET row == db.sessions[tx[d].req.token]
           IN /\ db'.sessions[tx[d].req.token] = row
              /\ db.users[row.user].state = "active" => db'.users[row.user].state = "active",
         \A d \in Clients \ {c} : At(d, "revoke") =>
           IF tx[d].req.op = "reset" THEN latest'[tx[d].req.user] = latest[tx[d].req.user]
           ELSE OpenSessions(tx[d].req.user)' \subseteq OpenSessions(tx[d].req.user),
         rivals' \/ \A u \in Users : db.users[u].admin => db'.users[u].admin,
         rivals' \/ ((\E d \in Clients \ {c} : Creating(tx[d])) => NoneYet'),
         rivals' \/ OneAdministrator(db)',
         db'.schema = db.schema,
         ~db.schema => (\A t \in Tokens : db'.sessions[t] = NoRow) /\ tx'[c].pc \notin Past
  PROVE  SInv'
<1>1. ASSUME NEW d \in Clients \ {c}
      PROVE  Belongs(tx'[d]) /\ Holds(tx[d])' /\ (rivals' \/ Administers(tx[d])')
  <2>1. CASE tx[d].pc = "record" /\ tx'[d].pc = "record"
    BY <2>1 DEF Belongs, Holds, Administers
  <2>2. CASE tx'[d] = tx[d]
    <3>1. Belongs(tx[d]) /\ Holds(tx[d]) /\ (rivals \/ Administers(tx[d]))
      BY DEF SInv, Requests
    <3>2. Holds(tx[d])'
      BY <2>2, <3>1, HoldsOn
    <3>3. tx[d] \in Transaction \/ tx[d].pc = "idle"
      BY AtRequest DEF SInv
    <3>4. rivals' \/ Administers(tx[d])'
      BY <2>2, <3>1, <3>3, AdministersOn
    <3> QED
      BY <2>2, <3>1, <3>2, <3>4
  <2> QED
    BY <2>1, <2>2
<1>2. ASSUME NEW d \in Clients, NEW e \in Clients, d # e
      PROVE  Apart(tx'[d], tx'[e]) /\ (rivals' \/ ~(Creating(tx'[d]) /\ Creating(tx'[e])))
  <2>1. Apart(tx[d], tx[e]) /\ (rivals \/ ~(Creating(tx[d]) /\ Creating(tx[e])))
    BY <1>2 DEF SInv, Requests
  <2>2. CASE d # c /\ e # c
    <3>1. /\ \A s : Apart(s, tx[d]) => Apart(s, tx'[d])
          /\ \A s : Apart(tx[d], s) => Apart(tx'[d], s)
          /\ Creating(tx'[d]) => Creating(tx[d])
      BY <2>2, ApartOn
    <3>2. /\ \A s : Apart(s, tx[e]) => Apart(s, tx'[e])
          /\ Creating(tx'[e]) => Creating(tx[e])
      BY <2>2, ApartOn
    <3> QED
      BY <2>1, <3>1, <3>2
  <2>3. CASE d = c
    BY <1>2, <2>3, ApartOn
  <2>4. CASE e = c
    BY <1>2, <2>4, ApartOn
  <2> QED
    BY <2>2, <2>3, <2>4
<1>3. Requests'
  BY <1>1, <1>2 DEF Requests, Belongs, Apart, Creating
<1>4. Blank'
  <2>1. SUFFICES ASSUME ~db.schema, NEW d \in Clients \ {c} PROVE tx'[d].pc \notin Past
    BY DEF Blank
  <2>2. tx[d].pc \notin Past
    BY <2>1 DEF SInv, Blank
  <2> QED
    BY <2>1, <2>2 DEF Past
<1> QED
  BY <1>3, <1>4 DEF SInv
-----------------------------------------------------------------------------
(***************************************************************************)
(* Steps of a request that write nothing.                                  *)
(***************************************************************************)
\* What a step of a request may do to a backup or a restore: no row that is closed
\* opens again, and nothing is written while a backup reads.
Effects ==
  /\ UNCHANGED <<blocked, frozen>>
  /\ db'.schema = db.schema
  /\ frozen => db' = db
  /\ issued' \in Nat /\ issued <= issued'
  /\ rivals => rivals'
  /\ \A t \in Tokens :
       t <= issued /\ db.sessions[t].revoked # "no" => db'.sessions[t].revoked # "no"

\* A step that only moves client c keeps the invariant if the move is good.
LEMMA Moved ==
  ASSUME SInv, NEW c \in Clients, NEW t \in {NoTx} \cup Transaction, Move(c, t),
         UNCHANGED <<db, blocked, frozen, clock, issued, scenario, origin, latest, lost>>,
         started' \in 0 .. scenario.bound, rivals' \in BOOLEAN, rivals => rivals',
         Belongs(t), Holds(t), rivals' \/ Administers(t),
         \A d \in Clients \ {c} :
           /\ Apart(tx[d], t) /\ Apart(t, tx[d])
           /\ rivals' \/ ~(Creating(tx[d]) /\ Creating(t)),
         ~db.schema => t.pc \notin Past
  PROVE  SInv' /\ Effects
<1>1. /\ tx' \in [Clients -> {NoTx} \cup Transaction]
      /\ tx'[c] = t /\ \A d \in Clients \ {c} : tx'[d] = tx[d]
  BY DEF SInv, SessionsTypeOK, Move
<1>2. SessionsTypeOK'
  BY <1>1 DEF SInv, SessionsTypeOK
<1>3. /\ \A u : OpenSessions(u)' = OpenSessions(u)
      /\ NoneYet' = NoneYet /\ OneAdministrator(db)' = OneAdministrator(db)
  BY DEF OpenSessions, NoneYet, OneAdministrator
<1>4. Holds(tx[c])' /\ (rivals' \/ Administers(tx[c])')
  BY <1>1, <1>3 DEF Holds, Administers
<1>5. rivals' \/ ((\E d \in Clients \ {c} : Creating(tx[d])) => NoneYet')
  BY <1>3 DEF SInv, Requests, Administers, Creating
<1>6. \A d \in Clients \ {c} : At(d, "revoke") =>
        IF tx[d].req.op = "reset" THEN latest'[tx[d].req.user] = latest[tx[d].req.user]
        ELSE OpenSessions(tx[d].req.user)' \subseteq OpenSessions(tx[d].req.user)
  BY <1>1, <1>3
<1>7. rivals' \/ OneAdministrator(db)'
  BY <1>3 DEF SInv
<1>8. ~db.schema => (\A u \in Tokens : db'.sessions[u] = NoRow) /\ tx'[c].pc \notin Past
  BY <1>1 DEF SInv, Blank
<1>9. SInv'
  BY <1>1, <1>2, <1>4, <1>5, <1>6, <1>7, <1>8, Keeps
<1>10. Effects
  BY Numbers DEF Effects, SInv, SessionsTypeOK
<1> QED
  BY <1>9, <1>10

\* Statements at which nothing is held yet.
Harmless == {"count", "verify", "record", "check", "lock", "acting", "read", "idle"}

LEMMA MovedHarmless ==
  ASSUME SInv, NEW c \in Clients, NEW t \in {NoTx} \cup Transaction, Move(c, t),
         Reads, t.pc \in Harmless
  PROVE  SInv' /\ Effects
<1>1. /\ started \in 0 .. scenario.bound /\ rivals \in BOOLEAN
  BY DEF SInv, SessionsTypeOK
<1>2. Belongs(t) /\ Holds(t) /\ Administers(t) /\ t.pc \notin Past
  BY DEF Harmless, Belongs, Holds, Administers, Past
<1>3. \A d \in Clients : Apart(tx[d], t) /\ Apart(t, tx[d]) /\ ~Creating(t)
  BY DEF Harmless, Apart, Creating
<1> QED
  BY <1>1, <1>2, <1>3, Moved DEF Reads, Kept, history

\* A request that ends without a write.
LEMMA Ended ==
  ASSUME SInv, NEW c \in Clients, End(c), Reads
  PROVE  SInv' /\ Effects
BY MovedHarmless, Requested DEF End, Harmless

LEMMA ArriveStep == ASSUME SInv, NEW c \in Clients, Arrive(c) PROVE SInv' /\ Effects
<1>1. PICK q \in scenario.requests :
        Move(c, [pc |-> FirstStep(q.op), req |-> q, now |-> clock, actor |-> q.user,
                 good |-> FALSE, succeeded |-> FALSE, targets |-> {}, crossed |-> FALSE])
  BY DEF Arrive
<1> DEFINE t == [pc |-> FirstStep(q.op), req |-> q, now |-> clock, actor |-> q.user,
                 good |-> FALSE, succeeded |-> FALSE, targets |-> {}, crossed |-> FALSE]
<1>2. q \in Request /\ q.user \in Users
  BY SessionsAssumption DEF SInv, SessionsTypeOK, Request
<1>3. /\ FirstStep(q.op) \in {"check", "count", "read", "write", "count_admins"}
      /\ FirstStep(q.op) = "write" => q.op = "reset"
      /\ FirstStep(q.op) = "count_admins" => q.op = "create_admin"
  <2>1. q.op \in {"page", "add_user", "disable_user", "sign_in", "logout", "reset", "create_admin"}
    BY <1>2 DEF Request, Pages
  <2> QED
    BY <2>1 DEF FirstStep, Pages
<1>4. t \in Transaction
  BY <1>2, <1>3 DEF Transaction, SInv, SessionsTypeOK
<1>5. t.pc = FirstStep(q.op) /\ t.req = q
  OBVIOUS
<1> HIDE DEF t
<1>6. Belongs(t) /\ Holds(t) /\ Administers(t) /\ t.pc \notin Past
  BY <1>3, <1>5 DEF Belongs, Holds, Administers, Past
<1>7. \A d \in Clients : Apart(tx[d], t) /\ Apart(t, tx[d]) /\ ~Creating(t)
  BY <1>3, <1>5 DEF Apart, Creating
<1>8. /\ UNCHANGED <<db, blocked, frozen, clock, issued, scenario, history>>
      /\ started' = started + 1 /\ started < scenario.bound
  BY DEF Arrive
<1>9. started' \in 0 .. scenario.bound /\ rivals' \in BOOLEAN
  <2>1. started \in 0 .. scenario.bound /\ scenario.bound \in Nat /\ rivals \in BOOLEAN
    BY SessionsAssumption DEF SInv, SessionsTypeOK
  <2> QED
    BY <1>8, <2>1 DEF history
<1>10. Move(c, t)
  BY <1>1 DEF t
<1> QED
  BY <1>4, <1>6, <1>7, <1>8, <1>9, <1>10, Moved DEF history

LEMMA LoseStep == ASSUME SInv, NEW c \in Clients, Lose(c) PROVE SInv' /\ Effects
BY Ended DEF Lose

LEMMA CountFailuresStep ==
  ASSUME SInv, NEW c \in Clients, CountFailures(c) PROVE SInv' /\ Effects
<1>1. tx[c] \in Transaction
  BY AtRequest DEF CountFailures, At, SInv
<1> DEFINE good == Allowed(tx[c].req, tx[c].now)
           t == [tx[c] EXCEPT !.pc = "verify", !.good = good]
<1>2. good \in BOOLEAN
  BY DEF Allowed
<1> HIDE DEF good
<1>3. t \in Transaction /\ t.pc \in Harmless
  BY <1>1, <1>2 DEF Transaction, Harmless
<1>4. Move(c, t) /\ Reads
  BY DEF CountFailures, good
<1> QED
  BY <1>3, <1>4, MovedHarmless

LEMMA VerifyStep == ASSUME SInv, NEW c \in Clients, Verify(c) PROVE SInv' /\ Effects
<1>1. tx[c] \in Transaction
  BY AtRequest DEF Verify, At, SInv
<1> DEFINE u == db.users[tx[c].req.user]
           good == tx[c].good /\ u.state = "active" /\ u.password = tx[c].req.password
           t == [tx[c] EXCEPT !.pc = "record", !.succeeded = good]
<1>2. good \in BOOLEAN
  BY <1>1, Requested
<1>3. Move(c, t) /\ Reads
  BY DEF Verify
<1> HIDE DEF good
<1>4. t \in Transaction /\ t.pc \in Harmless
  BY <1>1, <1>2 DEF Transaction, Harmless
<1> QED
  BY <1>3, <1>4, MovedHarmless

LEMMA CheckGuardStep == ASSUME SInv, NEW c \in Clients, CheckGuard(c) PROVE SInv' /\ Effects
<1>1. tx[c] \in Transaction
  BY AtRequest DEF CheckGuard, At, SInv
<1>2. CASE blocked
  BY <1>2, Ended DEF CheckGuard
<1>3. CASE ~blocked
  <2> DEFINE t == [tx[c] EXCEPT !.pc = "lock", !.now = clock]
  <2>1. t \in Transaction /\ t.pc \in Harmless
    BY <1>1 DEF Transaction, Harmless, SInv, SessionsTypeOK
  <2>2. Move(c, t) /\ Reads
    BY <1>3 DEF CheckGuard
  <2> QED
    BY <2>1, <2>2, MovedHarmless
<1> QED
  BY <1>2, <1>3

LEMMA ShowPageStep == ASSUME SInv, NEW c \in Clients, ShowPage(c) PROVE SInv' /\ Effects
BY Ended DEF ShowPage

LEMMA LockSessionStep == ASSUME SInv, NEW c \in Clients, LockSession(c) PROVE SInv' /\ Effects
<1> DEFINE k == tx[c].req.token
           row == Row(c)
           good == /\ db.users[row.user].state = "active"
                   /\ tx[c].now < row.expires /\ tx[c].now - row.seen < Idle
           t == [tx[c] EXCEPT !.pc = "answer", !.actor = row.user, !.good = good]
<1>1. tx[c] \in Transaction /\ db.schema /\ ~RowLocked(c, k) /\ Reads
  BY AtRequest DEF LockSession, At, SInv
<1>2. CASE row.revoked # "no"
  BY <1>1, <1>2, Ended DEF LockSession
<1>3. CASE row.revoked = "no"
  <2>1. k \in Tokens /\ row = db.sessions[k] /\ row \in AuthSession
    <3>1. row # NoRow
      BY <1>3, SessionRows
    <3>2. k # 0 /\ row = db.sessions[k]
      BY <3>1 DEF Row
    <3>3. k \in Tokens
      BY <1>1, <3>2, Requested, Numbers DEF Tokens
    <3> QED
      BY <3>1, <3>2, <3>3, DatabaseRows DEF SInv, SessionsTypeOK
  <2>2. Move(c, t)
    BY <1>3 DEF LockSession
  <2>3. good \in BOOLEAN /\ (good => db.users[row.user].state = "active")
    OBVIOUS
  <2>4. \A d \in Clients \ {c} : ~(tx[d].pc = "answer" /\ tx[d].req.token = k)
    BY <1>1 DEF RowLocked, Others, At
  <2>5. row.user \in Users
    BY <2>1, SessionRows
  <2> HIDE DEF good
  <2>6. t \in Transaction
    BY <1>1, <2>3, <2>5 DEF Transaction
  <2>7. t.pc = "answer" /\ t.req = tx[c].req /\ t.good = good
    BY <1>1 DEF Transaction
  <2> HIDE DEF t, row
  <2>8. Belongs(t) /\ Holds(t) /\ Administers(t)
    BY <1>3, <2>1, <2>3, <2>7 DEF Belongs, Holds, Administers
  <2>9. \A d \in Clients \ {c} : Apart(tx[d], t) /\ Apart(t, tx[d]) /\ ~Creating(t)
    BY <2>4, <2>7 DEF Apart, Creating
  <2>10. started \in 0 .. scenario.bound /\ rivals \in BOOLEAN
    BY DEF SInv, SessionsTypeOK
  <2> QED
    BY <1>1, <2>2, <2>6, <2>8, <2>9, <2>10, Moved DEF Reads, Kept, history
<1> QED
  BY <1>2, <1>3

LEMMA RequireSystemStep ==
  ASSUME SInv, NEW c \in Clients, RequireSystem(c) PROVE SInv' /\ Effects
<1> DEFINE t == [tx[c] EXCEPT !.pc = IF tx[c].req.op = "add_user" THEN "create"
                                     ELSE "lock_user"]
<1>1. /\ tx[c] \in Transaction /\ db.schema /\ Reads
      /\ tx[c].req.op \in {"add_user", "disable_user"}
  BY AtRequest DEF RequireSystem, At, SInv
<1>2. CASE ~(db.users[tx[c].actor].admin /\ NotOwnAccount(c))
  BY <1>1, <1>2, Ended DEF RequireSystem
<1>3. CASE db.users[tx[c].actor].admin /\ NotOwnAccount(c)
  <2>1. Move(c, t)
    BY <1>3 DEF RequireSystem
  <2>2. /\ t \in Transaction /\ t.req = tx[c].req /\ t.actor = tx[c].actor
        /\ t.pc = IF tx[c].req.op = "add_user" THEN "create" ELSE "lock_user"
    BY <1>1 DEF Transaction
  <2> HIDE DEF t
  <2>3. Belongs(t) /\ Holds(t) /\ Administers(t)
    BY <1>1, <1>3, <2>2 DEF Belongs, Holds, Administers, NotOwnAccount
  <2>4. \A d \in Clients \ {c} : Apart(tx[d], t) /\ Apart(t, tx[d]) /\ ~Creating(t)
    BY <1>1, <2>2 DEF Apart, Creating
  <2>5. started \in 0 .. scenario.bound /\ rivals \in BOOLEAN
    BY DEF SInv, SessionsTypeOK
  <2> QED
    BY <1>1, <2>1, <2>2, <2>3, <2>4, <2>5, Moved DEF Reads, Kept, history
<1> QED
  BY <1>2, <1>3

LEMMA ReadForLogoutStep ==
  ASSUME SInv, NEW c \in Clients, ReadForLogout(c) PROVE SInv' /\ Effects
<1> DEFINE t == [tx[c] EXCEPT !.pc = "logout"]
<1>1. tx[c] \in Transaction /\ db.schema /\ Reads
  BY AtRequest DEF ReadForLogout, At, SInv
<1>2. CASE Row(c).revoked # "no"
  BY <1>1, <1>2, Ended DEF ReadForLogout
<1>3. CASE Row(c).revoked = "no"
  <2>1. tx[c].req.token \in Tokens
    BY <1>1, <1>3, SessionRows, Requested, Numbers DEF Row, Tokens
  <2>2. Move(c, t)
    BY <1>3 DEF ReadForLogout
  <2>3. t \in Transaction /\ t.pc = "logout" /\ t.req = tx[c].req
    BY <1>1 DEF Transaction
  <2> HIDE DEF t
  <2>4. Belongs(t) /\ Holds(t) /\ Administers(t)
    BY <2>1, <2>3 DEF Belongs, Holds, Administers
  <2>5. \A d \in Clients \ {c} : Apart(tx[d], t) /\ Apart(t, tx[d]) /\ ~Creating(t)
    BY <2>3 DEF Apart, Creating
  <2>6. started \in 0 .. scenario.bound /\ rivals \in BOOLEAN
    BY DEF SInv, SessionsTypeOK
  <2> QED
    BY <1>1, <2>2, <2>3, <2>4, <2>5, <2>6, Moved DEF Reads, Kept, history
<1> QED
  BY <1>2, <1>3

LEMMA BeginRevokingStep ==
  ASSUME SInv, NEW c \in Clients, BeginRevoking(c) PROVE SInv' /\ Effects
<1> DEFINE u == tx[c].req.user
           t == [tx[c] EXCEPT !.pc = "revoke", !.targets = OpenSessions(u)]
<1>1. tx[c] \in Transaction /\ db.schema /\ Reads
  BY AtRequest DEF BeginRevoking, At, SInv, Writable
<1>2. /\ tx[c].pc \in {"lock_user", "write"} /\ Belongs(tx[c])
      /\ rivals \/ Administers(tx[c])
  BY DEF BeginRevoking, At, SInv, Requests
<1>3. CASE db.users[u].state = "absent"
  BY <1>1, <1>3, Ended DEF BeginRevoking
<1>4. CASE db.users[u].state # "absent"
  <2>1. Move(c, t)
    BY <1>4 DEF BeginRevoking, SessionsToRevoke
  <2>2. OpenSessions(u) \subseteq Tokens
    BY DEF OpenSessions
  <2>3. /\ t \in Transaction /\ t.pc = "revoke" /\ t.req = tx[c].req /\ t.actor = tx[c].actor
        /\ t.targets = OpenSessions(u)
    BY <1>1, <2>2 DEF Transaction
  <2>4. t.req.op = "reset" =>
          /\ latest[u] < MaxResets
          /\ \A d \in Clients \ {c} :
               ~(tx[d].pc = "revoke" /\ tx[d].req.op = "reset" /\ tx[d].req.user = u)
    BY <1>2, <2>3 DEF BeginRevoking, Belongs, At, CredentialLocked, Others
  <2> HIDE DEF t
  <2>5. Belongs(t) /\ Holds(t)
    BY <1>2, <2>3, <2>4 DEF Belongs, Holds
  <2>6. rivals \/ Administers(t)
    BY <1>2, <2>3 DEF Belongs, Administers
  <2>7. \A d \in Clients \ {c} : Apart(tx[d], t) /\ Apart(t, tx[d]) /\ ~Creating(t)
    BY <2>3, <2>4 DEF Apart, Creating
  <2>8. started \in 0 .. scenario.bound /\ rivals \in BOOLEAN
    BY DEF SInv, SessionsTypeOK
  <2> QED
    BY <1>1, <2>1, <2>3, <2>5, <2>6, <2>7, <2>8, Moved DEF Reads, Kept, history
<1> QED
  BY <1>3, <1>4

LEMMA CountAdminsStep ==
  ASSUME SInv, NEW c \in Clients, CountAdmins(c) PROVE SInv' /\ Effects
<1> DEFINE t == IF NoneYet THEN [tx[c] EXCEPT !.pc = "create"] ELSE NoTx
<1>1. /\ tx[c] \in Transaction /\ db.schema /\ Kept
      /\ UNCHANGED <<db, issued, origin, latest, lost>>
  BY AtRequest DEF CountAdmins, At, SInv
<1>2. Move(c, t)
  BY DEF CountAdmins, End
<1>3. /\ rivals \in BOOLEAN /\ started \in 0 .. scenario.bound
      /\ rivals' = (rivals \/ (NoneYet /\ \E d \in Others(c, "create") :
                                                tx[d].req.op = "create_admin"))
  BY DEF SInv, SessionsTypeOK, CountAdmins
<1>4. t \in {NoTx} \cup Transaction /\ (NoneYet => t.pc = "create") /\ (~NoneYet => t = NoTx)
  BY <1>1 DEF Transaction
<1> HIDE DEF t
<1>5. t.pc \in {"create", "idle"} /\ (t.pc = "create" => NoneYet)
  BY <1>4, Requested
<1>6. Belongs(t) /\ Holds(t) /\ Administers(t)
  BY <1>5 DEF Belongs, Holds, Administers
<1>7. ASSUME NEW d \in Clients \ {c}
      PROVE  /\ Apart(tx[d], t) /\ Apart(t, tx[d])
             /\ rivals' \/ ~(Creating(tx[d]) /\ Creating(t))
  BY <1>3, <1>5 DEF Apart, Creating, Others, At
<1>8. rivals' \in BOOLEAN /\ (rivals => rivals')
  BY <1>3
<1> QED
  BY <1>1, <1>2, <1>3, <1>4, <1>6, <1>7, <1>8, Moved DEF Kept

-----------------------------------------------------------------------------
(***************************************************************************)
(* Steps of a request that write.                                          *)
(***************************************************************************)
\* An attempt more leaves the other tables as they are.
LEMMA AttemptedRows ==
  ASSUME SInv, NEW c \in Clients, tx[c] \in Transaction
  PROVE  /\ Attempted(db, c) \in Database /\ Attempted(db, c).users = db.users
         /\ Attempted(db, c).sessions = db.sessions /\ Attempted(db, c).schema = db.schema
<1> DEFINE attempt == [user |-> tx[c].req.user, source |-> tx[c].req.source, at |-> tx[c].now,
                       tested |-> tx[c].good, succeeded |-> tx[c].succeeded]
<1>1. attempt \in LoginAttempt
  BY Requested DEF LoginAttempt
<1>2. db \in Database /\ db.attempts \in Seq(LoginAttempt)
  BY DatabaseRows DEF SInv, SessionsTypeOK
<1> HIDE DEF attempt
<1>3. Append(db.attempts, attempt) \in Seq(LoginAttempt)
  BY <1>1, <1>2
<1>4. Attempted(db, c) = [db EXCEPT !.attempts = Append(db.attempts, attempt)]
  BY DEF Attempted, attempt
<1> QED
  BY <1>2, <1>3, <1>4 DEF Database

\* A revocation closes open sessions among T and touches nothing else.
LEMMA RevokedRows ==
  ASSUME NEW d \in Database, NEW T, NEW reason \in Reasons, reason # "no"
  PROVE  LET e == RevokeOpen(d, T, reason)
         IN /\ e \in Database /\ e.users = d.users /\ e.schema = d.schema
            /\ \A t \in Tokens :
                 /\ t \notin T => e.sessions[t] = d.sessions[t]
                 /\ e.sessions[t].revoked = "no" => e.sessions[t] = d.sessions[t] /\ t \notin T
                 /\ d.sessions[t].revoked # "no" => e.sessions[t] = d.sessions[t]
                 /\ e.sessions[t] = NoRow <=> d.sessions[t] = NoRow
<1> DEFINE e == RevokeOpen(d, T, reason)
           row(t) == IF t \in T /\ d.sessions[t].revoked = "no"
                     THEN [d.sessions[t] EXCEPT !.revoked = reason] ELSE d.sessions[t]
<1>1. e = [d EXCEPT !.sessions = [t \in Tokens |-> row(t)]]
  BY DEF RevokeOpen
<1>2. ASSUME NEW t \in Tokens
      PROVE  /\ row(t) \in AuthSession \cup {NoRow}
             /\ row(t) = NoRow <=> d.sessions[t] = NoRow
             /\ t \notin T => row(t) = d.sessions[t]
             /\ row(t).revoked = "no" => row(t) = d.sessions[t] /\ t \notin T
             /\ d.sessions[t].revoked # "no" => row(t) = d.sessions[t]
  <2>1. d.sessions[t] \in AuthSession \/ d.sessions[t] = NoRow
    BY DatabaseRows
  <2>2. CASE t \in T /\ d.sessions[t].revoked = "no"
    <3>1. d.sessions[t] \in AuthSession
      BY <2>1, <2>2, SessionRows
    <3>2. row(t) \in AuthSession /\ row(t).revoked = reason
      BY <2>2, <3>1 DEF AuthSession
    <3> QED
      BY <2>2, <3>1, <3>2, SessionRows
  <2>3. CASE ~(t \in T /\ d.sessions[t].revoked = "no")
    BY <2>1, <2>3
  <2> QED
    BY <2>2, <2>3
<1> HIDE DEF row
<1>3. [t \in Tokens |-> row(t)] \in [Tokens -> AuthSession \cup {NoRow}]
  BY <1>2
<1>4. /\ e \in Database /\ e.users = d.users /\ e.schema = d.schema
      /\ e.sessions = [t \in Tokens |-> row(t)]
  BY <1>1, <1>3 DEF Database
<1> QED
  BY <1>2, <1>4

\* Where the accounts stay, so do their administrators.
LEMMA SameAdministrators ==
  ASSUME SInv, rivals' = rivals, NEW c \in Clients,
         \A u \in Users : db'.users[u].admin = db.users[u].admin
                          /\ db'.users[u].state = db.users[u].state
  PROVE  /\ rivals' \/ \A u \in Users : db.users[u].admin => db'.users[u].admin
         /\ rivals' \/ ((\E d \in Clients \ {c} : Creating(tx[d])) => NoneYet')
         /\ rivals' \/ OneAdministrator(db)'
<1>1. rivals \/ ((\E d \in Clients \ {c} : Creating(tx[d])) => NoneYet)
  BY DEF SInv, Requests, Administers, Creating
<1>2. NoneYet' <=> NoneYet
  BY DEF NoneYet
<1>3. OneAdministrator(db)' <=> OneAdministrator(db)
  BY DEF OneAdministrator
<1> QED
  BY <1>1, <1>2, <1>3 DEF SInv

\* A request that ends holds nothing.
LEMMA EndHolds ==
  ASSUME SInv, NEW c \in Clients, End(c)
  PROVE  /\ tx' \in [Clients -> {NoTx} \cup Transaction]
         /\ tx'[c] = NoTx /\ \A d \in Clients \ {c} : tx'[d] = tx[d]
         /\ Belongs(tx'[c]) /\ Holds(tx[c])' /\ Administers(tx[c])' /\ tx'[c].pc \notin Past
         /\ \A d \in Clients \ {c} :
              /\ Apart(tx[d], tx'[c]) /\ Apart(tx'[c], tx[d])
              /\ ~(Creating(tx[d]) /\ Creating(tx'[c]))
<1>1. /\ tx' \in [Clients -> {NoTx} \cup Transaction]
      /\ tx'[c] = NoTx /\ \A d \in Clients \ {c} : tx'[d] = tx[d]
  BY DEF SInv, SessionsTypeOK, End, Move
<1>2. Belongs(NoTx) /\ NoTx.pc \notin Past
  BY Requested DEF Belongs, Past
<1>3. Holds(tx[c])' /\ Administers(tx[c])'
  BY <1>1, Requested DEF Holds, Administers
<1> QED
  BY <1>1, <1>2, <1>3, Requested DEF Apart, Creating

\* A request may end if it leaves accounts, and what others hold of sessions, as they were.
LEMMA EndKeeps ==
  ASSUME SInv, SessionsTypeOK', NEW c \in Clients, End(c), rivals' = rivals,
         db.schema, db'.schema = db.schema,
         \A u \in Users : db'.users[u].admin = db.users[u].admin
                          /\ db'.users[u].state = db.users[u].state,
         \A d \in Clients \ {c} : At(d, "answer") =>
           db'.sessions[tx[d].req.token] = db.sessions[tx[d].req.token],
         \A d \in Clients \ {c} : At(d, "revoke") =>
           IF tx[d].req.op = "reset" THEN latest'[tx[d].req.user] = latest[tx[d].req.user]
           ELSE OpenSessions(tx[d].req.user)' \subseteq OpenSessions(tx[d].req.user)
  PROVE  SInv'
<1>1. \A d \in Clients \ {c} :
        tx'[d] = tx[d] \/ (tx[d].pc = "record" /\ tx'[d].pc = "record")
  BY EndHolds
<1>2. /\ Belongs(tx'[c]) /\ Holds(tx[c])' /\ (rivals' \/ Administers(tx[c])')
      /\ tx'[c].pc \notin Past
  BY EndHolds
<1>3. \A d \in Clients \ {c} :
        /\ Apart(tx[d], tx'[c]) /\ Apart(tx'[c], tx[d])
        /\ rivals' \/ ~(Creating(tx[d]) /\ Creating(tx'[c]))
  BY EndHolds
<1>4. \A d \in Clients \ {c} : At(d, "answer") =>
        LET row == db.sessions[tx[d].req.token]
        IN /\ db'.sessions[tx[d].req.token] = row
           /\ db.users[row.user].state = "active" => db'.users[row.user].state = "active"
  <2>1. SUFFICES ASSUME NEW d \in Clients \ {c}, At(d, "answer")
                 PROVE  db.sessions[tx[d].req.token].user \in Users
    OBVIOUS
  <2> QED
    BY <2>1, SessionRows DEF SInv, Requests, Holds, At
<1>5. /\ rivals' \/ \A u \in Users : db.users[u].admin => db'.users[u].admin
      /\ rivals' \/ ((\E d \in Clients \ {c} : Creating(tx[d])) => NoneYet')
      /\ rivals' \/ OneAdministrator(db)'
  BY SameAdministrators
<1> QED
  BY <1>1, <1>2, <1>3, <1>4, <1>5, Keeps

LEMMA RecordFailureStep ==
  ASSUME SInv, NEW c \in Clients, RecordFailure(c) PROVE SInv' /\ Effects
<1>1. /\ tx[c] \in Transaction /\ db.schema /\ ~frozen /\ db' = Attempted(db, c) /\ End(c)
      /\ UNCHANGED <<issued, history>> /\ Kept
  BY AtRequest DEF RecordFailure, At, SInv, Writable
<1>2. /\ db' \in Database /\ db'.users = db.users /\ db'.sessions = db.sessions
      /\ db'.schema = db.schema
  BY <1>1, AttemptedRows
<1>3. SessionsTypeOK'
  BY <1>1, <1>2, EndHolds DEF SInv, SessionsTypeOK, Kept, history
<1>4. \A u : OpenSessions(u)' = OpenSessions(u)
  BY <1>2 DEF OpenSessions
<1>5. \A d \in Clients \ {c} : At(d, "revoke") =>
        IF tx[d].req.op = "reset" THEN latest'[tx[d].req.user] = latest[tx[d].req.user]
        ELSE OpenSessions(tx[d].req.user)' \subseteq OpenSessions(tx[d].req.user)
  BY <1>1, <1>4, EndHolds DEF history
<1>6. rivals' = rivals
  BY <1>1 DEF history
<1>7. SInv'
  BY <1>1, <1>2, <1>3, <1>5, <1>6, EndKeeps
<1>8. Effects
  BY <1>1, <1>2, <1>6, Numbers DEF Effects, Kept, SInv, SessionsTypeOK
<1> QED
  BY <1>7, <1>8

LEMMA AnswerStep == ASSUME SInv, NEW c \in Clients, Answer(c) PROVE SInv' /\ Effects
<1> DEFINE k == tx[c].req.token
           row == db.sessions[k]
           new == IF tx[c].good THEN [row EXCEPT !.seen = tx[c].now]
                  ELSE [row EXCEPT !.revoked = "expired_or_inactive"]
           t == IF tx[c].good THEN [tx[c] EXCEPT !.pc = "acting"] ELSE NoTx
<1>1. /\ tx[c] \in Transaction /\ tx[c].pc = "answer" /\ db.schema /\ ~frozen
      /\ UNCHANGED <<issued, history>> /\ Kept
      /\ db \in Database
  BY AtRequest DEF Answer, At, SInv, Writable, SessionsTypeOK
<1>2. Holds(tx[c])
  BY DEF SInv, Requests
<1>3. k \in Tokens /\ row \in AuthSession /\ row.revoked = "no"
  BY <1>1, <1>2 DEF Holds
<1>4. db' = [db EXCEPT !.sessions[k] = new]
  BY <1>1, <1>3 DEF Answer
<1>5. new \in AuthSession /\ (new.revoked = "no" => tx[c].good) /\ new.user = row.user
  BY <1>1, <1>3, Requested DEF AuthSession, Reasons
<1>6. /\ db' \in Database /\ db'.users = db.users /\ db'.schema = db.schema
      /\ db'.sessions[k] = new /\ \A u \in Tokens \ {k} : db'.sessions[u] = db.sessions[u]
  <2>1. db.sessions \in [Tokens -> AuthSession \cup {NoRow}]
    BY <1>1, DatabaseRows
  <2> HIDE DEF new
  <2> QED
    BY <1>1, <1>3, <1>4, <1>5, <2>1 DEF Database
<1>7. /\ Move(c, t) /\ t \in {NoTx} \cup Transaction /\ t.pc \in {"idle", "acting"}
  <2>1. Move(c, t)
    BY DEF Answer, End
  <2> QED
    BY <1>1, <2>1, Requested DEF Transaction
<1> HIDE DEF t, new
<1>8. /\ tx' \in [Clients -> {NoTx} \cup Transaction]
      /\ tx'[c] = t /\ \A d \in Clients \ {c} : tx'[d] = tx[d]
  BY <1>7 DEF SInv, SessionsTypeOK, Move
<1>9. SessionsTypeOK'
  <2>1. \A u \in Tokens : db'.sessions[u] # NoRow => u <= issued'
    BY <1>1, <1>3, <1>6, SessionRows DEF SInv, SessionsTypeOK
  <2> QED
    BY <1>1, <1>6, <1>8, <2>1 DEF SInv, SessionsTypeOK, Kept, history
<1>10. Belongs(t) /\ Holds(tx[c])' /\ Administers(tx[c])' /\ t.pc \notin Past
  BY <1>7, <1>8 DEF Belongs, Holds, Administers, Past
<1>11. \A d \in Clients \ {c} : Apart(tx[d], t) /\ Apart(t, tx[d]) /\ ~Creating(t)
  BY <1>7 DEF Apart, Creating
<1>12. \A d \in Clients \ {c} : At(d, "answer") =>
         db'.sessions[tx[d].req.token] = db.sessions[tx[d].req.token]
  <2>1. SUFFICES ASSUME NEW d \in Clients \ {c}, At(d, "answer")
                 PROVE  tx[d].req.token \in Tokens \ {k}
    BY <1>6
  <2>2. Holds(tx[d]) /\ Apart(tx[d], tx[c])
    BY DEF SInv, Requests
  <2> QED
    BY <1>1, <2>1, <2>2 DEF Holds, Apart, At
<1>13. \A u : OpenSessions(u)' \subseteq OpenSessions(u)
  <2>1. SUFFICES ASSUME NEW u, NEW s \in Tokens, db'.sessions[s].revoked = "no", db'.sessions[s].user = u
                 PROVE  db.sessions[s].revoked = "no" /\ db.sessions[s].user = u
    BY DEF OpenSessions
  <2> QED
    BY <1>3, <1>5, <1>6, <2>1
<1>14. \A d \in Clients \ {c} : At(d, "revoke") =>
         IF tx[d].req.op = "reset" THEN latest'[tx[d].req.user] = latest[tx[d].req.user]
         ELSE OpenSessions(tx[d].req.user)' \subseteq OpenSessions(tx[d].req.user)
  BY <1>1, <1>8, <1>13 DEF history
<1>15. rivals' = rivals
  BY <1>1 DEF history
<1>16. SInv'
  BY <1>1, <1>6, <1>8, <1>9, <1>10, <1>11, <1>12, <1>14, <1>15, SameAdministrators, Keeps
<1>17. \A u \in Tokens : db.sessions[u].revoked # "no" => db'.sessions[u].revoked # "no"
  BY <1>3, <1>6
<1>18. Effects
  BY <1>1, <1>6, <1>15, <1>17, Numbers DEF Effects, Kept, SInv, SessionsTypeOK
<1> QED
  BY <1>16, <1>18

LEMMA LogoutStep == ASSUME SInv, NEW c \in Clients, Logout(c) PROVE SInv' /\ Effects
<1> DEFINE k == tx[c].req.token
           row == db.sessions[k]
           new == [row EXCEPT !.revoked = "logout"]
<1>1. /\ tx[c] \in Transaction /\ tx[c].pc = "logout" /\ db.schema /\ ~frozen
      /\ ~RowLocked(c, k) /\ row # NoRow /\ End(c)
      /\ UNCHANGED <<issued, history>> /\ Kept
      /\ db \in Database
  BY AtRequest DEF Logout, At, SInv, Writable, SessionsTypeOK
<1>2. k \in Tokens
  BY <1>1 DEF SInv, Requests, Belongs
<1>3. row \in AuthSession
  BY <1>1, <1>2, DatabaseRows
<1>4. db' = [db EXCEPT !.sessions[k] = new]
  BY <1>1, <1>2, <1>3 DEF Logout
<1>5. new \in AuthSession /\ new.revoked = "logout"
  BY <1>3 DEF AuthSession, Reasons
<1>6. /\ db' \in Database /\ db'.users = db.users /\ db'.schema = db.schema
      /\ db'.sessions[k] = new /\ \A u \in Tokens \ {k} : db'.sessions[u] = db.sessions[u]
  <2>1. db.sessions \in [Tokens -> AuthSession \cup {NoRow}]
    BY <1>1, DatabaseRows
  <2> HIDE DEF new
  <2> QED
    BY <1>1, <1>2, <1>4, <1>5, <2>1 DEF Database
<1> HIDE DEF new
<1>7. SessionsTypeOK'
  <2>1. \A u \in Tokens : db'.sessions[u] # NoRow => u <= issued'
    BY <1>1, <1>2, <1>6, SessionRows DEF SInv, SessionsTypeOK
  <2> QED
    BY <1>1, <1>6, <2>1, EndHolds DEF SInv, SessionsTypeOK, Kept, history
<1>8. \A d \in Clients \ {c} : At(d, "answer") =>
        db'.sessions[tx[d].req.token] = db.sessions[tx[d].req.token]
  <2>1. SUFFICES ASSUME NEW d \in Clients \ {c}, At(d, "answer")
                 PROVE  tx[d].req.token \in Tokens \ {k}
    BY <1>6
  <2>2. Holds(tx[d])
    BY DEF SInv, Requests
  <2> QED
    BY <1>1, <2>1, <2>2 DEF Holds, RowLocked, Others, At
<1>9. \A u : OpenSessions(u)' \subseteq OpenSessions(u)
  <2>1. SUFFICES ASSUME NEW u, NEW s \in Tokens, db'.sessions[s].revoked = "no", db'.sessions[s].user = u
                 PROVE  db.sessions[s].revoked = "no" /\ db.sessions[s].user = u
    BY DEF OpenSessions
  <2> QED
    BY <1>5, <1>6, <2>1
<1>10. \A d \in Clients \ {c} : At(d, "revoke") =>
         IF tx[d].req.op = "reset" THEN latest'[tx[d].req.user] = latest[tx[d].req.user]
         ELSE OpenSessions(tx[d].req.user)' \subseteq OpenSessions(tx[d].req.user)
  BY <1>1, <1>9, EndHolds DEF history
<1>11. rivals' = rivals
  BY <1>1 DEF history
<1>12. SInv'
  BY <1>1, <1>6, <1>7, <1>8, <1>10, <1>11, EndKeeps
<1>13. \A u \in Tokens : db.sessions[u].revoked # "no" => db'.sessions[u].revoked # "no"
  BY <1>2, <1>5, <1>6
<1>14. Effects
  BY <1>1, <1>6, <1>11, <1>13, Numbers DEF Effects, Kept, SInv, SessionsTypeOK
<1> QED
  BY <1>12, <1>14

\* A new session opens only a token never used, of an account nobody is deactivating.
LEMMA RecordSuccessStep ==
  ASSUME SInv, NEW c \in Clients, RecordSuccess(c) PROVE SInv' /\ Effects
<1> DEFINE q == tx[c].req
           k == issued + 1
           closed == RevokeOpen(Attempted(db, c), {q.token}, "rotated")
           row == [user |-> q.user, seen |-> tx[c].now, expires |-> tx[c].now + Absolute,
                   revoked |-> "no"]
           signed == Issued(closed, q.user, tx[c].now)
           resetting == CredentialLocked(c, q.user)
<1>1. /\ tx[c] \in Transaction /\ db.schema /\ ~frozen /\ End(c) /\ Kept
      /\ issued < MaxTokens /\ issued' = k /\ ~UserLocked(c, q.user) /\ ~RowLocked(c, q.token)
      /\ UNCHANGED <<latest, rivals>>
      /\ db \in Database /\ issued \in 0 .. MaxTokens
  BY AtRequest DEF RecordSuccess, At, SInv, Writable, SessionsTypeOK
<1>2. PICK upgraded \in BOOLEAN :
        /\ db' = IF upgraded THEN [signed EXCEPT !.users[q.user].password = q.password]
                             ELSE signed
        /\ lost' = IF upgraded /\ q.password # latest[q.user]
                   THEN lost \cup {q.user} ELSE lost
  BY DEF RecordSuccess
<1>3. k \in Tokens /\ k \in Nat
  BY <1>1, SessionsAssumption DEF Tokens
<1>4. /\ q.user \in Users /\ q.password \in Passwords /\ tx[c].now \in Times
  BY <1>1, Requested
<1>5. row \in AuthSession
  BY <1>4, SessionsAssumption, Numbers DEF AuthSession, Reasons, Times
<1>6. /\ closed \in Database /\ closed.users = db.users /\ closed.schema = db.schema
      /\ \A t \in Tokens :
           /\ t # q.token => closed.sessions[t] = db.sessions[t]
           /\ closed.sessions[t].revoked = "no" => closed.sessions[t] = db.sessions[t]
           /\ db.sessions[t].revoked # "no" => closed.sessions[t] = db.sessions[t]
           /\ closed.sessions[t] = NoRow <=> db.sessions[t] = NoRow
  <2>1. "rotated" \in Reasons
    BY DEF Reasons
  <2>2. /\ Attempted(db, c) \in Database /\ Attempted(db, c).users = db.users
        /\ Attempted(db, c).sessions = db.sessions /\ Attempted(db, c).schema = db.schema
    BY <1>1, AttemptedRows
  <2> QED
    BY <2>1, <2>2, RevokedRows
<1> HIDE DEF closed
<1>7. /\ signed \in Database /\ signed.users = db.users /\ signed.schema = db.schema
      /\ signed.sessions[k] = row
      /\ \A t \in Tokens \ {k} : signed.sessions[t] = closed.sessions[t]
  <2>1. signed = [closed EXCEPT !.sessions[k] = row]
    BY DEF Issued
  <2>2. closed.sessions \in [Tokens -> AuthSession \cup {NoRow}]
    BY <1>6, DatabaseRows
  <2> HIDE DEF row
  <2> QED
    BY <1>3, <1>5, <1>6, <2>1, <2>2 DEF Database
<1> HIDE DEF signed
<1>8. /\ db' \in Database /\ db'.schema = db.schema /\ db'.sessions = signed.sessions
      /\ \A u \in Users : db'.users[u].admin = db.users[u].admin
                          /\ db'.users[u].state = db.users[u].state
  <2>1. CASE ~upgraded
    BY <1>2, <1>7, <2>1
  <2>2. CASE upgraded
    <3>1. signed.users \in [Users -> Account] /\ signed.users[q.user] \in Account
      BY <1>4, <1>7, DatabaseRows
    <3>2. [signed.users[q.user] EXCEPT !.password = q.password] \in Account
      BY <1>4, <3>1 DEF Account
    <3>3. db' = [signed EXCEPT !.users[q.user].password = q.password]
      BY <1>2, <2>2
    <3>4. /\ db' \in Database /\ db'.schema = signed.schema /\ db'.sessions = signed.sessions
          /\ db'.users = [signed.users EXCEPT ![q.user] =
                            [signed.users[q.user] EXCEPT !.password = q.password]]
      BY <1>4, <1>7, <3>1, <3>2, <3>3 DEF Database
    <3>5. \A u \in Users : db'.users[u].admin = signed.users[u].admin
                           /\ db'.users[u].state = signed.users[u].state
      BY <1>4, <3>1, <3>4 DEF Account
    <3> QED
      BY <1>7, <3>4, <3>5
  <2> QED
    BY <2>1, <2>2
<1>9. /\ db'.sessions[k] = row
      /\ \A t \in Tokens \ {k} : db'.sessions[t] = closed.sessions[t]
  BY <1>7, <1>8
<1>10. /\ \A t \in Tokens : db.sessions[t] # NoRow => t <= issued
  BY DEF SInv, SessionsTypeOK
<1>11. SessionsTypeOK'
  <2>1. \A t \in Tokens : db'.sessions[t] # NoRow => t <= issued'
    <3>1. SUFFICES ASSUME NEW t \in Tokens, db'.sessions[t] # NoRow PROVE t <= k
      BY <1>1
    <3>2. CASE t = k
      BY <1>3, <3>2
    <3>3. CASE t # k
      <4>1. t <= issued
        BY <1>6, <1>9, <1>10, <3>1, <3>3
      <4> QED
        BY <1>1, <4>1, Numbers
    <3> QED
      BY <3>2, <3>3
  <2>2. origin' \in [Tokens -> [password : Passwords, crossed : BOOLEAN]]
    <3>1. origin' = [origin EXCEPT ![k] = [password |-> q.password,
                                           crossed |-> tx[c].crossed \/ resetting]]
      BY DEF RecordSuccess
    <3>2. [password |-> q.password, crossed |-> tx[c].crossed \/ resetting]
            \in [password : Passwords, crossed : BOOLEAN]
      BY <1>4
    <3> QED
      BY <3>1, <3>2 DEF SInv, SessionsTypeOK
  <2>3. lost' \subseteq Users
    BY <1>2, <1>4 DEF SInv, SessionsTypeOK
  <2>4. issued' \in 0 .. MaxTokens
    BY <1>1, SessionsAssumption
  <2> QED
    BY <1>1, <1>8, <2>1, <2>2, <2>3, <2>4, EndHolds DEF SInv, SessionsTypeOK, Kept
<1>12. \A d \in Clients \ {c} : At(d, "answer") =>
         db'.sessions[tx[d].req.token] = db.sessions[tx[d].req.token]
  <2>1. SUFFICES ASSUME NEW d \in Clients \ {c}, At(d, "answer")
                 PROVE  tx[d].req.token \in Tokens \ {k} /\ tx[d].req.token # q.token
    BY <1>6, <1>9
  <2>2. Holds(tx[d])
    BY DEF SInv, Requests
  <2>3. tx[d].req.token \in Tokens /\ db.sessions[tx[d].req.token] # NoRow
    BY <2>1, <2>2, SessionRows DEF Holds, At
  <2>4. tx[d].req.token # k
    BY <1>1, <1>10, <2>3, Numbers
  <2>5. tx[d].req.token # q.token
    BY <1>1, <2>1 DEF RowLocked, Others, At
  <2> QED
    BY <2>3, <2>4, <2>5
<1>13. \A u \in Users : u # q.user => OpenSessions(u)' \subseteq OpenSessions(u)
  <2>1. SUFFICES ASSUME NEW u \in Users, u # q.user, NEW s \in Tokens,
                        db'.sessions[s].revoked = "no", db'.sessions[s].user = u
                 PROVE  db.sessions[s].revoked = "no" /\ db.sessions[s].user = u
    BY DEF OpenSessions
  <2>2. s # k
    BY <1>9, <2>1
  <2> QED
    BY <1>6, <1>9, <2>1, <2>2
<1>14. \A d \in Clients \ {c} : At(d, "revoke") =>
         IF tx[d].req.op = "reset" THEN latest'[tx[d].req.user] = latest[tx[d].req.user]
         ELSE OpenSessions(tx[d].req.user)' \subseteq OpenSessions(tx[d].req.user)
  <2>1. SUFFICES ASSUME NEW d \in Clients \ {c}, At(d, "revoke"), tx[d].req.op # "reset"
                 PROVE  OpenSessions(tx[d].req.user)' \subseteq OpenSessions(tx[d].req.user)
    BY <1>1, EndHolds
  <2>2. Belongs(tx[d]) /\ tx[d] \in Transaction
    BY <2>1, AtRequest DEF SInv, Requests, At
  <2>3. tx[d].req.op = "disable_user" /\ tx[d].req.user \in Users
    BY <2>1, <2>2, Requested DEF Belongs, At
  <2>4. tx[d].req.user # q.user
    BY <1>1, <2>1, <2>3 DEF UserLocked, Others, At
  <2>5. tx'[d] = tx[d]
    BY <1>1, EndHolds
  <2> QED
    BY <1>13, <2>3, <2>4, <2>5
<1>15. SInv'
  BY <1>1, <1>8, <1>11, <1>12, <1>14, EndKeeps
<1>16. \A t \in Tokens :
         t <= issued /\ db.sessions[t].revoked # "no" => db'.sessions[t].revoked # "no"
  <2>1. SUFFICES ASSUME NEW t \in Tokens, t <= issued, db.sessions[t].revoked # "no"
                 PROVE  db'.sessions[t].revoked # "no"
    OBVIOUS
  <2>2. t # k
    BY <1>1, <2>1, Numbers
  <2> QED
    BY <1>6, <1>9, <2>1, <2>2
<1>17. issued' \in Nat /\ issued <= issued'
  BY <1>1, <1>3
<1>18. Effects
  BY <1>1, <1>8, <1>16, <1>17 DEF Effects, Kept, SInv, SessionsTypeOK
<1> QED
  BY <1>15, <1>18

\* The commit of a reset or a deactivation waits for every session it closes.
LEMMA RevokeStep == ASSUME SInv, NEW c \in Clients, Revoke(c) PROVE SInv' /\ Effects
<1> DEFINE q == tx[c].req
           reset == q.op = "reset"
           reason == IF reset THEN "password_reset" ELSE "account_deactivated"
           revoked == RevokeOpen(db, tx[c].targets, reason)
           account == IF reset THEN [db.users[q.user] EXCEPT !.password = latest[q.user] + 1]
                      ELSE [db.users[q.user] EXCEPT !.state = "inactive"]
<1>1. /\ tx[c] \in Transaction /\ tx[c].pc = "revoke" /\ db.schema /\ ~frozen /\ Kept
      /\ \A t \in tx[c].targets : ~RowLocked(c, t)
      /\ UNCHANGED <<issued, origin, rivals>>
      /\ db \in Database
  BY AtRequest DEF Revoke, At, SInv, Writable, SessionsTypeOK
<1>2. /\ Belongs(tx[c]) /\ Holds(tx[c]) /\ (rivals \/ Administers(tx[c]))
      /\ q.op \in {"reset", "disable_user"} /\ q.user \in Users
  BY <1>1, Requested DEF SInv, Requests, Belongs
<1>3. /\ revoked \in Database /\ revoked.users = db.users /\ revoked.schema = db.schema
      /\ \A t \in Tokens :
           /\ t \notin tx[c].targets => revoked.sessions[t] = db.sessions[t]
           /\ revoked.sessions[t].revoked = "no" =>
                revoked.sessions[t] = db.sessions[t] /\ t \notin tx[c].targets
           /\ db.sessions[t].revoked # "no" => revoked.sessions[t] = db.sessions[t]
           /\ revoked.sessions[t] = NoRow <=> db.sessions[t] = NoRow
  <2>1. reason \in Reasons /\ reason # "no"
    BY DEF Reasons
  <2>2. db \in Database
    BY <1>1
  <2> HIDE DEF reason, account, reset, q
  <2> QED
    BY <2>1, <2>2, RevokedRows
<1>4. /\ account \in Account /\ account.admin = db.users[q.user].admin
      /\ account.state = IF reset THEN db.users[q.user].state ELSE "inactive"
      /\ reset => latest[q.user] + 1 \in Passwords
  <2>1. latest[q.user] \in Passwords /\ (reset => latest[q.user] < MaxResets)
    BY <1>1, <1>2 DEF SInv, SessionsTypeOK, Holds
  <2>2. reset => latest[q.user] + 1 \in Passwords
    BY <2>1, Numbers DEF Passwords
  <2>3. db.users[q.user] \in Account
    BY <1>1, <1>2, DatabaseRows
  <2> QED
    BY <2>2, <2>3 DEF Account
<1>5. /\ db' \in Database /\ db'.schema = db.schema /\ db'.sessions = revoked.sessions
      /\ db'.users[q.user] = account
      /\ \A u \in Users \ {q.user} : db'.users[u] = db.users[u]
  <2>1. revoked.users \in [Users -> Account] /\ db.users \in [Users -> Account]
    BY <1>1, <1>3, DatabaseRows
  <2>2. db' = IF reset THEN [revoked EXCEPT !.users[q.user].password = latest[q.user] + 1]
              ELSE [revoked EXCEPT !.users[q.user].state = "inactive"]
    BY DEF Revoke
  <2> HIDE DEF revoked
  <2>3. db' = [revoked EXCEPT !.users[q.user] = account]
    <3>1. CASE reset
      BY <1>2, <1>3, <2>1, <2>2, <3>1 DEF Database
    <3>2. CASE ~reset
      BY <1>2, <1>3, <2>1, <2>2, <3>2 DEF Database
    <3> QED
      BY <3>1, <3>2
  <2> HIDE DEF account
  <2> QED
    BY <1>2, <1>3, <1>4, <2>1, <2>3 DEF Database
<1> HIDE DEF revoked, account
<1>6. /\ tx' \in [Clients -> {NoTx} \cup Transaction] /\ tx'[c] = NoTx
      /\ \A d \in Clients \ {c} :
           tx'[d] = tx[d] \/ (tx[d].pc = "record" /\ tx'[d].pc = "record")
  <2> DEFINE crossing(d) == reset /\ At(d, "record") /\ tx[d].req.user = q.user
             next(d) == IF d = c THEN NoTx
                        ELSE IF crossing(d) THEN [tx[d] EXCEPT !.crossed = TRUE] ELSE tx[d]
  <2>1. tx' = [d \in Clients |-> next(d)]
    BY DEF Revoke
  <2>2. ASSUME NEW d \in Clients
        PROVE  /\ next(d) \in {NoTx} \cup Transaction
               /\ d # c => next(d) = tx[d] \/ (tx[d].pc = "record" /\ next(d).pc = "record")
    <3>1. tx[d] \in {NoTx} \cup Transaction
      BY DEF SInv, SessionsTypeOK
    <3>2. CASE d # c /\ crossing(d)
      <4>1. tx[d] \in Transaction /\ tx[d].pc = "record"
        BY <3>2, AtRequest DEF At, SInv
      <4> QED
        BY <3>2, <4>1 DEF Transaction
    <3>3. CASE ~(d # c /\ crossing(d))
      BY <3>1, <3>3
    <3> QED
      BY <3>2, <3>3
  <2> HIDE DEF next
  <2>3. next(c) = NoTx
    BY DEF next
  <2> QED
    BY <2>1, <2>2, <2>3
<1>7. /\ latest' \in [Users -> Passwords]
      /\ \A u \in Users : (~reset \/ u # q.user) => latest'[u] = latest[u]
  BY <1>2, <1>4 DEF Revoke, SInv, SessionsTypeOK
<1>8. SessionsTypeOK'
  <2>1. lost' \subseteq Users
    BY <1>2 DEF Revoke, SInv, SessionsTypeOK
  <2>2. \A t \in Tokens : db'.sessions[t] # NoRow => t <= issued'
    BY <1>1, <1>3, <1>5 DEF SInv, SessionsTypeOK
  <2> QED
    BY <1>1, <1>5, <1>6, <1>7, <2>1, <2>2 DEF SInv, SessionsTypeOK, Kept
<1>9. /\ Belongs(tx'[c]) /\ Holds(tx[c])' /\ Administers(tx[c])' /\ tx'[c].pc \notin Past
      /\ \A d \in Clients \ {c} :
           /\ Apart(tx[d], tx'[c]) /\ Apart(tx'[c], tx[d])
           /\ ~(Creating(tx[d]) /\ Creating(tx'[c]))
  <2>1. tx'[c] = NoTx
    BY <1>6
  <2> QED
    BY <2>1, Requested DEF Belongs, Holds, Administers, Past, Apart, Creating
<1>10. ASSUME NEW d \in Clients \ {c}, At(d, "answer")
       PROVE  LET row == db.sessions[tx[d].req.token]
              IN /\ db'.sessions[tx[d].req.token] = row
                 /\ db.users[row.user].state = "active" => db'.users[row.user].state = "active"
  <2> DEFINE k == tx[d].req.token
             row == db.sessions[k]
  <2>1. k \in Tokens /\ row \in AuthSession /\ row.revoked = "no" /\ row.user \in Users
    BY <1>10, SessionRows DEF SInv, Requests, Holds, At
  <2>2. k \notin tx[c].targets
    BY <1>1, <1>10 DEF RowLocked, Others, At
  <2>3. db'.sessions[k] = row
    BY <1>3, <1>5, <2>1, <2>2
  <2>4. ~reset => row.user # q.user
    BY <1>1, <1>2, <2>1, <2>2 DEF Holds, OpenSessions
  <2> QED
    BY <1>4, <1>5, <2>1, <2>3, <2>4
<1>11. \A u : OpenSessions(u)' \subseteq OpenSessions(u)
  <2>1. SUFFICES ASSUME NEW u, NEW s \in Tokens, db'.sessions[s].revoked = "no", db'.sessions[s].user = u
                 PROVE  db.sessions[s].revoked = "no" /\ db.sessions[s].user = u
    BY DEF OpenSessions
  <2> QED
    BY <1>3, <1>5, <2>1
<1>12. \A d \in Clients \ {c} : At(d, "revoke") =>
         IF tx[d].req.op = "reset" THEN latest'[tx[d].req.user] = latest[tx[d].req.user]
         ELSE OpenSessions(tx[d].req.user)' \subseteq OpenSessions(tx[d].req.user)
  <2>1. SUFFICES ASSUME NEW d \in Clients \ {c}, At(d, "revoke")
                 PROVE  IF tx[d].req.op = "reset"
                        THEN latest'[tx[d].req.user] = latest[tx[d].req.user]
                        ELSE OpenSessions(tx[d].req.user)' \subseteq OpenSessions(tx[d].req.user)
    OBVIOUS
  <2>2. tx'[d] = tx[d]
    BY <1>6, <2>1 DEF At
  <2>3. tx[d] \in Transaction /\ Apart(tx[d], tx[c])
    BY <2>1, AtRequest DEF SInv, Requests, At
  <2>4. CASE tx[d].req.op = "reset"
    <3>1. ~reset \/ tx[d].req.user # q.user
      BY <1>1, <2>1, <2>3, <2>4 DEF Apart, At
    <3> QED
      BY <1>7, <2>3, <2>4, <3>1, Requested
  <2>5. CASE tx[d].req.op # "reset"
    BY <1>11, <2>2, <2>5
  <2> QED
    BY <2>4, <2>5
<1>13. \A u \in Users : db'.users[u].admin = db.users[u].admin
  BY <1>4, <1>5
<1>14. rivals' \/ \A u \in Users : db.users[u].admin => db'.users[u].admin
  BY <1>13
<1>15. rivals' \/ ((\E d \in Clients \ {c} : Creating(tx[d])) => NoneYet')
  <2>1. rivals \/ ((\E d \in Clients \ {c} : Creating(tx[d])) => NoneYet)
    BY DEF SInv, Requests, Administers, Creating
  <2>2. NoneYet' <=> NoneYet
    BY <1>13 DEF NoneYet
  <2> QED
    BY <1>1, <2>1, <2>2
<1>16. rivals' \/ OneAdministrator(db)'
  <2>1. SUFFICES ASSUME ~rivals PROVE OneAdministrator(db)'
    BY <1>1
  <2>2. OneAdministrator(db)
    BY <2>1 DEF SInv
  <2>3. ~reset => ~db.users[q.user].admin
    <3>1. SUFFICES ASSUME ~reset PROVE ~db.users[q.user].admin
      OBVIOUS
    <3>2. db.users[tx[c].actor].admin /\ q.user # tx[c].actor /\ tx[c].actor \in Users
      BY <1>1, <1>2, <2>1, <3>1, Requested DEF Administers
    <3> QED
      BY <1>2, <2>2, <3>2 DEF OneAdministrator
  <2>4. \A u \in Users : db.users[u].admin => db'.users[u].state = db.users[u].state
    BY <1>4, <1>5, <2>3
  <2> QED
    BY <1>13, <2>2, <2>4 DEF OneAdministrator
<1>17. SInv'
  BY <1>1, <1>5, <1>6, <1>8, <1>9, <1>10, <1>12, <1>14, <1>15, <1>16, Keeps
<1>18. \A u \in Tokens : db.sessions[u].revoked # "no" => db'.sessions[u].revoked # "no"
  BY <1>3, <1>5
<1>19. Effects
  BY <1>1, <1>5, <1>18, Numbers DEF Effects, Kept, SInv, SessionsTypeOK
<1> QED
  BY <1>17, <1>19

LEMMA CreateStep == ASSUME SInv, NEW c \in Clients, Create(c) PROVE SInv' /\ Effects
<1> DEFINE q == tx[c].req
           account == [state |-> "active", password |-> 0, admin |-> q.op = "create_admin"]
<1>1. /\ tx[c] \in Transaction /\ tx[c].pc = "create" /\ db.schema /\ ~frozen /\ Kept
      /\ End(c) /\ UNCHANGED <<issued, history>>
      /\ db \in Database
  BY AtRequest DEF Create, At, SInv, Writable, SessionsTypeOK
<1>2. CASE db.users[q.user].state # "absent"
  BY <1>1, <1>2, Ended DEF Create, Reads
<1>3. CASE db.users[q.user].state = "absent"
  <2>1. q.user \in Users /\ account \in Account /\ db' = [db EXCEPT !.users[q.user] = account]
    BY <1>1, <1>3, Requested, Numbers DEF Create, Account
  <2>2. /\ db' \in Database /\ db'.schema = db.schema /\ db'.sessions = db.sessions
        /\ db'.users[q.user] = account
        /\ \A u \in Users \ {q.user} : db'.users[u] = db.users[u]
    <3>1. db.users \in [Users -> Account]
      BY <1>1, DatabaseRows
    <3> HIDE DEF account
    <3> QED
      BY <1>1, <2>1, <3>1 DEF Database
  <2>3. account.state = "active" /\ (account.admin <=> q.op = "create_admin")
    OBVIOUS
  <2> HIDE DEF account
  <2>4. SessionsTypeOK'
    BY <1>1, <2>2, EndHolds DEF SInv, SessionsTypeOK, Kept, history
  <2>5. ASSUME NEW d \in Clients \ {c}, At(d, "answer")
        PROVE  LET row == db.sessions[tx[d].req.token]
               IN db.users[row.user].state = "active" => db'.users[row.user].state = "active"
    <3>1. db.sessions[tx[d].req.token].user \in Users
      BY <2>5, SessionRows DEF SInv, Requests, Holds, At
    <3> QED
      BY <1>3, <2>2, <3>1
  <2>6. \A d \in Clients \ {c} : At(d, "revoke") =>
          IF tx[d].req.op = "reset" THEN latest'[tx[d].req.user] = latest[tx[d].req.user]
          ELSE OpenSessions(tx[d].req.user)' \subseteq OpenSessions(tx[d].req.user)
    <3>1. \A u : OpenSessions(u)' = OpenSessions(u)
      BY <2>2 DEF OpenSessions
    <3> QED
      BY <1>1, <3>1, EndHolds DEF history
  <2>7. rivals' = rivals
    BY <1>1 DEF history
  <2>8. ~rivals => ~db.users[q.user].admin
    BY <1>3, <2>1 DEF SInv, OneAdministrator
  <2>9. rivals' \/ \A u \in Users : db.users[u].admin => db'.users[u].admin
    BY <2>1, <2>2, <2>7, <2>8
  <2>10. rivals' \/ ((\E d \in Clients \ {c} : Creating(tx[d])) => NoneYet')
    <3>1. SUFFICES ASSUME ~rivals, NEW d \in Clients \ {c}, Creating(tx[d]) PROVE NoneYet'
      BY <2>7
    <3>2. NoneYet /\ q.op # "create_admin"
      BY <1>1, <3>1 DEF SInv, Requests, Administers, Creating
    <3> QED
      BY <2>2, <2>3, <3>2 DEF NoneYet
  <2>11. rivals' \/ OneAdministrator(db)'
    <3>1. SUFFICES ASSUME ~rivals PROVE OneAdministrator(db)'
      BY <2>7
    <3>2. OneAdministrator(db)
      BY <3>1 DEF SInv
    <3>3. CASE q.op = "create_admin"
      <4>1. NoneYet
        BY <1>1, <3>1, <3>3 DEF SInv, Requests, Administers, Creating
      <4> QED
        BY <2>2, <2>3, <4>1 DEF NoneYet, OneAdministrator
    <3>4. CASE q.op # "create_admin"
      BY <2>2, <2>3, <3>2, <3>4 DEF OneAdministrator
    <3> QED
      BY <3>3, <3>4
  <2>12. SInv'
    BY <1>1, <2>2, <2>4, <2>5, <2>6, <2>7, <2>9, <2>10, <2>11, EndHolds, Keeps
  <2>13. Effects
    BY <1>1, <2>2, <2>7, Numbers DEF Effects, Kept, SInv, SessionsTypeOK
  <2> QED
    BY <2>12, <2>13
<1> QED
  BY <1>2, <1>3

LEMMA TickStep == ASSUME SInv, Tick PROVE SInv' /\ Effects
<1>1. /\ clock < scenario.until /\ clock' = clock + 1
      /\ UNCHANGED <<db, blocked, frozen, tx, issued, started, scenario, history>>
  BY DEF Tick
<1>2. clock' \in Times
  <2>1. scenario.until \in Times /\ clock \in Times
    BY SessionsAssumption DEF SInv, SessionsTypeOK
  <2> QED
    BY <1>1, <2>1, Numbers DEF Times
<1>3. SessionsTypeOK'
  BY <1>1, <1>2 DEF SInv, SessionsTypeOK, history
<1>4. Requests' /\ Blank' /\ (rivals' \/ OneAdministrator(db)')
  BY <1>1 DEF SInv, Requests, Holds, Administers, OpenSessions, NoneYet, Blank,
     OneAdministrator, history
<1>5. Effects
  BY <1>1, Numbers DEF Effects, SInv, SessionsTypeOK, history
<1> QED
  BY <1>3, <1>4, <1>5 DEF SInv

\* Every step of a request.
LEMMA SessionsStep == ASSUME SInv, SessionsNext PROVE SInv' /\ Effects
<1>1. CASE Tick
  BY <1>1, TickStep
<1>2. ASSUME NEW c \in Clients,
             Arrive(c) \/ Lose(c) \/ SignIn(c) \/ UseSession(c) \/ ChangeAccounts(c)
      PROVE  SInv' /\ Effects
  <2>1. CASE Arrive(c) \/ Lose(c)
    BY <2>1, ArriveStep, LoseStep
  <2>2. CASE SignIn(c)
    BY <2>2, CountFailuresStep, VerifyStep, RecordFailureStep, RecordSuccessStep DEF SignIn
  <2>3. CASE UseSession(c)
    BY <2>3, CheckGuardStep, LockSessionStep, AnswerStep, ShowPageStep, RequireSystemStep,
       ReadForLogoutStep, LogoutStep DEF UseSession
  <2>4. CASE ChangeAccounts(c)
    BY <2>4, BeginRevokingStep, RevokeStep, CountAdminsStep, CreateStep DEF ChangeAccounts
  <2> QED
    BY <1>2, <2>1, <2>2, <2>3, <2>4
<1> QED
  BY <1>1, <1>2 DEF SessionsNext

-----------------------------------------------------------------------------
(***************************************************************************)
(* Files, jobs and inventories.                                            *)
(***************************************************************************)
Jobs ==
  {NoJob} \cup
  [pc : {"own", "prove", "guard", "run", "revoke", "verify", "confirm", "unblock"},
   archive : Archives]

Children == [state : {"none", "committed", "failed"}] \cup [state : {"running"}, archive : Archives]

\* What the records of files and processes say of themselves.
LEMMA Records ==
  /\ NoFile.state = "none" /\ Touched.state = "touched" /\ NoManifest.written = FALSE
  /\ NoJob.pc = "idle" /\ NoChild \in Children /\ NoChild.state = "none"
  /\ \A f \in ArchiveFiles :
       /\ f.state = "dumped" /\ f.content \in Database
       /\ f.manifest = NoManifest \/ f.manifest \in Sidecars
  /\ \A m \in Sidecars : m.written = TRUE /\ m.checksum \in Database /\ m # NoManifest
  /\ \A j \in Jobs : j = NoJob \/
       /\ j.archive \in Archives /\ j # NoJob
       /\ j.pc \in {"own", "prove", "guard", "run", "revoke", "verify", "confirm", "unblock"}
  /\ \A k \in Children : k.state \in {"none", "committed", "failed"} \/
                         (k.state = "running" /\ k.archive \in Archives)
<1>1. /\ NoFile.state = "none" /\ Touched.state = "touched" /\ NoManifest.written = FALSE
      /\ NoJob.pc = "idle"
  BY DEF NoFile, Touched, NoManifest, NoJob
<1>2. NoChild \in Children /\ NoChild.state = "none"
  BY DEF NoChild, Children
<1>3. \A f \in ArchiveFiles :
        /\ f.state = "dumped" /\ f.content \in Database
        /\ f.manifest = NoManifest \/ f.manifest \in Sidecars
  BY DEF ArchiveFiles
<1>4. \A m \in Sidecars : m.written = TRUE /\ m.checksum \in Database /\ m # NoManifest
  BY <1>1 DEF Sidecars
<1>5. \A j \in Jobs : j = NoJob \/
        /\ j.archive \in Archives /\ j # NoJob
        /\ j.pc \in {"own", "prove", "guard", "run", "revoke", "verify", "confirm", "unblock"}
  BY <1>1 DEF Jobs
<1>6. \A k \in Children : k.state \in {"none", "committed", "failed"} \/
                          (k.state = "running" /\ k.archive \in Archives)
  BY DEF Children
<1> QED
  BY <1>1, <1>2, <1>3, <1>4, <1>5, <1>6

\* What a restore has verified is an archive with a manifest.
LEMMA VerifiedFile ==
  ASSUME RecoveryTypes, NEW a \in Archives, Verified(a)
  PROVE  /\ file[a] \in ArchiveFiles /\ file[a].manifest \in Sidecars
         /\ file[a].manifest.checksum = file[a].content
BY Records DEF RecoveryTypes, Verified

\* An inventory counts what there is.
LEMMA InventoryTyped == ASSUME NEW d \in Database PROVE DomainInventory(d) \in Inventories
<1>1. IsFiniteSet(Users) /\ MaxTokens \in Nat
  BY SessionsAssumption
<1>2. IsFiniteSet(Tokens) /\ Cardinality(Tokens) = MaxTokens
  <2>1. 1 \in Int /\ MaxTokens \in Int
    BY <1>1
  <2>2. IsFiniteSet(1 .. MaxTokens)
        /\ Cardinality(1 .. MaxTokens) = IF 1 > MaxTokens THEN 0 ELSE MaxTokens - 1 + 1
    BY <2>1, FS_Interval
  <2> QED
    BY <1>1, <2>2 DEF Tokens
<1>3. ASSUME NEW S \in SUBSET Users PROVE Cardinality(S) \in 0 .. Cardinality(Users)
  <2>1. IsFiniteSet(S) /\ Cardinality(S) <= Cardinality(Users)
    BY <1>1, FS_Subset
  <2>2. Cardinality(S) \in Nat /\ Cardinality(Users) \in Nat
    BY <1>1, <2>1, FS_CardinalityType
  <2> QED
    BY <2>1, <2>2
<1>4. ASSUME NEW S \in SUBSET Tokens PROVE Cardinality(S) \in 0 .. MaxTokens
  <2>1. IsFiniteSet(S) /\ Cardinality(S) <= Cardinality(Tokens)
    BY <1>2, FS_Subset
  <2>2. Cardinality(S) \in Nat
    BY <2>1, FS_CardinalityType
  <2> QED
    BY <1>1, <1>2, <2>1, <2>2
<1>5. /\ {u \in Users : d.users[u].state # "absent"} \in SUBSET Users
      /\ {u \in Users : d.users[u].admin} \in SUBSET Users
      /\ {u \in Users : d.users[u].state = "inactive"} \in SUBSET Users
      /\ {t \in Tokens : d.sessions[t] # NoRow} \in SUBSET Tokens
  OBVIOUS
<1> QED
  BY <1>3, <1>4, <1>5 DEF DomainInventory, Inventories

-----------------------------------------------------------------------------
(***************************************************************************)
(* What a step leaves of backups and restores.                             *)
(***************************************************************************)
\* A file whose parts are as before is as good as before.
LEMMA GoodFileKept ==
  ASSUME NEW f \in {NoFile, Touched} \cup ArchiveFiles, GoodFile(f),
         issued \in Nat, issued' \in Nat, issued <= issued', rivals => rivals',
         NEW g, g = f
  PROVE  g.state = "dumped" =>
           /\ g.content.schema
           /\ \A t \in Tokens : g.content.sessions[t] # NoRow => t <= issued'
           /\ rivals' \/ OneAdministrator(g.content)
           /\ g.manifest # NoManifest => g.manifest.inventory = DomainInventory(g.manifest.checksum)
<1>1. SUFFICES ASSUME f.state = "dumped", NEW t \in Tokens, f.content.sessions[t] # NoRow
               PROVE  t <= issued'
  BY DEF GoodFile
<1>2. t <= issued /\ t \in Nat
  BY <1>1, Numbers DEF GoodFile, Numbered
<1> QED
  BY <1>2

\* The files that stay are good afterwards.
LEMMA FilesKept ==
  ASSUME RecoveryTypes, Files, issued \in Nat, issued' \in Nat, issued <= issued',
         rivals => rivals', NEW a \in Archives, file'[a] = file[a]
  PROVE  GoodFile(file[a])'
<1> DEFINE f == file[a]
<1>1. f \in {NoFile, Touched} \cup ArchiveFiles /\ GoodFile(f)
  BY DEF RecoveryTypes, Files
<1>2. file'[a] = f
  OBVIOUS
<1> HIDE DEF f
<1>3. file'[a].state = "dumped" =>
        /\ file'[a].content.schema
        /\ \A t \in Tokens : file'[a].content.sessions[t] # NoRow => t <= issued'
        /\ rivals' \/ OneAdministrator(file'[a].content)
        /\ file'[a].manifest # NoManifest =>
             file'[a].manifest.inventory = DomainInventory(file'[a].manifest.checksum)
  BY <1>1, <1>2, GoodFileKept
<1> QED
  BY <1>3 DEF GoodFile, Numbered, OneAdministrator, DomainInventory

\* A step of operator r keeps the order among restores if its move is good and takes
\* nothing from the others.
LEMMA RestoringMoved ==
  ASSUME RecoveryTypes, Restoring, NEW r \in Operators, NEW job \in Jobs, NEW k \in Children,
         restore' = [restore EXCEPT ![r] = job], child' = [child EXCEPT ![r] = k],
         UNCHANGED file,
         job # NoJob => Verified(job.archive),
         job.pc \notin Waiting => \A s \in Operators \ {r} : restore[s].pc \in Waiting,
         job.pc = "guard" => blocked' \/ ~db'.schema,
         job.pc \in AfterCommit \cup {"run"} => blocked',
         job.pc \in AfterCommit => db'.schema,
         k.state \in {"committed", "failed"} => job.pc = "run",
         k.state = "committed" => db'.schema,
         k.state = "running" => Verified(k.archive) /\ (blocked' \/ db'.schema),
         db.schema => db'.schema,
         \A s \in Operators \ {r} :
           /\ restore[s].pc = "guard" => blocked' \/ ~db'.schema
           /\ restore[s].pc \in AfterCommit \cup {"run"} => blocked'
           /\ child[s].state = "running" => blocked' \/ db'.schema
  PROVE  /\ Restoring'
         /\ restore' \in [Operators -> Jobs] /\ child' \in [Operators -> Children]
<1>1. restore \in [Operators -> Jobs] /\ child \in [Operators -> Children]
  BY DEF RecoveryTypes, Jobs, Children
<1>2. /\ restore' \in [Operators -> Jobs] /\ child' \in [Operators -> Children]
      /\ restore'[r] = job /\ child'[r] = k
      /\ \A s \in Operators \ {r} : restore'[s] = restore[s] /\ child'[s] = child[s]
  BY <1>1
<1>3. \A a : Verified(a)' <=> Verified(a)
  BY DEF Verified
<1>4. ASSUME NEW s \in Operators
      PROVE  /\ restore'[s] # NoJob => Verified(restore'[s].archive)
             /\ restore'[s].pc = "guard" => blocked' \/ ~db'.schema
             /\ restore'[s].pc \in AfterCommit \cup {"run"} => blocked'
             /\ restore'[s].pc \in AfterCommit => db'.schema
             /\ child'[s].state \in {"committed", "failed"} => restore'[s].pc = "run"
             /\ child'[s].state = "committed" => db'.schema
             /\ child'[s].state = "running" =>
                  Verified(child'[s].archive) /\ (blocked' \/ db'.schema)
  BY <1>2 DEF Restoring
<1>5. \A s, t \in Operators :
        restore'[s].pc \notin Waiting /\ restore'[t].pc \notin Waiting => s = t
  BY <1>2 DEF Restoring
<1> QED
  BY <1>2, <1>3, <1>4, <1>5 DEF Restoring, Verified, Waiting, AfterCommit

\* What serves is still from the archive while no restore comes to its end.
LEMMA FromArchiveKept ==
  ASSUME FromArchive, UNCHANGED <<losses, restored>>, db'.schema = db.schema,
         issued \in Nat, issued' \in Nat, issued <= issued',
         \A t \in Tokens :
           t <= issued /\ db.sessions[t].revoked # "no" => db'.sessions[t].revoked # "no",
         ~blocked' \/ (\E r \in Operators : restore'[r].pc = "unblock") =>
           ~blocked \/ \E r \in Operators : restore[r].pc = "unblock"
  PROVE  FromArchive'
<1>1. SUFFICES ASSUME losses > 0, db.schema PROVE FromArchive'
  BY DEF FromArchive
<1>2. /\ restored \in ArchiveFiles /\ restored.manifest \in Sidecars
      /\ restored.manifest.checksum = restored.content
      /\ \A t \in Tokens : restored.content.sessions[t] # NoRow => t <= issued
      /\ ~blocked \/ (\E r \in Operators : restore[r].pc = "unblock") =>
           \A t \in Tokens :
             restored.content.sessions[t] # NoRow => db.sessions[t].revoked # "no"
  BY <1>1 DEF FromArchive, Numbered
<1>3. \A t \in Tokens : restored.content.sessions[t] # NoRow => t <= issued'
  BY <1>2, Numbers
<1>4. ~blocked' \/ (\E r \in Operators : restore'[r].pc = "unblock") =>
        \A t \in Tokens :
          restored.content.sessions[t] # NoRow => db'.sessions[t].revoked # "no"
  BY <1>2
<1>5. restored' = restored
  OBVIOUS
<1> QED
  BY <1>2, <1>3, <1>4, <1>5 DEF FromArchive, Numbered

\* The steps of a backup and of a restore leave the requests alone.
LEMMA SameRequests ==
  ASSUME SInv, UNCHANGED <<db, clock, tx, issued, started, scenario, history>>,
         blocked' \in BOOLEAN, frozen' \in BOOLEAN
  PROVE  SInv'
<1>1. SessionsTypeOK'
  BY DEF SInv, SessionsTypeOK, history
<1>2. Requests' /\ Blank' /\ (rivals' \/ OneAdministrator(db)')
  BY DEF SInv, Requests, Holds, Administers, OpenSessions, NoneYet, Blank,
     OneAdministrator, history
<1> QED
  BY <1>1, <1>2 DEF SInv

\* Tokens are counted by a natural number.
LEMMA IssuedIsNat == ASSUME SInv PROVE issued \in Nat /\ issued <= issued
BY Numbers DEF SInv, SessionsTypeOK

\* A step of a request leaves every backup and restore as it was.
LEMMA RequestsKeepRecovery ==
  ASSUME IInv, Effects, UNCHANGED recoveryVars
  PROVE  RInv'
<1>1. issued \in Nat /\ issued' \in Nat /\ issued <= issued' /\ (rivals => rivals')
  BY IssuedIsNat DEF Effects, IInv
<1>2. RecoveryTypes'
  BY DEF IInv, RInv, RecoveryTypes, recoveryVars
<1>3. Files'
  BY <1>1, FilesKept DEF Files, IInv, RInv, recoveryVars
<1>4. BackingUp'
  BY DEF IInv, RInv, BackingUp, Effects, recoveryVars
<1>5. Restoring'
  BY DEF IInv, RInv, Restoring, Effects, recoveryVars, Verified
<1>6. FromArchive'
  BY <1>1, FromArchiveKept DEF IInv, RInv, Effects, recoveryVars
<1> QED
  BY <1>2, <1>3, <1>4, <1>5, <1>6 DEF RInv

-----------------------------------------------------------------------------
(***************************************************************************)
(* The steps of a backup.                                                  *)
(***************************************************************************)
BackupJobs ==
  {NoJob} \cup [pc : {"dump", "inventory"}, archive : Archives]
  \cup [pc : {"manifest"}, archive : Archives, inventory : Inventories]

\* A backup that writes no verified archive disturbs no restore.
LEMMA BackupKept ==
  ASSUME IInv, BackupKeeps, frozen' \in BOOLEAN, backup' \in BackupJobs,
         file' \in [Archives -> {NoFile, Touched} \cup ArchiveFiles],
         \A b \in Archives : file'[b] = file[b] \/ (~Verified(b) /\ GoodFile(file'[b])),
         BackingUp'
  PROVE  IInv'
<1>1. SInv'
  BY SameRequests DEF IInv, BackupKeeps, SInv, SessionsTypeOK
<1>2. RecoveryTypes'
  BY DEF IInv, RInv, RecoveryTypes, BackupJobs, BackupKeeps
<1>3. Files'
  <2>1. issued \in Nat /\ issued' = issued /\ rivals' = rivals
    BY IssuedIsNat DEF IInv, BackupKeeps, history
  <2>2. ASSUME NEW b \in Archives PROVE GoodFile(file[b])'
    <3>1. CASE file'[b] = file[b]
      BY <2>1, <3>1, FilesKept DEF IInv, RInv
    <3>2. CASE GoodFile(file'[b])
      BY <2>1, <3>2 DEF GoodFile, Numbered, OneAdministrator, DomainInventory
    <3> QED
      BY <3>1, <3>2
  <2> QED
    BY <2>2 DEF Files
<1>4. Restoring'
  <2>1. \A b \in Archives : Verified(b) => Verified(b)'
    BY DEF Verified
  <2>2. restore \in [Operators -> Jobs] /\ child \in [Operators -> Children]
    BY DEF IInv, RInv, RecoveryTypes, Jobs, Children
  <2>3. \A r \in Operators :
          /\ restore[r] # NoJob => restore[r].archive \in Archives
          /\ child[r].state = "running" => child[r].archive \in Archives
    BY <2>2, Records
  <2>4. \A r \in Operators :
          /\ restore[r] # NoJob => Verified(restore[r].archive)'
          /\ child[r].state = "running" => Verified(child[r].archive)'
    BY <2>1, <2>3 DEF IInv, RInv, Restoring, BackupKeeps
  <2>5. UNCHANGED <<db, blocked, restore, child>>
    BY DEF BackupKeeps
  <2> QED
    BY <2>4, <2>5 DEF IInv, RInv, Restoring
<1>5. FromArchive'
  BY DEF IInv, RInv, FromArchive, Numbered, BackupKeeps
<1> QED
  BY <1>1, <1>2, <1>3, <1>4, <1>5 DEF IInv, RInv

\* A step that leaves the files alone.
LEMMA SameFiles ==
  ASSUME RecoveryTypes, UNCHANGED file
  PROVE  /\ file' \in [Archives -> {NoFile, Touched} \cup ArchiveFiles]
         /\ \A b \in Archives : file'[b] = file[b]
BY DEF RecoveryTypes

LEMMA StartBackupStep == ASSUME IInv, NEW a \in Archives, StartBackup(a) PROVE IInv'
<1>1. /\ file[a] = NoFile /\ ~blocked /\ db.schema /\ frozen' = TRUE
      /\ file' = [file EXCEPT ![a] = Touched]
      /\ backup' = [pc |-> "dump", archive |-> a] /\ BackupKeeps
  BY DEF StartBackup, LocksTables
<1>2. ~Verified(a)
  BY <1>1, Records DEF Verified
<1>3. GoodFile(Touched)
  BY Records DEF GoodFile
<1>4. /\ file' \in [Archives -> {NoFile, Touched} \cup ArchiveFiles] /\ file'[a] = Touched
      /\ \A b \in Archives : file'[b] = file[b] \/ (~Verified(b) /\ GoodFile(file'[b]))
  BY <1>1, <1>2, <1>3 DEF IInv, RInv, RecoveryTypes
<1>5. BackingUp'
  BY <1>1, <1>4 DEF BackingUp, BackupKeeps
<1> QED
  BY <1>1, <1>4, <1>5, BackupKept DEF BackupJobs

LEMMA DumpStep == ASSUME IInv, Dump PROVE IInv'
<1> DEFINE a == backup.archive
           f == Archive(db, NoManifest)
<1>1. /\ backup.pc = "dump" /\ file' = [file EXCEPT ![a] = f]
      /\ backup' = [backup EXCEPT !.pc = "inventory"] /\ UNCHANGED frozen /\ BackupKeeps
  BY DEF Dump
<1>2. backup \in [pc : {"dump", "inventory"}, archive : Archives]
  BY <1>1, Records DEF IInv, RInv, RecoveryTypes
<1>3. a \in Archives /\ backup' \in BackupJobs /\ backup'.pc = "inventory" /\ backup'.archive = a
  BY <1>1, <1>2 DEF BackupJobs
<1>4. frozen /\ db.schema /\ ~blocked /\ file[a] = Touched
  BY <1>1 DEF IInv, RInv, BackingUp
<1>5. ~Verified(a)
  BY <1>4, Records DEF Verified
<1>6. f \in ArchiveFiles /\ f.content = db /\ f.manifest = NoManifest
  BY DEF Archive, ArchiveFiles, IInv, SInv, SessionsTypeOK
<1>7. GoodFile(f)
  BY <1>4, <1>6 DEF GoodFile, Numbered, IInv, SInv, SessionsTypeOK
<1> HIDE DEF f, a
<1>8. /\ file' \in [Archives -> {NoFile, Touched} \cup ArchiveFiles] /\ file'[a] = f
      /\ \A b \in Archives : file'[b] = file[b] \/ (~Verified(b) /\ GoodFile(file'[b]))
  BY <1>1, <1>3, <1>5, <1>6, <1>7 DEF IInv, RInv, RecoveryTypes
<1>9. db' = db /\ blocked' = blocked /\ frozen' = TRUE /\ frozen' \in BOOLEAN
  BY <1>1, <1>4 DEF BackupKeeps, IInv, SInv, SessionsTypeOK
<1>10. file'[backup'.archive] = Archive(db', NoManifest)
  BY <1>3, <1>8, <1>9 DEF f
<1>11. BackingUp'
  BY <1>3, <1>4, <1>9, <1>10 DEF BackingUp, Archive, NoManifest
<1> QED
  BY <1>1, <1>3, <1>8, <1>9, <1>11, BackupKept

LEMMA DumpFailsStep == ASSUME IInv, DumpFails PROVE IInv'
<1> DEFINE a == backup.archive
<1>1. /\ backup.pc = "dump" /\ file' = [file EXCEPT ![a] = NoFile]
      /\ backup' = NoJob /\ frozen' = FALSE /\ BackupKeeps
  BY DEF DumpFails
<1>2. file[a] = Touched
  BY <1>1 DEF IInv, RInv, BackingUp
<1>3. ~Verified(a) /\ GoodFile(NoFile)
  BY <1>2, Records DEF Verified, GoodFile
<1>4. /\ file' \in [Archives -> {NoFile, Touched} \cup ArchiveFiles]
      /\ \A b \in Archives : file'[b] = file[b] \/ (~Verified(b) /\ GoodFile(file'[b]))
  BY <1>1, <1>3 DEF IInv, RInv, RecoveryTypes
<1>5. BackingUp'
  BY <1>1, Records DEF BackingUp
<1> QED
  BY <1>1, <1>4, <1>5, BackupKept DEF BackupJobs

LEMMA TakeInventoryStep == ASSUME IInv, TakeInventory PROVE IInv'
<1> DEFINE a == backup.archive
           n == DomainInventory(db)
<1>1. /\ backup.pc = "inventory" /\ frozen' = FALSE /\ UNCHANGED file /\ BackupKeeps
      /\ backup' = [pc |-> "manifest", archive |-> a, inventory |-> n]
  BY DEF TakeInventory
<1>2. backup \in [pc : {"dump", "inventory"}, archive : Archives]
  BY <1>1, Records DEF IInv, RInv, RecoveryTypes
<1>3. a \in Archives /\ file[a] = Archive(db, NoManifest)
  BY <1>1, <1>2 DEF IInv, RInv, BackingUp
<1>4. db \in Database /\ n \in Inventories
  BY InventoryTyped DEF IInv, SInv, SessionsTypeOK
<1> HIDE DEF n
<1>5. backup' \in BackupJobs
  BY <1>1, <1>3, <1>4 DEF BackupJobs
<1>6. file'[a] \in ArchiveFiles /\ file'[a].content = db /\ file'[a].manifest = NoManifest
  BY <1>1, <1>3, <1>4 DEF Archive, ArchiveFiles
<1>7. backup'.inventory = DomainInventory(file'[backup'.archive].content)
  BY <1>1, <1>6 DEF n
<1>8. BackingUp'
  BY <1>1, <1>6, <1>7 DEF BackingUp, DomainInventory, NoManifest
<1> QED
  BY <1>1, <1>5, <1>8, SameFiles, BackupKept DEF IInv, RInv

LEMMA WriteManifestStep == ASSUME IInv, WriteManifest PROVE IInv'
<1> DEFINE a == backup.archive
           f == file[a]
           m == Manifest(backup.inventory, f.content)
           g == [f EXCEPT !.manifest = m]
<1>1. /\ backup.pc = "manifest" /\ file' = [file EXCEPT ![a].manifest = m]
      /\ backup' = NoJob /\ UNCHANGED frozen /\ BackupKeeps
  BY DEF WriteManifest
<1>2. backup \in [pc : {"manifest"}, archive : Archives, inventory : Inventories]
  BY <1>1, Records DEF IInv, RInv, RecoveryTypes
<1>3. /\ f \in ArchiveFiles /\ f.manifest = NoManifest
      /\ backup.inventory = DomainInventory(f.content) /\ backup.inventory \in Inventories
      /\ a \in Archives
  BY <1>1, <1>2 DEF IInv, RInv, BackingUp
<1>4. ~Verified(a)
  BY <1>3, Records DEF Verified
<1>5. m \in Sidecars /\ m.inventory = backup.inventory /\ m.checksum = f.content
  BY <1>3 DEF Manifest, Sidecars, ArchiveFiles
<1>6. GoodFile(f)
  BY <1>3 DEF IInv, RInv, Files
<1> HIDE DEF m
<1>7. /\ file' = [file EXCEPT ![a] = g]
      /\ g \in ArchiveFiles /\ g.content = f.content /\ g.manifest = m /\ g.state = f.state
  BY <1>1, <1>3, <1>5 DEF ArchiveFiles
<1> HIDE DEF g
<1>8. GoodFile(g)
  BY <1>3, <1>5, <1>6, <1>7 DEF GoodFile
<1> HIDE DEF f, a
<1>9. /\ file' \in [Archives -> {NoFile, Touched} \cup ArchiveFiles]
      /\ \A b \in Archives : file'[b] = file[b] \/ (~Verified(b) /\ GoodFile(file'[b]))
  BY <1>3, <1>4, <1>7, <1>8 DEF IInv, RInv, RecoveryTypes
<1>10. frozen = FALSE /\ frozen' = FALSE
  BY <1>1 DEF IInv, RInv, BackingUp, SInv, SessionsTypeOK
<1>11. BackingUp'
  BY <1>1, <1>10, Records DEF BackingUp
<1> QED
  BY <1>1, <1>9, <1>10, <1>11, BackupKept DEF BackupJobs

LEMMA KillBackupStep == ASSUME IInv, KillBackup PROVE IInv'
<1>1. backup' = NoJob /\ frozen' = FALSE /\ UNCHANGED file /\ BackupKeeps
  BY DEF KillBackup
<1>2. BackingUp'
  BY <1>1, Records DEF BackingUp
<1> QED
  BY <1>1, <1>2, SameFiles, BackupKept DEF IInv, RInv, BackupJobs

-----------------------------------------------------------------------------
(***************************************************************************)
(* What happens from outside.                                              *)
(***************************************************************************)
LEMMA LossStep == ASSUME IInv, Loss PROVE IInv'
<1>1. /\ losses < MaxLosses /\ losses' = losses + 1
      /\ \A r \in Operators : restore[r] = NoJob /\ child[r].state # "running"
      /\ db' = EmptyDatabase /\ blocked' = FALSE /\ tx' = [c \in Clients |-> NoTx]
      /\ backup' = NoJob /\ frozen' = FALSE
      /\ UNCHANGED <<clock, issued, started, scenario, history>>
      /\ UNCHANGED <<file, restore, child, restored>>
  BY DEF Loss
<1>2. /\ EmptyDatabase \in Database /\ EmptyDatabase.schema = FALSE
      /\ \A u \in Users : EmptyDatabase.users[u].admin = FALSE
      /\ \A t \in Tokens : EmptyDatabase.sessions[t] = NoRow
  <2>1. [state |-> "absent", password |-> 0, admin |-> FALSE] \in Account
    BY Numbers DEF Account
  <2>2. <<>> \in Seq(LoginAttempt)
    OBVIOUS
  <2> QED
    BY <2>1, <2>2 DEF EmptyDatabase, Database
<1>3. SInv'
  <2>1. SessionsTypeOK'
    <3>1. db' \in Database /\ \A t \in Tokens : db'.sessions[t] # NoRow => t <= issued'
      BY <1>1, <1>2
    <3> QED
      BY <1>1, <3>1 DEF IInv, SInv, SessionsTypeOK, history
  <2>2. \A c \in Clients : tx'[c].pc = "idle"
    BY <1>1, Requested
  <2>3. Requests'
    BY <2>2 DEF Requests, Belongs, Holds, Administers, Apart, Creating
  <2>4. Blank'
    BY <1>1, <1>2, <2>2 DEF Blank, Past
  <2>5. OneAdministrator(db)'
    BY <1>1, <1>2 DEF OneAdministrator
  <2> QED
    BY <2>1, <2>3, <2>4, <2>5 DEF SInv
<1>4. RecoveryTypes'
  <2>1. losses' \in 0 .. MaxLosses
    BY <1>1, RecoveryAssumption DEF IInv, RInv, RecoveryTypes
  <2> QED
    BY <1>1, <2>1 DEF IInv, RInv, RecoveryTypes
<1>5. Files'
  <2>1. issued \in Nat /\ issued' = issued /\ rivals' = rivals
    BY <1>1, IssuedIsNat DEF IInv, history
  <2> QED
    BY <1>1, <2>1, FilesKept DEF Files, IInv, RInv
<1>6. BackingUp'
  BY <1>1, Records DEF BackingUp
<1>7. Restoring'
  <2>1. \A r \in Operators : child[r].state \notin {"committed", "failed", "running"}
    BY <1>1, Records DEF IInv, RInv, Restoring
  <2> QED
    BY <1>1, <2>1, Records DEF Restoring, Waiting, AfterCommit
<1>8. FromArchive'
  BY <1>1, <1>2 DEF FromArchive
<1> QED
  BY <1>3, <1>4, <1>5, <1>6, <1>7, <1>8 DEF IInv, RInv

LEMMA OverwriteStep ==
  ASSUME IInv, NEW a \in Archives, NEW b \in Archives, Overwrite(a, b)
  PROVE  IInv'
<1> DEFINE f == file[a]
           h == file[b]
           g == [f EXCEPT !.content = h.content]
<1>1. /\ f.state = "dumped" /\ h.state = "dumped" /\ backup = NoJob
      /\ \A r \in Operators : restore[r] = NoJob /\ child[r].state # "running"
      /\ file' = [file EXCEPT ![a].content = h.content]
      /\ UNCHANGED <<vars, backup, restore, child, losses, restored>>
  BY DEF Overwrite
<1>2. f \in ArchiveFiles /\ h \in ArchiveFiles /\ GoodFile(f) /\ GoodFile(h)
  BY <1>1, Records DEF IInv, RInv, RecoveryTypes, Files
<1>3. /\ g \in ArchiveFiles /\ g.content = h.content /\ g.manifest = f.manifest
      /\ file' = [file EXCEPT ![a] = g]
  BY <1>1, <1>2 DEF ArchiveFiles
<1> HIDE DEF g
<1>4. GoodFile(g)
  BY <1>1, <1>2, <1>3 DEF GoodFile
<1> HIDE DEF f, h
<1>5. /\ file' \in [Archives -> {NoFile, Touched} \cup ArchiveFiles]
      /\ \A c \in Archives : file'[c] = file[c] \/ GoodFile(file'[c])
  BY <1>3, <1>4 DEF IInv, RInv, RecoveryTypes
<1>6. issued \in Nat /\ issued' = issued /\ rivals' = rivals
  BY <1>1, IssuedIsNat DEF IInv, vars, history
<1>7. SInv'
  BY <1>1, SameRequests DEF IInv, vars, SInv, SessionsTypeOK
<1>8. RecoveryTypes'
  BY <1>1, <1>5 DEF IInv, RInv, RecoveryTypes
<1>9. Files'
  <2>1. ASSUME NEW c \in Archives PROVE GoodFile(file[c])'
    <3>1. CASE file'[c] = file[c]
      BY <1>6, <3>1, FilesKept DEF IInv, RInv
    <3>2. CASE GoodFile(file'[c])
      BY <1>6, <3>2 DEF GoodFile, Numbered, OneAdministrator, DomainInventory
    <3> QED
      BY <1>5, <3>1, <3>2
  <2> QED
    BY <2>1 DEF Files
<1>10. BackingUp'
  BY <1>1, Records DEF IInv, RInv, BackingUp, vars
<1>11. Restoring'
  <2>1. \A r \in Operators : child[r].state \notin {"committed", "failed", "running"}
    BY <1>1, Records DEF IInv, RInv, Restoring
  <2> QED
    BY <1>1, <2>1, Records DEF Restoring, Waiting, AfterCommit
<1>12. FromArchive'
  BY <1>1 DEF IInv, RInv, FromArchive, Numbered, vars
<1> QED
  BY <1>7, <1>8, <1>9, <1>10, <1>11, <1>12 DEF IInv, RInv

-----------------------------------------------------------------------------
(***************************************************************************)
(* The steps of a restore.                                                 *)
(***************************************************************************)
\* A step of a restore leaves the files and the backup as they were, and no database
\* is written that a backup reads.
LEMMA RestoreKept ==
  ASSUME IInv, UNCHANGED <<frozen, issued, rivals, file, backup, losses>>, SInv', Restoring', FromArchive',
         restore' \in [Operators -> Jobs], child' \in [Operators -> Children],
         frozen => UNCHANGED <<db, blocked>>
  PROVE  IInv'
<1>1. RecoveryTypes'
  BY DEF IInv, RInv, RecoveryTypes, Jobs, Children
<1>2. Files'
  <2>1. issued \in Nat /\ issued' = issued /\ rivals' = rivals /\ file' = file
    BY IssuedIsNat DEF IInv
  <2> QED
    BY <2>1, FilesKept DEF Files, IInv, RInv
<1>3. BackingUp'
  <2>1. frozen' = frozen /\ file' = file /\ backup' = backup /\ BackingUp
    BY DEF IInv, RInv
  <2>2. CASE frozen
    BY <2>1, <2>2 DEF BackingUp
  <2>3. CASE ~frozen
    BY <2>1, <2>3 DEF BackingUp
  <2> QED
    BY <2>2, <2>3
<1> QED
  BY <1>1, <1>2, <1>3 DEF IInv, RInv

\* What operator r does next, and that others wait while r is past the lock.
Go(r, pc) == [pc |-> pc, archive |-> restore[r].archive]

LEMMA Going ==
  ASSUME IInv, NEW r \in Operators, restore[r].pc # "idle"
  PROVE  /\ restore[r] \in Jobs /\ restore[r] # NoJob /\ restore[r].archive \in Archives
         /\ Verified(restore[r].archive)
         /\ \A pc \in {"own", "prove", "guard", "run", "revoke", "verify", "confirm", "unblock"} :
              /\ Go(r, pc) \in Jobs /\ Go(r, pc).pc = pc
              /\ Go(r, pc).archive = restore[r].archive
              /\ Step(r, pc) => restore' = [restore EXCEPT ![r] = Go(r, pc)]
         /\ restore[r].pc # "own" =>
              \A s \in Operators \ {r} : restore[s].pc \in Waiting
<1>1. restore \in [Operators -> Jobs]
  BY DEF IInv, RInv, RecoveryTypes, Jobs
<1>2. restore[r] \in Jobs /\ restore[r] # NoJob
  BY <1>1, Records
<1>3. /\ restore[r].archive \in Archives
      /\ restore[r] \in [pc : {"own", "prove", "guard", "run", "revoke", "verify", "confirm",
                               "unblock"}, archive : Archives]
  BY <1>2 DEF Jobs
<1>4. Verified(restore[r].archive)
  BY <1>2 DEF IInv, RInv, Restoring
<1>5. ASSUME NEW pc \in {"own", "prove", "guard", "run", "revoke", "verify", "confirm", "unblock"}
      PROVE  /\ Go(r, pc) \in Jobs /\ Go(r, pc).pc = pc
             /\ Go(r, pc).archive = restore[r].archive
             /\ Step(r, pc) => restore' = [restore EXCEPT ![r] = Go(r, pc)]
  <2>1. [restore[r] EXCEPT !.pc = pc] = Go(r, pc)
    BY <1>3 DEF Go
  <2>2. Step(r, pc) => restore' = [restore EXCEPT ![r] = [restore[r] EXCEPT !.pc = pc]]
    BY DEF Step
  <2>3. Go(r, pc) \in Jobs /\ Go(r, pc).pc = pc /\ Go(r, pc).archive = restore[r].archive
    BY <1>3 DEF Go, Jobs
  <2> QED
    BY <2>1, <2>2, <2>3
<1>6. restore[r].pc # "own" => \A s \in Operators \ {r} : restore[s].pc \in Waiting
  BY DEF IInv, RInv, Restoring, Waiting
<1> QED
  BY <1>2, <1>3, <1>4, <1>5, <1>6

\* The jobs and the children before a step.
LEMMA Working ==
  ASSUME IInv
  PROVE  /\ restore \in [Operators -> Jobs] /\ child \in [Operators -> Children]
         /\ NoJob \in Jobs /\ NoChild \in Children
         /\ \A r \in Operators :
              /\ restore[r] \in Jobs /\ child[r] \in Children
              /\ restore = [restore EXCEPT ![r] = restore[r]]
              /\ child = [child EXCEPT ![r] = child[r]]
BY Records DEF IInv, RInv, RecoveryTypes, Jobs, Children

\* A step of operator r that writes nothing keeps the invariant if its move is good.
LEMMA RestoreMoved ==
  ASSUME IInv, RestoreKeeps, UNCHANGED <<db, blocked, restored>>,
         NEW r \in Operators, NEW job \in Jobs, NEW k \in Children,
         restore' = [restore EXCEPT ![r] = job], child' = [child EXCEPT ![r] = k],
         job # NoJob => Verified(job.archive),
         job.pc \notin Waiting => \A s \in Operators \ {r} : restore[s].pc \in Waiting,
         job.pc = "guard" => blocked \/ ~db.schema,
         job.pc \in AfterCommit \cup {"run"} => blocked,
         job.pc \in AfterCommit => db.schema,
         job.pc = "unblock" =>
           restore[r].pc = "unblock" \/ \A t \in Tokens : db.sessions[t].revoked # "no",
         k.state \in {"committed", "failed"} => job.pc = "run",
         k.state = "committed" => db.schema,
         k.state = "running" => Verified(k.archive) /\ (blocked \/ db.schema)
  PROVE  IInv'
<1>1. RecoveryTypes /\ Restoring /\ FromArchive
  BY DEF IInv, RInv
<1>2. /\ UNCHANGED <<file, losses, frozen, issued>>
      /\ UNCHANGED <<db, clock, tx, issued, started, scenario, history>>
  BY DEF RestoreKeeps
<1>3. \A s \in Operators \ {r} :
        /\ restore[s].pc = "guard" => blocked \/ ~db.schema
        /\ restore[s].pc \in AfterCommit \cup {"run"} => blocked
        /\ child[s].state = "running" => blocked \/ db.schema
  BY <1>1 DEF Restoring
<1>4. /\ Restoring'
      /\ restore' \in [Operators -> Jobs] /\ child' \in [Operators -> Children]
  BY <1>1, <1>2, <1>3, RestoringMoved
<1>5. SInv'
  BY <1>2, SameRequests DEF IInv, SInv, SessionsTypeOK
<1>6. FromArchive'
  <2>1. CASE \A t \in Tokens : db.sessions[t].revoked # "no"
    BY <1>1, <1>2, <2>1 DEF FromArchive, Numbered
  <2>2. CASE ~\A t \in Tokens : db.sessions[t].revoked # "no"
    <3>1. (\E s \in Operators : restore'[s].pc = "unblock") =>
            \E s \in Operators : restore[s].pc = "unblock"
      BY <1>1, <1>4, <2>2 DEF RecoveryTypes
    <3>2. issued \in Nat /\ issued <= issued
      BY IssuedIsNat DEF IInv
    <3> QED
      BY <1>1, <1>2, <3>1, <3>2, FromArchiveKept
  <2> QED
    BY <2>1, <2>2
<1> QED
  BY <1>4, <1>5, <1>6, RestoreKept DEF RestoreKeeps, history

\* The child of an operator that stays.
LEMMA SameChild ==
  ASSUME IInv, NEW r \in Operators
  PROVE  /\ child[r].state = "running" => Verified(child[r].archive) /\ (blocked \/ db.schema)
         /\ child[r].state = "committed" => db.schema
         /\ child[r].state \in {"committed", "failed"} => restore[r].pc = "run"
         /\ restore[r].pc = "guard" => blocked \/ ~db.schema
         /\ restore[r].pc \in AfterCommit \cup {"run"} => blocked
         /\ restore[r].pc \in AfterCommit => db.schema
BY DEF IInv, RInv, Restoring

\* A restore that ends, or its connection, leaves at most the child it had.
LEMMA Stopping ==
  ASSUME IInv, RestoreKeeps, UNCHANGED <<db, blocked, restored>>,
         NEW r \in Operators, NEW k \in Children, Stop(r), child' = [child EXCEPT ![r] = k],
         k.state \notin {"committed", "failed"}, k.state = "running" => k = child[r]
  PROVE  IInv'
<1>1. NoJob \in Jobs /\ NoJob.pc = "idle" /\ restore' = [restore EXCEPT ![r] = NoJob]
  BY Working, Records DEF Stop
<1>2. k.state = "running" => Verified(k.archive) /\ (blocked \/ db.schema)
  BY SameChild
<1>3. NoJob.pc \in Waiting /\ NoJob.pc \notin AfterCommit /\ NoJob.pc \notin {"guard", "run", "unblock"}
  BY <1>1 DEF Waiting, AfterCommit
<1> QED
  BY <1>1, <1>2, <1>3, RestoreMoved

LEMMA StartRestoreStep ==
  ASSUME IInv, NEW r \in Operators, NEW a \in Archives, StartRestore(r, a) PROVE IInv'
<1> DEFINE job == [pc |-> "own", archive |-> a]
<1>1. /\ restore[r] = NoJob /\ child[r].state # "running" /\ Verified(a)
      /\ restore' = [restore EXCEPT ![r] = job]
      /\ UNCHANGED <<db, blocked, child, restored>> /\ RestoreKeeps
  BY DEF StartRestore
<1>2. job \in Jobs /\ job.pc = "own" /\ job.archive = a
  BY DEF Jobs
<1> HIDE DEF job
<1>3. child[r].state \notin {"committed", "failed"}
  BY <1>1, SameChild, Records
<1>4. child' = [child EXCEPT ![r] = child[r]] /\ child[r] \in Children
  BY <1>1, Working
<1> QED
  BY <1>1, <1>2, <1>3, <1>4, RestoreMoved DEF Waiting, AfterCommit

LEMMA OwnStep == ASSUME IInv, NEW r \in Operators, Own(r) PROVE IInv'
<1>1. /\ restore[r].pc = "own"
      /\ IF FreeToOwn(r) THEN Step(r, "prove") ELSE Stop(r)
      /\ UNCHANGED <<db, blocked, child, restored>> /\ RestoreKeeps
  BY DEF Own
<1>2. child[r].state \notin {"committed", "failed"}
  BY <1>1, SameChild
<1>3. child' = [child EXCEPT ![r] = child[r]] /\ child[r] \in Children
  BY <1>1, Working
<1>4. CASE FreeToOwn(r)
  <2>1. \A s \in Operators \ {r} : restore[s].pc \in Waiting
    BY <1>4 DEF FreeToOwn, Waiting
  <2>2. /\ restore' = [restore EXCEPT ![r] = Go(r, "prove")] /\ Go(r, "prove") \in Jobs
        /\ Go(r, "prove").pc = "prove" /\ Verified(Go(r, "prove").archive)
    BY <1>1, <1>4, Going
  <2> QED
    BY <1>1, <1>2, <1>3, <2>1, <2>2, SameChild, RestoreMoved DEF AfterCommit
<1>5. CASE ~FreeToOwn(r)
  BY <1>1, <1>2, <1>3, <1>5, Stopping
<1> QED
  BY <1>4, <1>5

LEMMA ProveEmptyStep == ASSUME IInv, NEW r \in Operators, ProveEmpty(r) PROVE IInv'
<1>1. /\ restore[r].pc = "prove"
      /\ IF db.schema THEN Stop(r) ELSE Step(r, "guard")
      /\ UNCHANGED <<db, blocked, child, restored>> /\ RestoreKeeps
  BY DEF ProveEmpty
<1>2. child[r].state \notin {"committed", "failed"}
  BY <1>1, SameChild
<1>3. child' = [child EXCEPT ![r] = child[r]] /\ child[r] \in Children
  BY <1>1, Working
<1>4. CASE ~db.schema
  <2>1. /\ restore' = [restore EXCEPT ![r] = Go(r, "guard")] /\ Go(r, "guard") \in Jobs
        /\ Go(r, "guard").pc = "guard" /\ Verified(Go(r, "guard").archive)
        /\ \A s \in Operators \ {r} : restore[s].pc \in Waiting
    BY <1>1, <1>4, Going
  <2> QED
    BY <1>1, <1>2, <1>3, <1>4, <2>1, SameChild, RestoreMoved DEF AfterCommit
<1>5. CASE db.schema
  BY <1>1, <1>2, <1>3, <1>5, Stopping
<1> QED
  BY <1>4, <1>5

LEMMA GuardStep == ASSUME IInv, NEW r \in Operators, Guard(r) PROVE IInv'
<1> DEFINE k == [state |-> "running", archive |-> restore[r].archive]
           job == Go(r, "run")
<1>1. /\ restore[r].pc = "guard" /\ blocked' = TRUE
      /\ child' = [child EXCEPT ![r] = k] /\ Step(r, "run")
      /\ UNCHANGED <<db, restored>> /\ RestoreKeeps
  BY DEF Guard
<1>2. /\ restore' = [restore EXCEPT ![r] = job] /\ job \in Jobs
      /\ job.pc = "run" /\ Verified(job.archive) /\ job.archive = restore[r].archive
      /\ restore[r].archive \in Archives
      /\ \A s \in Operators \ {r} : restore[s].pc \in Waiting
  BY <1>1, Going
<1>3. k \in Children /\ k.state = "running" /\ k.archive = restore[r].archive
  BY <1>2 DEF Children
<1> HIDE DEF k, job
<1>4. RecoveryTypes /\ Restoring /\ FromArchive /\ BackingUp
  BY DEF IInv, RInv
<1>5. /\ UNCHANGED <<file, losses, frozen, issued>>
      /\ UNCHANGED <<db, clock, tx, issued, started, scenario, history>>
  BY <1>1 DEF RestoreKeeps
<1>6. /\ Restoring'
      /\ restore' \in [Operators -> Jobs] /\ child' \in [Operators -> Children]
  BY <1>1, <1>2, <1>3, <1>4, <1>5, RestoringMoved DEF AfterCommit
<1>7. SInv'
  BY <1>1, <1>5, SameRequests DEF IInv, SInv, SessionsTypeOK
<1>8. FromArchive'
  <2>1. \A s \in Operators : restore'[s].pc # "unblock"
    BY <1>2, <1>6, Working DEF Waiting
  <2>2. issued \in Nat /\ issued <= issued
    BY IssuedIsNat DEF IInv
  <2> QED
    BY <1>1, <1>4, <1>5, <2>1, <2>2, FromArchiveKept
<1>9. ~frozen
  <2>1. blocked \/ ~db.schema
    BY <1>1, SameChild
  <2> QED
    BY <1>4, <2>1 DEF BackingUp
<1> QED
  BY <1>1, <1>6, <1>7, <1>8, <1>9, RestoreKept DEF RestoreKeeps, history

LEMMA ChildCommitsStep == ASSUME IInv, NEW r \in Operators, ChildCommits(r) PROVE IInv'
<1> DEFINE f == file[child[r].archive]
           k == IF restore[r].pc = "run" THEN [state |-> "committed"] ELSE NoChild
<1>1. /\ child[r].state = "running" /\ ~db.schema
      /\ db' = f.content /\ restored' = f /\ child' = [child EXCEPT ![r] = k]
      /\ lost' = lost \cup {u \in Users : db'.users[u].password # latest[u]}
      /\ UNCHANGED <<blocked, frozen, clock, tx, issued, started, scenario, origin, latest>>
      /\ UNCHANGED <<rivals, file, backup, restore, losses>>
  BY DEF ChildCommits, Exit
<1>2. child[r].archive \in Archives /\ Verified(child[r].archive) /\ blocked
  <2>1. child[r] \in Children
    BY Working
  <2> QED
    BY <1>1, <2>1, Records, SameChild
<1>3. /\ f \in ArchiveFiles /\ f.manifest \in Sidecars /\ f.manifest.checksum = f.content
      /\ f.content \in Database /\ f.content.schema /\ Numbered(f.content)
      /\ rivals \/ OneAdministrator(f.content)
  <2>1. /\ f \in ArchiveFiles /\ f.manifest \in Sidecars /\ f.manifest.checksum = f.content
    BY <1>2, VerifiedFile DEF IInv, RInv
  <2>2. GoodFile(f)
    BY <1>2 DEF IInv, RInv, Files
  <2> QED
    BY <2>1, <2>2, Records DEF GoodFile
<1>4. k \in Children /\ k.state \in {"committed", "none"}
      /\ (k.state = "committed" => restore[r].pc = "run")
  BY Records DEF Children
<1> HIDE DEF f, k
<1>5. /\ UNCHANGED <<clock, tx, issued, started, scenario, origin, latest, rivals>>
      /\ UNCHANGED <<frozen, file, backup, losses>>
  BY <1>1
<1>6. SInv'
  <2>1. SessionsTypeOK'
    <3>1. lost' \subseteq Users
      BY <1>1 DEF IInv, SInv, SessionsTypeOK
    <3> QED
      BY <1>1, <1>3, <1>5, <3>1 DEF IInv, SInv, SessionsTypeOK, Numbered
  <2>2. \A c \in Clients : tx[c].pc \notin {"answer", "revoke", "create", "lock_user"}
    BY <1>1 DEF IInv, SInv, Blank, Past
  <2>3. Requests'
    <3>1. \A c \in Clients : Belongs(tx[c])
      BY DEF IInv, SInv, Requests
    <3> QED
      BY <1>5, <2>2, <3>1 DEF Requests, Belongs, Holds, Administers, Apart, Creating
  <2>4. Blank'
    BY <1>1, <1>3 DEF Blank
  <2>5. rivals' \/ OneAdministrator(db)'
    BY <1>1, <1>3, <1>5 DEF OneAdministrator
  <2> QED
    BY <2>1, <2>3, <2>4, <2>5 DEF SInv
<1>7. /\ Restoring'
      /\ restore' \in [Operators -> Jobs] /\ child' \in [Operators -> Children]
  <2>1. restore[r] \in Jobs /\ restore' = [restore EXCEPT ![r] = restore[r]]
    BY <1>1, Working
  <2>2. restore[r] # NoJob => Verified(restore[r].archive)
    BY DEF IInv, RInv, Restoring
  <2>3. restore[r].pc \notin AfterCommit
    BY <1>1, SameChild
  <2>4. restore[r].pc \notin Waiting => \A s \in Operators \ {r} : restore[s].pc \in Waiting
    BY DEF IInv, RInv, Restoring
  <2>5. RecoveryTypes /\ Restoring
    BY DEF IInv, RInv
  <2>6. db'.schema /\ blocked' /\ file' = file
    BY <1>1, <1>2, <1>3, <1>5
  <2> QED
    BY <1>1, <1>4, <2>1, <2>2, <2>3, <2>4, <2>5, <2>6, RestoringMoved
<1>8. FromArchive'
  <2>1. \A s \in Operators : restore'[s].pc # "unblock"
    BY <1>1, SameChild DEF AfterCommit
  <2> QED
    BY <1>1, <1>2, <1>3, <1>5, <2>1 DEF FromArchive, Numbered
<1>9. ~frozen
  BY <1>1 DEF IInv, RInv, BackingUp
<1> QED
  BY <1>1, <1>5, <1>6, <1>7, <1>8, <1>9, RestoreKept

LEMMA ChildFailsStep == ASSUME IInv, NEW r \in Operators, ChildFails(r) PROVE IInv'
<1> DEFINE k == IF restore[r].pc = "run" THEN [state |-> "failed"] ELSE NoChild
<1>1. /\ child' = [child EXCEPT ![r] = k]
      /\ UNCHANGED <<db, blocked, restore, restored>> /\ RestoreKeeps
  BY DEF ChildFails, Exit
<1>2. k \in Children /\ k.state \in {"failed", "none"}
      /\ (k.state = "failed" => restore[r].pc = "run")
  BY Records DEF Children
<1> HIDE DEF k
<1>3. restore[r] \in Jobs /\ restore' = [restore EXCEPT ![r] = restore[r]]
  BY <1>1, Working
<1>4. /\ restore[r] # NoJob => Verified(restore[r].archive)
      /\ restore[r].pc \notin Waiting => \A s \in Operators \ {r} : restore[s].pc \in Waiting
  BY DEF IInv, RInv, Restoring
<1> QED
  BY <1>1, <1>2, <1>3, <1>4, SameChild, RestoreMoved

LEMMA ReadExitStep == ASSUME IInv, NEW r \in Operators, ReadExit(r) PROVE IInv'
<1>1. /\ restore[r].pc = "run"
      /\ IF child[r].state = "committed" THEN Step(r, "revoke") ELSE Stop(r)
      /\ child' = [child EXCEPT ![r] = NoChild]
      /\ UNCHANGED <<db, blocked, restored>> /\ RestoreKeeps
  BY DEF ReadExit
<1>2. NoChild \in Children /\ NoChild.state = "none"
  BY Records
<1>3. CASE child[r].state = "committed"
  <2>1. /\ restore' = [restore EXCEPT ![r] = Go(r, "revoke")] /\ Go(r, "revoke") \in Jobs
        /\ Go(r, "revoke").pc = "revoke" /\ Verified(Go(r, "revoke").archive)
        /\ \A s \in Operators \ {r} : restore[s].pc \in Waiting
    BY <1>1, <1>3, Going
  <2>2. blocked /\ db.schema
    BY <1>1, <1>3, SameChild
  <2> QED
    BY <1>1, <1>2, <2>1, <2>2, RestoreMoved
<1>4. CASE child[r].state # "committed"
  BY <1>1, <1>2, <1>4, Stopping
<1> QED
  BY <1>3, <1>4

LEMMA RevokeAllStep == ASSUME IInv, NEW r \in Operators, RevokeAll(r) PROVE IInv'
<1> DEFINE job == Go(r, "verify")
<1>1. /\ restore[r].pc = "revoke" /\ Step(r, "verify") /\ db' = AllRevoked(db)
      /\ \A c \in Clients : tx[c].pc \notin {"answer", "revoke"}
      /\ UNCHANGED <<blocked, child, restored>> /\ RestoreKeeps
  BY DEF RevokeAll, At
<1>2. blocked /\ db.schema /\ db \in Database
  BY <1>1, SameChild DEF AfterCommit, IInv, SInv, SessionsTypeOK
<1>3. /\ db' \in Database /\ db'.users = db.users /\ db'.schema = db.schema
      /\ \A t \in Tokens :
           /\ db.sessions[t].revoked # "no" => db'.sessions[t].revoked # "no"
           /\ db'.sessions[t] = NoRow <=> db.sessions[t] = NoRow
  <2>1. "database_restore" \in Reasons /\ "database_restore" # "no"
    BY DEF Reasons
  <2> DEFINE e == RevokeOpen(db, Tokens, "database_restore")
  <2>2. db \in Database
    BY <1>2
  <2>3. /\ e \in Database /\ e.users = db.users /\ e.schema = db.schema
        /\ \A t \in Tokens :
             /\ t \notin Tokens => e.sessions[t] = db.sessions[t]
             /\ e.sessions[t].revoked = "no" => e.sessions[t] = db.sessions[t] /\ t \notin Tokens
             /\ db.sessions[t].revoked # "no" => e.sessions[t] = db.sessions[t]
             /\ e.sessions[t] = NoRow <=> db.sessions[t] = NoRow
    BY <2>1, <2>2, RevokedRows
  <2>4. db' = e
    BY <1>1 DEF AllRevoked
  <2> HIDE DEF e
  <2> QED
    BY <2>3, <2>4
<1>4. /\ UNCHANGED <<clock, tx, issued, started, scenario, origin, latest, lost, rivals>>
      /\ UNCHANGED <<frozen, file, backup, losses>>
  BY <1>1 DEF RestoreKeeps, history
<1>5. SInv'
  <2>1. SessionsTypeOK'
    BY <1>1, <1>3, <1>4 DEF IInv, SInv, SessionsTypeOK
  <2>2. Requests'
    <3>1. /\ \A c \in Clients : Belongs(tx[c]) /\ (rivals \/ Administers(tx[c]))
          /\ \A c, d \in Clients : c # d =>
               Apart(tx[c], tx[d]) /\ (rivals \/ ~(Creating(tx[c]) /\ Creating(tx[d])))
      BY DEF IInv, SInv, Requests
    <3>2. \A c \in Clients : Holds(tx[c])'
      BY <1>1, <1>4 DEF Holds
    <3>3. \A c \in Clients : (rivals \/ Administers(tx[c]))'
      BY <1>3, <1>4, <3>1 DEF Administers, NoneYet
    <3> QED
      BY <1>4, <3>1, <3>2, <3>3 DEF Requests, Belongs, Apart, Creating
  <2>3. Blank'
    BY <1>2, <1>3 DEF Blank
  <2>4. rivals' \/ OneAdministrator(db)'
    BY <1>3, <1>4 DEF IInv, SInv, OneAdministrator
  <2> QED
    BY <2>1, <2>2, <2>3, <2>4 DEF SInv
<1>6. /\ restore' = [restore EXCEPT ![r] = job] /\ job \in Jobs
      /\ job.pc = "verify" /\ Verified(job.archive)
      /\ \A s \in Operators \ {r} : restore[s].pc \in Waiting
  BY <1>1, Going
<1> HIDE DEF job
<1>7. /\ child' = [child EXCEPT ![r] = child[r]] /\ child[r] \in Children
      /\ child[r].state \notin {"committed", "failed"}
      /\ child[r].state = "running" => Verified(child[r].archive)
  BY <1>1, Working, SameChild
<1>8. RecoveryTypes /\ Restoring /\ FromArchive /\ BackingUp
  BY DEF IInv, RInv
<1>9. /\ Restoring'
      /\ restore' \in [Operators -> Jobs] /\ child' \in [Operators -> Children]
  BY <1>1, <1>2, <1>3, <1>4, <1>6, <1>7, <1>8, RestoringMoved
<1>10. FromArchive'
  <2>1. \A s \in Operators : restore'[s].pc # "unblock"
    BY <1>6, <1>9, Working DEF Waiting
  <2>2. issued \in Nat /\ issued <= issued
    BY IssuedIsNat DEF IInv
  <2> QED
    BY <1>1, <1>2, <1>3, <1>4, <1>8, <2>1, <2>2, FromArchiveKept
<1>11. ~frozen
  BY <1>2, <1>8 DEF BackingUp
<1> QED
  BY <1>1, <1>5, <1>9, <1>10, <1>11, RestoreKept DEF RestoreKeeps, history

LEMMA VerifyDomainStep == ASSUME IInv, NEW r \in Operators, VerifyDomain(r) PROVE IInv'
<1>1. /\ restore[r].pc = "verify" /\ (Step(r, "confirm") \/ Stop(r))
      /\ UNCHANGED <<db, blocked, child, restored>> /\ RestoreKeeps
  BY DEF VerifyDomain
<1>2. /\ child' = [child EXCEPT ![r] = child[r]] /\ child[r] \in Children
      /\ child[r].state \notin {"committed", "failed"}
  BY <1>1, Working, SameChild
<1>3. CASE Step(r, "confirm")
  <2>1. /\ restore' = [restore EXCEPT ![r] = Go(r, "confirm")] /\ Go(r, "confirm") \in Jobs
        /\ Go(r, "confirm").pc = "confirm" /\ Verified(Go(r, "confirm").archive)
        /\ \A s \in Operators \ {r} : restore[s].pc \in Waiting
    BY <1>1, <1>3, Going
  <2>2. blocked /\ db.schema
    BY <1>1, SameChild DEF AfterCommit
  <2> QED
    BY <1>1, <1>2, <2>1, <2>2, SameChild, RestoreMoved
<1>4. CASE Stop(r)
  BY <1>1, <1>2, <1>4, Stopping
<1> QED
  BY <1>1, <1>3, <1>4

LEMMA ConfirmRevokedStep == ASSUME IInv, NEW r \in Operators, ConfirmRevoked(r) PROVE IInv'
<1>1. /\ restore[r].pc = "confirm"
      /\ IF \E t \in Tokens : db.sessions[t].revoked = "no" THEN Stop(r) ELSE Step(r, "unblock")
      /\ UNCHANGED <<db, blocked, child, restored>> /\ RestoreKeeps
  BY DEF ConfirmRevoked
<1>2. /\ child' = [child EXCEPT ![r] = child[r]] /\ child[r] \in Children
      /\ child[r].state \notin {"committed", "failed"}
  BY <1>1, Working, SameChild
<1>3. CASE \A t \in Tokens : db.sessions[t].revoked # "no"
  <2>1. /\ restore' = [restore EXCEPT ![r] = Go(r, "unblock")] /\ Go(r, "unblock") \in Jobs
        /\ Go(r, "unblock").pc = "unblock" /\ Verified(Go(r, "unblock").archive)
        /\ \A s \in Operators \ {r} : restore[s].pc \in Waiting
    BY <1>1, <1>3, Going
  <2>2. blocked /\ db.schema
    BY <1>1, SameChild DEF AfterCommit
  <2> QED
    BY <1>1, <1>2, <1>3, <2>1, <2>2, SameChild, RestoreMoved
<1>4. CASE \E t \in Tokens : db.sessions[t].revoked = "no"
  BY <1>1, <1>2, <1>4, Stopping
<1> QED
  BY <1>3, <1>4

LEMMA UnblockStep == ASSUME IInv, NEW r \in Operators, Unblock(r) PROVE IInv'
<1>1. /\ restore[r].pc = "unblock" /\ blocked' = FALSE /\ Stop(r)
      /\ UNCHANGED <<db, child, restored>> /\ RestoreKeeps
  BY DEF Unblock
<1>2. blocked /\ db.schema
  BY <1>1, SameChild DEF AfterCommit
<1>3. RecoveryTypes /\ Restoring /\ FromArchive /\ BackingUp
  BY DEF IInv, RInv
<1>4. /\ UNCHANGED <<file, losses, frozen, issued>>
      /\ UNCHANGED <<db, clock, tx, issued, started, scenario, history>>
  BY <1>1 DEF RestoreKeeps
<1>5. SInv'
  BY <1>1, <1>4, SameRequests DEF IInv, SInv, SessionsTypeOK
<1>6. /\ NoJob \in Jobs /\ NoJob.pc = "idle" /\ restore' = [restore EXCEPT ![r] = NoJob]
      /\ child' = [child EXCEPT ![r] = child[r]] /\ child[r] \in Children
      /\ child[r].state \notin {"committed", "failed"}
      /\ child[r].state = "running" => Verified(child[r].archive)
      /\ \A s \in Operators \ {r} : restore[s].pc \in Waiting
  BY <1>1, Working, Records, SameChild, Going DEF Stop
<1>7. /\ Restoring'
      /\ restore' \in [Operators -> Jobs] /\ child' \in [Operators -> Children]
  <2>1. db'.schema
    BY <1>1, <1>2
  <2>2. \A s \in Operators \ {r} : restore[s].pc \notin AfterCommit \cup {"run", "guard"}
    BY <1>6 DEF Waiting, AfterCommit
  <2>3. NoJob.pc \in Waiting /\ NoJob.pc \notin AfterCommit \cup {"run", "guard"}
    BY <1>6 DEF Waiting, AfterCommit
  <2> QED
    BY <1>3, <1>4, <1>6, <2>1, <2>2, <2>3, RestoringMoved
<1>8. FromArchive'
  <2>1. issued \in Nat /\ issued <= issued
    BY IssuedIsNat DEF IInv
  <2> QED
    BY <1>1, <1>3, <1>4, <2>1, FromArchiveKept
<1>9. ~frozen
  BY <1>2, <1>3 DEF BackingUp
<1> QED
  BY <1>1, <1>5, <1>7, <1>8, <1>9, RestoreKept DEF RestoreKeeps, history

LEMMA KillRestoreStep == ASSUME IInv, NEW r \in Operators, KillRestore(r) PROVE IInv'
<1> DEFINE k == IF child[r].state = "running" THEN child[r] ELSE NoChild
<1>1. /\ Stop(r) /\ child' = [child EXCEPT ![r] = k]
      /\ UNCHANGED <<db, blocked, restored>> /\ RestoreKeeps
  BY DEF KillRestore
<1>2. /\ k \in Children /\ k.state \notin {"committed", "failed"}
      /\ k.state = "running" => k = child[r]
  BY Working, Records
<1> HIDE DEF k
<1> QED
  BY <1>1, <1>2, Stopping

-----------------------------------------------------------------------------
(***************************************************************************)
(* The induction.                                                          *)
(***************************************************************************)
LEMMA Initially == ASSUME Init PROVE IInv
<1>1. /\ scenario \in Scenarios /\ db = scenario.db /\ issued = scenario.issued
      /\ blocked = FALSE /\ frozen = FALSE /\ clock = 0
      /\ tx = [c \in Clients |-> NoTx] /\ started = 0
      /\ origin = [t \in Tokens |-> [password |-> 0, crossed |-> FALSE]]
      /\ latest = [u \in Users |-> 0] /\ lost = {} /\ rivals = FALSE
      /\ file = [a \in Archives |-> NoFile] /\ backup = NoJob
      /\ restore = [r \in Operators |-> NoJob] /\ child = [r \in Operators |-> NoChild]
      /\ losses = 0
  BY DEF Init, SessionsInit
<1>2. /\ db \in Database /\ db.schema /\ issued \in 0 .. MaxTokens /\ scenario.bound \in Nat
      /\ \A t \in Tokens : db.sessions[t] # NoRow => t <= issued
      /\ \A u, v \in Users :
           db.users[u].admin /\ db.users[v].admin => u = v /\ db.users[u].state = "active"
  BY <1>1, SessionsAssumption
<1>3. SessionsTypeOK
  <2>1. tx \in [Clients -> {NoTx} \cup Transaction]
    BY <1>1
  <2>2. origin \in [Tokens -> [password : Passwords, crossed : BOOLEAN]]
    BY <1>1, Numbers
  <2>3. latest \in [Users -> Passwords]
    BY <1>1, Numbers
  <2>4. clock \in Times /\ started \in 0 .. scenario.bound
    BY <1>1, <1>2, Numbers
  <2> QED
    BY <1>1, <1>2, <2>1, <2>2, <2>3, <2>4 DEF SessionsTypeOK
<1>4. \A c \in Clients : tx[c].pc = "idle"
  BY <1>1, Requested
<1>5. Requests
  BY <1>4 DEF Requests, Belongs, Holds, Administers, Apart, Creating
<1>6. SInv
  BY <1>2, <1>3, <1>5 DEF SInv, Blank, OneAdministrator
<1>7. RecoveryTypes
  <2>1. NoChild \in [state : {"none", "committed", "failed"}]
    BY DEF NoChild
  <2>2. losses \in 0 .. MaxLosses
    BY <1>1, RecoveryAssumption
  <2> QED
    BY <1>1, <2>1, <2>2 DEF RecoveryTypes
<1>8. Files
  BY <1>1, Records DEF Files, GoodFile
<1>9. BackingUp
  BY <1>1, Records DEF BackingUp
<1>10. Restoring
  BY <1>1, Records DEF Restoring, Waiting, AfterCommit
<1>11. FromArchive
  BY <1>1 DEF FromArchive
<1> QED
  BY <1>6, <1>7, <1>8, <1>9, <1>10, <1>11 DEF IInv, RInv

\* A step that changes nothing.
LEMMA Stutter == ASSUME IInv, UNCHANGED allVars PROVE IInv'
<1>1. SInv'
  BY SameRequests DEF IInv, SInv, SessionsTypeOK, allVars, vars
<1>2. UNCHANGED recoveryVars /\ Effects
  BY Numbers DEF Effects, IInv, SInv, SessionsTypeOK, allVars, vars, history
<1> QED
  BY <1>1, <1>2, RequestsKeepRecovery DEF IInv

LEMMA Inductive == ASSUME IInv, [Next]_allVars PROVE IInv'
<1>1. CASE SessionsNext /\ UNCHANGED recoveryVars
  BY <1>1, SessionsStep, RequestsKeepRecovery DEF IInv
<1>2. CASE BackupStep
  BY <1>2, StartBackupStep, DumpStep, DumpFailsStep, TakeInventoryStep, WriteManifestStep,
     KillBackupStep DEF BackupStep
<1>3. CASE Loss
  BY <1>3, LossStep
<1>4. CASE \E a, b \in Archives : Overwrite(a, b)
  BY <1>4, OverwriteStep
<1>5. ASSUME NEW r \in Operators, RestoreStep(r) PROVE IInv'
  BY <1>5, StartRestoreStep, OwnStep, ProveEmptyStep, GuardStep, ChildCommitsStep,
     ChildFailsStep, ReadExitStep, RevokeAllStep, VerifyDomainStep, ConfirmRevokedStep,
     UnblockStep, KillRestoreStep DEF RestoreStep
<1>6. CASE UNCHANGED allVars
  BY <1>6, Stutter
<1> QED
  BY <1>1, <1>2, <1>3, <1>4, <1>5, <1>6 DEF Next

\* Everything the invariant says holds in every reachable state.
THEOREM Invariance == Spec => []IInv
<1>1. Init => IInv
  BY Initially
<1>2. IInv /\ [Next]_allVars => IInv'
  BY Inductive
<1> QED
  BY <1>1, <1>2, PTL DEF Spec

-----------------------------------------------------------------------------
(***************************************************************************)
(* What follows.                                                           *)
(***************************************************************************)
\* A set of which any two members are one has at most one member.
LEMMA AtMostOne ==
  ASSUME NEW S, \A x, y \in S : x = y PROVE Cardinality(S) <= 1
<1>1. CASE S = {}
  BY <1>1, FS_EmptySet
<1>2. ASSUME NEW x \in S PROVE Cardinality(S) <= 1
  <2>1. S = {x}
    BY <1>2
  <2> QED
    BY <2>1, FS_Singleton
<1> QED
  BY <1>1, <1>2

\* The files, the restores and the requests are always what they are taken to be; a
\* backup holds its locks exactly while it reads, and one restore at a time has gone
\* past its advisory lock.
THEOREM TypesHold == Spec => []TypeOK
<1>1. ASSUME IInv PROVE TypeOK
  <2>1. \A a \in Archives : file[a] \in {NoFile, Touched} \/ IsArchive(file[a])
    <3>1. \A f \in ArchiveFiles : IsArchive(f)
      BY Records DEF IsArchive, ArchiveFiles, Sidecars
    <3> QED
      BY <1>1, <3>1 DEF IInv, RInv, RecoveryTypes
  <2>2. \/ backup = NoJob
        \/ backup.pc \in {"dump", "inventory", "manifest"} /\ backup.archive \in Archives
    BY <1>1 DEF IInv, RInv, RecoveryTypes
  <2>3. \A r \in Operators : child[r].state \in {"none", "running", "committed", "failed"}
    BY <1>1, Working, Records
  <2>4. Cardinality({r \in Operators : restore[r].pc \notin {"idle", "own"}}) <= 1
    BY <1>1, AtMostOne DEF IInv, RInv, Restoring, Waiting
  <2> QED
    BY <1>1, <2>1, <2>2, <2>3, <2>4 DEF TypeOK, IInv, SInv, RInv, RecoveryTypes, BackingUp
<1> QED
  BY <1>1, Invariance, PTL

\* Of all steps only the answer of resolve_session, to a session judged good, moves a
\* request past it.
LEMMA OnlyAnswerAdmits ==
  ASSUME IInv, [Next]_allVars, NEW c \in Clients, tx[c] \in Transaction,
         tx[c].pc = "answer", tx'[c].pc = "acting"
  PROVE  tx[c].good
<1>1. SUFFICES ASSUME ~tx[c].good PROVE FALSE
  OBVIOUS
<1>2. tx \in [Clients -> {NoTx} \cup Transaction] /\ tx'[c] # tx[c] /\ NoTx.pc = "idle"
  BY Requested DEF IInv, SInv, SessionsTypeOK
<1>3. ASSUME NEW d \in Clients, NEW t, Move(d, t) PROVE d = c /\ t.pc = "acting"
  BY <1>2, <1>3 DEF Move
<1>4. ~Tick /\ ~BackupStep /\ ~(\E a, b \in Archives : Overwrite(a, b))
  BY <1>2 DEF Tick, BackupStep, StartBackup, Dump, DumpFails, TakeInventory, WriteManifest,
     KillBackup, BackupKeeps, Overwrite, vars
<1>5. ~Loss
  BY <1>2 DEF Loss
<1>6. ASSUME NEW r \in Operators, RestoreStep(r) PROVE FALSE
  BY <1>2, <1>6 DEF RestoreStep, StartRestore, Own, ProveEmpty, Guard, ChildCommits, ChildFails,
     ReadExit, RevokeAll, VerifyDomain, ConfirmRevoked, Unblock, KillRestore, RestoreKeeps
<1>7. ASSUME NEW d \in Clients,
             Arrive(d) \/ Lose(d) \/ SignIn(d) \/ UseSession(d) \/ ChangeAccounts(d)
      PROVE  FALSE
  <2>1. ~Revoke(d)
    BY <1>2 DEF Revoke, At
  <2>2. \A t : End(d) => FALSE
    BY <1>2, <1>3 DEF End
  <2>3. CASE d = c
    BY <1>1, <1>2, <1>7, <2>1, <2>2, <2>3 DEF Arrive, Lose, SignIn, CountFailures, Verify,
       RecordFailure, RecordSuccess, UseSession, CheckGuard, LockSession, Answer, ShowPage,
       RequireSystem, ReadForLogout, Logout, ChangeAccounts, BeginRevoking, CountAdmins,
       Create, At
  <2>4. CASE d # c
    BY <1>3, <1>7, <2>1, <2>2, <2>4 DEF Arrive, Lose, SignIn, CountFailures, Verify,
       RecordFailure, RecordSuccess, UseSession, CheckGuard, LockSession, Answer, ShowPage,
       RequireSystem, ReadForLogout, Logout, ChangeAccounts, BeginRevoking, CountAdmins, Create
  <2> QED
    BY <2>3, <2>4
<1>8. ~UNCHANGED allVars
  BY <1>2 DEF allVars, vars
<1> QED
  BY <1>4, <1>5, <1>6, <1>7, <1>8 DEF Next, SessionsNext

\* Whoever is admitted is admitted on an open session of an active account, as of the
\* moment the admission commits.
THEOREM AdmissionsCurrent == Spec => AdmissionsAreCurrent
<1>1. ASSUME IInv, [Next]_allVars, NEW c \in Clients, Admits(c), ~UNCHANGED vars
      PROVE  LET row == db.sessions[tx[c].req.token]
             IN row.revoked = "no" /\ db.users[row.user].state = "active"
  <2>1. tx[c].pc = "answer" /\ tx'[c].pc = "acting"
    BY <1>1 DEF Admits, At
  <2>2. tx[c] \in Transaction
    BY <1>1, <2>1, AtRequest DEF IInv, SInv
  <2>3. /\ tx[c].req.token \in Tokens /\ db.sessions[tx[c].req.token].revoked = "no"
        /\ tx[c].good => db.users[db.sessions[tx[c].req.token].user].state = "active"
    BY <1>1, <2>1 DEF IInv, SInv, Requests, Holds
  <2>4. tx[c].good
    BY <1>1, <2>1, <2>2, OnlyAnswerAdmits DEF IInv
  <2> QED
    BY <2>3, <2>4
<1>2. IInv /\ [Next]_allVars =>
        [\A c \in Clients : Admits(c) =>
           LET row == db.sessions[tx[c].req.token]
           IN row.revoked = "no" /\ db.users[row.user].state = "active"]_vars
  BY <1>1
<1> QED
  BY <1>2, Invariance, PTL DEF Spec, AdmissionsAreCurrent

\* Unless two were created side by side, there is one administrator at most, and active.
THEOREM OneAdministratorRemains == Spec => []AnAdministratorRemains
<1>1. ASSUME IInv PROVE AnAdministratorRemains
  <2> DEFINE admins == {u \in Users : db.users[u].admin}
  <2>1. SUFFICES ASSUME ~rivals
                 PROVE  Cardinality(admins) <= 1 /\ \A u \in admins : db.users[u].state = "active"
    BY DEF AnAdministratorRemains
  <2>2. OneAdministrator(db)
    BY <1>1, <2>1 DEF IInv, SInv
  <2>3. \A x, y \in admins : x = y
    BY <2>2 DEF OneAdministrator
  <2>4. \A u \in admins : db.users[u].state = "active"
    BY <2>2 DEF OneAdministrator
  <2> HIDE DEF admins
  <2> QED
    BY <2>3, <2>4, AtMostOne
<1> QED
  BY <1>1, Invariance, PTL

\* A manifest counts what its archive holds, whatever was asked during the backup.
THEOREM ManifestsDescribe == Spec => []ManifestDescribesArchive
<1>1. ASSUME IInv PROVE ManifestDescribesArchive
  <2>1. \A a \in Archives : file[a].state = "dumped" /\ file[a].manifest.written =>
          file[a].manifest # NoManifest
    BY Records
  <2> QED
    BY <1>1, <2>1 DEF ManifestDescribesArchive, IInv, RInv, Files, GoodFile
<1> QED
  BY <1>1, Invariance, PTL

\* What is served after a loss is one whole backup, with its sessions over.
THEOREM ServedRestored == Spec => []ServedIsRestored
<1>1. ASSUME IInv PROVE ServedIsRestored
  BY <1>1 DEF ServedIsRestored, IInv, RInv, FromArchive
<1> QED
  BY <1>1, Invariance, PTL

\* No restore puts its guard on a database that is served.
THEOREM StaysServed == Spec => ServedStaysServed
<1>1. ASSUME IInv, [Next]_allVars, ~blocked, db.schema PROVE ~blocked'
  <2>1. blocked \in BOOLEAN
    BY <1>1 DEF IInv, SInv, SessionsTypeOK
  <2>2. CASE SessionsNext /\ UNCHANGED recoveryVars
    BY <1>1, <2>2, SessionsStep DEF Effects, IInv
  <2>3. CASE BackupStep
    BY <1>1, <2>3 DEF BackupStep, StartBackup, Dump, DumpFails, TakeInventory, WriteManifest,
       KillBackup, BackupKeeps
  <2>4. CASE Loss
    BY <2>4 DEF Loss
  <2>5. CASE \E a, b \in Archives : Overwrite(a, b)
    BY <1>1, <2>5 DEF Overwrite, vars
  <2>6. ASSUME NEW r \in Operators, RestoreStep(r) PROVE ~blocked'
    <3>1. ~Guard(r)
      BY <1>1, SameChild DEF Guard
    <3> QED
      BY <1>1, <2>6, <3>1 DEF RestoreStep, StartRestore, Own, ProveEmpty, ChildCommits,
         ChildFails, ReadExit, RevokeAll, VerifyDomain, ConfirmRevoked, Unblock, KillRestore
  <2>7. CASE UNCHANGED allVars
    BY <1>1, <2>7 DEF allVars, vars
  <2> QED
    BY <1>1, <2>2, <2>3, <2>4, <2>5, <2>6, <2>7 DEF Next
<1>2. IInv /\ [Next]_allVars => [~blocked /\ db.schema => ~blocked']_allVars
  BY <1>1
<1> QED
  BY <1>2, Invariance, PTL DEF Spec, ServedStaysServed

-----------------------------------------------------------------------------
(***************************************************************************)
(* The history of sign-ins: how many wrong passwords are in a window, and  *)
(* which passwords the open sessions come from.                            *)
(***************************************************************************)
Columns == {"user", "source"}

\* The most wrong passwords in a window.
Most(column) ==
  (IF column = "user" THEN UsernameLimit ELSE SourceLimit) - 1 + scenario.atOnce

\* The wrong passwords recorded in the window that ends at last.
WrongIn(attempts, column, value, last) ==
  {i \in DOMAIN attempts :
     LET a == attempts[i]
     IN a[column] = value /\ a.tested /\ ~a.succeeded /\ a.at \in (last - Window) .. last}

\* The sign-ins that test a password in that window and have not recorded it.
SigningIn == {"verify", "record"}

Guessing(t, column, value, last) ==
  /\ t.pc \in SigningIn /\ t.good
  /\ t.req[column] = value /\ t.now \in (last - Window) .. last

GuessingIn(column, value, last) == {c \in Clients : Guessing(tx[c], column, value, last)}

Busy == {c \in Clients : tx[c].pc # "idle"}

\* An archive holds no more of them than a database may.
Guessed(attempts) ==
  \A column \in Columns : \A value \in Users \cup Sources : \A last \in Times :
    Cardinality(WrongIn(attempts, column, value, last)) <= Most(column)

\* What is recorded and what is under way stays within the limit together.
Counted ==
  \A column \in Columns : \A value \in Users \cup Sources : \A last \in Times :
    Cardinality(WrongIn(db.attempts, column, value, last))
      + Cardinality(GuessingIn(column, value, last)) <= Most(column)

AtOnce == IsFiniteSet(Busy) /\ Cardinality(Busy) <= scenario.atOnce

\* Between a count and its attempt there is a database.
NoneSigningIn == ~db.schema => \A c \in Clients : tx[c].pc \notin SigningIn

GuessesArchived == \A a \in Archives : file[a].state = "dumped" => Guessed(file[a].content.attempts)

GInv == AtOnce /\ Counted /\ NoneSigningIn /\ GuessesArchived

\* The sets that are counted are finite.
LEMMA WrongFinite ==
  ASSUME NEW attempts \in Seq(LoginAttempt), NEW column, NEW value, NEW last
  PROVE  /\ IsFiniteSet(WrongIn(attempts, column, value, last))
         /\ Cardinality(WrongIn(attempts, column, value, last)) \in Nat
<1>1. DOMAIN attempts = 1 .. Len(attempts) /\ Len(attempts) \in Nat
  OBVIOUS
<1>2. IsFiniteSet(DOMAIN attempts)
  BY <1>1, FS_Interval
<1>3. WrongIn(attempts, column, value, last) \subseteq DOMAIN attempts
  BY DEF WrongIn
<1> QED
  BY <1>2, <1>3, FS_Subset, FS_CardinalityType

LEMMA GuessingFinite ==
  ASSUME AtOnce, NEW column, NEW value, NEW last
  PROVE  /\ IsFiniteSet(GuessingIn(column, value, last))
         /\ Cardinality(GuessingIn(column, value, last)) \in Nat
         /\ Cardinality(GuessingIn(column, value, last)) <= Cardinality(Busy)
         /\ Cardinality(Busy) \in Nat
<1>1. GuessingIn(column, value, last) \subseteq Busy
  BY DEF GuessingIn, Guessing, Busy, SigningIn
<1> QED
  BY <1>1, FS_Subset, FS_CardinalityType DEF AtOnce

\* The limits are numbers.
LEMMA Limits ==
  ASSUME SInv, NEW column \in Columns
  PROVE  /\ Most(column) \in Nat /\ scenario.atOnce \in Nat
         /\ scenario.atOnce <= Most(column)
BY SessionsAssumption DEF SInv, SessionsTypeOK, Most, Columns

\* A database in use holds no more wrong passwords than an archive may.
LEMMA CountedGuessed ==
  ASSUME SInv, AtOnce, Counted PROVE Guessed(db.attempts)
<1>1. db.attempts \in Seq(LoginAttempt)
  BY DatabaseRows DEF SInv, SessionsTypeOK
<1>2. SUFFICES ASSUME NEW column \in Columns, NEW value \in Users \cup Sources, NEW last \in Times
               PROVE  Cardinality(WrongIn(db.attempts, column, value, last)) <= Most(column)
  BY DEF Guessed
<1>3. Cardinality(WrongIn(db.attempts, column, value, last))
        + Cardinality(GuessingIn(column, value, last)) <= Most(column)
  BY DEF Counted
<1> QED
  BY <1>1, <1>3, WrongFinite, GuessingFinite, Limits

\* A request that goes on, or ends, and starts no guess.
Calmer(s, t) ==
  \/ t.pc = "idle"
  \/ /\ s.pc # "idle"
     /\ t.pc \in SigningIn => s.pc \in SigningIn /\ t.req = s.req /\ t.good = s.good /\ t.now = s.now

\* Where requests only go on and no attempt is recorded, the counts stay.
LEMMA GuessesCalm ==
  ASSUME IInv, GInv, IInv', scenario' = scenario, db'.attempts = db.attempts,
         \A c \in Clients : Calmer(tx[c], tx'[c])
  PROVE  AtOnce' /\ Counted'
<1>1. Busy' \subseteq Busy
  BY DEF Busy, Calmer
<1>2. AtOnce' /\ Cardinality(Busy') <= Cardinality(Busy)
  BY <1>1, FS_Subset, FS_CardinalityType, SessionsAssumption DEF AtOnce, GInv, IInv, SInv, SessionsTypeOK
<1>3. ASSUME NEW column \in Columns, NEW value \in Users \cup Sources, NEW last \in Times
      PROVE  Cardinality(WrongIn(db'.attempts, column, value, last))
               + Cardinality(GuessingIn(column, value, last)') <= Most(column)'
  <2>1. GuessingIn(column, value, last)' \subseteq GuessingIn(column, value, last)
    BY Requested DEF GuessingIn, Guessing, Calmer, SigningIn
  <2>2. /\ Cardinality(GuessingIn(column, value, last)') \in Nat
        /\ Cardinality(GuessingIn(column, value, last)') <= Cardinality(GuessingIn(column, value, last))
    BY <2>1, GuessingFinite, FS_Subset, FS_CardinalityType DEF GInv
  <2>3. Cardinality(WrongIn(db.attempts, column, value, last)) \in Nat
    BY WrongFinite, DatabaseRows DEF IInv, SInv, SessionsTypeOK
  <2>4. Most(column)' = Most(column) /\ Most(column) \in Nat
    BY Limits DEF Most, IInv
  <2>5. Cardinality(WrongIn(db.attempts, column, value, last))
          + Cardinality(GuessingIn(column, value, last)) <= Most(column)
    BY DEF GInv, Counted
  <2>6. Cardinality(GuessingIn(column, value, last)) \in Nat
    BY GuessingFinite DEF GInv
  <2> QED
    BY <2>2, <2>3, <2>4, <2>5, <2>6
<1> QED
  BY <1>2, <1>3 DEF Counted

-----------------------------------------------------------------------------
(***************************************************************************)
(* Guesses, step by step.                                                  *)
(***************************************************************************)
\* A step that moves c at most keeps what others hold.
LEMMA OthersCalm ==
  ASSUME SInv, NEW c \in Clients, NEW t, Move(c, t), Calmer(tx[c], t)
  PROVE  \A d \in Clients : Calmer(tx[d], tx'[d])
<1>1. tx \in [Clients -> {NoTx} \cup Transaction]
  BY DEF SInv, SessionsTypeOK
<1>2. tx' = [tx EXCEPT ![c] = t]
  BY DEF Move
<1>3. \A d \in Clients \ {c} : tx'[d] = tx[d]
  BY <1>1, <1>2
<1>4. tx'[c] = t
  BY <1>1, <1>2
<1> QED
  BY <1>3, <1>4 DEF Calmer

\* A request that ends is calm.
LEMMA EndCalm ==
  ASSUME SInv, NEW c \in Clients, End(c)
  PROVE  \A d \in Clients : Calmer(tx[d], tx'[d])
BY OthersCalm, Requested DEF End, Calmer

\* The attempts of a database of which another table is written.
LEMMA OtherTables ==
  ASSUME NEW d \in Database
  PROVE  /\ \A x : [d EXCEPT !.users = x].attempts = d.attempts
         /\ \A x : [d EXCEPT !.sessions = x].attempts = d.attempts
         /\ \A T, reason : RevokeOpen(d, T, reason).attempts = d.attempts
BY DEF Database, RevokeOpen

\* The steps of a request that neither count nor record an attempt.
Quiet(c) ==
  Lose(c) \/ Verify(c) \/ UseSession(c) \/ BeginRevoking(c) \/ Revoke(c) \/ CountAdmins(c) \/ Create(c)

LEMMA QuietCalm ==
  ASSUME SInv, NEW c \in Clients, Quiet(c)
  PROVE  /\ scenario' = scenario /\ db'.attempts = db.attempts
         /\ \A d \in Clients : Calmer(tx[d], tx'[d])
<1>1. /\ db \in Database /\ tx \in [Clients -> {NoTx} \cup Transaction]
      /\ \A d \in Clients : tx[d].pc # "idle" => tx[d] \in Transaction
  BY AtRequest DEF SInv, SessionsTypeOK
<1>2. CASE Lose(c)
  BY <1>2, EndCalm DEF Lose, Reads, Kept
<1>3. CASE Verify(c)
  <2>1. PICK good : Move(c, [tx[c] EXCEPT !.pc = "record", !.succeeded = good])
    BY <1>3 DEF Verify
  <2>2. Calmer(tx[c], [tx[c] EXCEPT !.pc = "record", !.succeeded = good])
    BY <1>1, <1>3 DEF Verify, At, Calmer, SigningIn, Transaction
  <2> QED
    BY <1>3, <2>1, <2>2, OthersCalm DEF Verify, Reads, Kept
<1>4. CASE UseSession(c)
  <2>1. ASSUME NEW t, Move(c, t), tx[c].pc # "idle", t.pc \notin SigningIn
        PROVE  \A d \in Clients : Calmer(tx[d], tx'[d])
    BY <2>1, OthersCalm DEF Calmer
  <2>2. CASE CheckGuard(c)
    <3>1. CASE blocked
      BY <2>2, <3>1, EndCalm DEF CheckGuard, Reads, Kept
    <3>2. CASE ~blocked
      <4>1. Move(c, [tx[c] EXCEPT !.pc = "lock", !.now = clock]) /\ tx[c] \in Transaction
        BY <1>1, <2>2, <3>2 DEF CheckGuard, At
      <4>2. [tx[c] EXCEPT !.pc = "lock", !.now = clock].pc = "lock"
        BY <4>1 DEF Transaction
      <4> QED
        BY <2>1, <2>2, <4>1, <4>2 DEF CheckGuard, At, Reads, Kept, SigningIn
    <3> QED
      BY <3>1, <3>2
  <2>3. CASE LockSession(c)
    <3>1. tx[c] \in Transaction /\ tx[c].pc = "lock"
      BY <1>1, <2>3 DEF LockSession, At
    <3>2. CASE End(c)
      BY <2>3, <3>2, EndCalm DEF LockSession, Reads, Kept
    <3>3. CASE ~End(c)
      <4>1. PICK a, g : Move(c, [tx[c] EXCEPT !.pc = "answer", !.actor = a, !.good = g])
        BY <2>3, <3>3 DEF LockSession
      <4>2. [tx[c] EXCEPT !.pc = "answer", !.actor = a, !.good = g].pc = "answer"
        BY <3>1 DEF Transaction
      <4> QED
        BY <2>1, <2>3, <3>1, <4>1, <4>2 DEF LockSession, Reads, Kept, SigningIn
    <3> QED
      BY <3>2, <3>3
  <2>4. CASE Answer(c)
    <3>1. tx[c] \in Transaction /\ tx[c].pc = "answer"
      BY <1>1, <2>4 DEF Answer, At
    <3>2. db'.attempts = db.attempts
      BY <1>1, <2>4 DEF Answer, Database
    <3>3. CASE End(c)
      BY <2>4, <3>2, <3>3, EndCalm DEF Answer, Kept
    <3>4. CASE ~End(c)
      <4>1. Move(c, [tx[c] EXCEPT !.pc = "acting"])
        BY <2>4, <3>4 DEF Answer
      <4>2. [tx[c] EXCEPT !.pc = "acting"].pc = "acting"
        BY <3>1 DEF Transaction
      <4> QED
        BY <2>1, <2>4, <3>1, <3>2, <4>1, <4>2 DEF Answer, Kept, SigningIn
    <3> QED
      BY <3>3, <3>4
  <2>5. CASE ShowPage(c)
    BY <2>5, EndCalm DEF ShowPage, Reads, Kept
  <2>6. CASE RequireSystem(c)
    <3>1. tx[c] \in Transaction /\ tx[c].pc = "acting"
      BY <1>1, <2>6 DEF RequireSystem, At
    <3>2. CASE End(c)
      BY <2>6, <3>2, EndCalm DEF RequireSystem, Reads, Kept
    <3>3. CASE ~End(c)
      <4>1. PICK pc \in {"create", "lock_user"} : Move(c, [tx[c] EXCEPT !.pc = pc])
        BY <2>6, <3>3 DEF RequireSystem
      <4>2. [tx[c] EXCEPT !.pc = pc].pc = pc
        BY <3>1 DEF Transaction
      <4> QED
        BY <2>1, <2>6, <3>1, <4>1, <4>2 DEF RequireSystem, Reads, Kept, SigningIn
    <3> QED
      BY <3>2, <3>3
  <2>7. CASE ReadForLogout(c)
    <3>1. tx[c] \in Transaction /\ tx[c].pc = "read"
      BY <1>1, <2>7 DEF ReadForLogout, At
    <3>2. CASE End(c)
      BY <2>7, <3>2, EndCalm DEF ReadForLogout, Reads, Kept
    <3>3. CASE ~End(c)
      <4>1. Move(c, [tx[c] EXCEPT !.pc = "logout"])
        BY <2>7, <3>3 DEF ReadForLogout
      <4>2. [tx[c] EXCEPT !.pc = "logout"].pc = "logout"
        BY <3>1 DEF Transaction
      <4> QED
        BY <2>1, <2>7, <3>1, <4>1, <4>2 DEF ReadForLogout, Reads, Kept, SigningIn
    <3> QED
      BY <3>2, <3>3
  <2>8. CASE Logout(c)
    <3>1. db'.attempts = db.attempts
      BY <1>1, <2>8 DEF Logout, Database
    <3> QED
      BY <2>8, <3>1, EndCalm DEF Logout, Kept
  <2> QED
    BY <1>4, <2>2, <2>3, <2>4, <2>5, <2>6, <2>7, <2>8 DEF UseSession
<1>5. CASE BeginRevoking(c)
  <2>1. tx[c] \in Transaction /\ tx[c].pc \in {"lock_user", "write"}
    BY <1>1, <1>5 DEF BeginRevoking, At
  <2>2. CASE End(c)
    BY <1>5, <2>2, EndCalm DEF BeginRevoking, Reads, Kept
  <2>3. CASE ~End(c)
    <3>1. PICK T : Move(c, [tx[c] EXCEPT !.pc = "revoke", !.targets = T])
      BY <1>5, <2>3 DEF BeginRevoking
    <3>2. Calmer(tx[c], [tx[c] EXCEPT !.pc = "revoke", !.targets = T])
      BY <2>1 DEF Transaction, Calmer, SigningIn
    <3> QED
      BY <1>5, <3>1, <3>2, OthersCalm DEF BeginRevoking, Reads, Kept
  <2> QED
    BY <2>2, <2>3
<1>6. CASE Revoke(c)
  <2>1. db'.attempts = db.attempts
    <3> DEFINE reason == IF tx[c].req.op = "reset" THEN "password_reset" ELSE "account_deactivated"
               revoked == RevokeOpen(db, tx[c].targets, reason)
    <3>1. revoked \in Database
      BY <1>1, RevokedRows DEF Reasons
    <3>2. revoked.attempts = db.attempts
      BY <1>1, OtherTables
    <3> HIDE DEF revoked
    <3>3. \/ db' = [revoked EXCEPT !.users[tx[c].req.user].password = latest[tx[c].req.user] + 1]
          \/ db' = [revoked EXCEPT !.users[tx[c].req.user].state = "inactive"]
      BY <1>6 DEF Revoke, revoked
    <3> QED
      BY <3>1, <3>2, <3>3 DEF Database
  <2>2. \A d \in Clients : tx'[d] = NoTx \/ tx'[d] = tx[d] \/
          (tx[d].pc = "record" /\ tx'[d] = [tx[d] EXCEPT !.crossed = TRUE])
    BY <1>6 DEF Revoke, At
  <2>3. ASSUME NEW d \in Clients PROVE Calmer(tx[d], tx'[d])
    <3>1. CASE tx'[d] = NoTx \/ tx'[d] = tx[d]
      BY <3>1, Requested DEF Calmer
    <3>2. CASE tx[d].pc = "record" /\ tx'[d] = [tx[d] EXCEPT !.crossed = TRUE]
      <4>1. tx[d] \in Transaction
        BY <1>1, <3>2
      <4> QED
        BY <3>2, <4>1 DEF Calmer, Transaction
    <3> QED
      BY <2>2, <3>1, <3>2
  <2> QED
    BY <1>6, <2>1, <2>3 DEF Revoke, Kept
<1>7. CASE CountAdmins(c)
  <2>1. tx[c] \in Transaction /\ tx[c].pc = "count_admins"
    BY <1>1, <1>7 DEF CountAdmins, At
  <2>2. CASE End(c)
    BY <1>7, <2>2, EndCalm DEF CountAdmins, Kept
  <2>3. CASE ~End(c)
    <3>1. Move(c, [tx[c] EXCEPT !.pc = "create"])
      BY <1>7, <2>3 DEF CountAdmins
    <3>2. Calmer(tx[c], [tx[c] EXCEPT !.pc = "create"])
      BY <2>1 DEF Transaction, Calmer, SigningIn
    <3> QED
      BY <1>7, <3>1, <3>2, OthersCalm DEF CountAdmins, Kept
  <2> QED
    BY <2>2, <2>3
<1>8. CASE Create(c)
  <2>1. db'.attempts = db.attempts
    BY <1>1, <1>8 DEF Create, Database
  <2> QED
    BY <1>8, <2>1, EndCalm DEF Create, Kept
<1> QED
  BY <1>2, <1>3, <1>4, <1>5, <1>6, <1>7, <1>8 DEF Quiet

\* An attempt recorded has a time.
LEMMA AttemptRows ==
  ASSUME NEW attempts \in Seq(LoginAttempt), NEW i \in DOMAIN attempts
  PROVE  attempts[i] \in LoginAttempt /\ attempts[i].at \in Times /\ attempts[i].at \in Nat
<1>1. attempts[i] \in LoginAttempt
  OBVIOUS
<1> QED
  BY <1>1, Numbers DEF LoginAttempt

\* A request more.
LEMMA ArriveGuesses ==
  ASSUME IInv, IInv', GInv, NEW c \in Clients, Arrive(c)
  PROVE  AtOnce' /\ Counted'
<1>1. PICK q : Move(c, [pc |-> FirstStep(q.op), req |-> q, now |-> clock, actor |-> q.user,
                        good |-> FALSE, succeeded |-> FALSE, targets |-> {}, crossed |-> FALSE])
  BY DEF Arrive
<1> DEFINE t == [pc |-> FirstStep(q.op), req |-> q, now |-> clock, actor |-> q.user,
                 good |-> FALSE, succeeded |-> FALSE, targets |-> {}, crossed |-> FALSE]
<1>2. t.good = FALSE
  OBVIOUS
<1> HIDE DEF t
<1>3. /\ tx'[c] = t /\ (\A d \in Clients \ {c} : tx'[d] = tx[d])
  BY <1>1 DEF Move, IInv, SInv, SessionsTypeOK, t
<1>4. /\ tx[c].pc = "idle" /\ Cardinality(Busy) < scenario.atOnce
      /\ scenario' = scenario /\ db' = db
  BY DEF Arrive, At, Busy
<1>5. Busy' \subseteq Busy \cup {c} /\ c \notin Busy
  BY <1>3, <1>4 DEF Busy
<1>6. IsFiniteSet(Busy)
  BY DEF GInv, AtOnce
<1>7. /\ IsFiniteSet(Busy \cup {c}) /\ Cardinality(Busy \cup {c}) = Cardinality(Busy) + 1
      /\ Cardinality(Busy) \in Nat
  BY <1>5, <1>6, FS_AddElement, FS_CardinalityType
<1>8. /\ IsFiniteSet(Busy') /\ Cardinality(Busy') \in Nat
      /\ Cardinality(Busy') <= Cardinality(Busy \cup {c})
  BY <1>5, <1>7, FS_Subset, FS_CardinalityType
<1>9. scenario.atOnce \in Nat
  BY Limits DEF IInv, Columns
<1>10. AtOnce'
  BY <1>4, <1>7, <1>8, <1>9 DEF AtOnce
<1>11. \A column, value, last : GuessingIn(column, value, last)' \subseteq GuessingIn(column, value, last)
  BY <1>2, <1>3 DEF GuessingIn, Guessing
<1>12. ASSUME NEW column \in Columns, NEW value \in Users \cup Sources, NEW last \in Times
       PROVE  Cardinality(WrongIn(db.attempts, column, value, last))
                + Cardinality(GuessingIn(column, value, last)') <= Most(column)
  <2>1. /\ Cardinality(GuessingIn(column, value, last)') \in Nat
        /\ Cardinality(GuessingIn(column, value, last)') <= Cardinality(GuessingIn(column, value, last))
        /\ Cardinality(GuessingIn(column, value, last)) \in Nat
    BY <1>11, GuessingFinite, FS_Subset, FS_CardinalityType DEF GInv
  <2>2. Cardinality(WrongIn(db.attempts, column, value, last)) \in Nat
    BY WrongFinite, DatabaseRows DEF IInv, SInv, SessionsTypeOK
  <2>3. Most(column) \in Nat
    BY Limits DEF IInv
  <2>4. Cardinality(WrongIn(db.attempts, column, value, last))
          + Cardinality(GuessingIn(column, value, last)) <= Most(column)
    BY DEF GInv, Counted
  <2> QED
    BY <2>1, <2>2, <2>3, <2>4
<1> QED
  BY <1>4, <1>10, <1>12 DEF Counted, Most

\* Whoever passes the count has seen less than the limit in every window it falls into,
\* and no more than atOnce are under way.
LEMMA CountFailuresGuesses ==
  ASSUME IInv, IInv', GInv, NEW c \in Clients, CountFailures(c)
  PROVE  AtOnce' /\ Counted'
<1> DEFINE good == Allowed(tx[c].req, tx[c].now)
           t == [tx[c] EXCEPT !.pc = "verify", !.good = good]
<1>1. /\ tx[c] \in Transaction /\ tx[c].pc = "count" /\ Move(c, t)
      /\ scenario' = scenario /\ db' = db
  BY AtRequest DEF CountFailures, At, IInv, SInv, Reads, Kept
<1>2. t.pc = "verify" /\ t.good = good /\ t.req = tx[c].req /\ t.now = tx[c].now
  BY <1>1 DEF Transaction
<1> HIDE DEF t, good
<1>3. tx'[c] = t /\ (\A d \in Clients \ {c} : tx'[d] = tx[d])
  BY <1>1 DEF Move, IInv, SInv, SessionsTypeOK
<1>4. Busy' = Busy
  BY <1>1, <1>2, <1>3 DEF Busy
<1>5. AtOnce'
  BY <1>1, <1>4 DEF AtOnce, GInv
<1>6. ASSUME NEW column \in Columns, NEW value \in Users \cup Sources, NEW last \in Times
      PROVE  Cardinality(WrongIn(db.attempts, column, value, last))
               + Cardinality(GuessingIn(column, value, last)') <= Most(column)
  <2> DEFINE W == WrongIn(db.attempts, column, value, last)
             G == GuessingIn(column, value, last)
             H == GuessingIn(column, value, last)'
  <2> SUFFICES Cardinality(W) + Cardinality(H) <= Most(column)
    OBVIOUS
  <2>1. /\ Cardinality(W) \in Nat /\ IsFiniteSet(W) /\ db.attempts \in Seq(LoginAttempt)
    BY WrongFinite, DatabaseRows DEF IInv, SInv, SessionsTypeOK
  <2>2. /\ Cardinality(G) \in Nat /\ IsFiniteSet(G)
        /\ Cardinality(H) \in Nat /\ IsFiniteSet(H)
        /\ Cardinality(H) <= Cardinality(Busy) /\ Cardinality(Busy) <= scenario.atOnce
        /\ Cardinality(Busy) \in Nat
    <3>1. /\ Cardinality(H) \in Nat /\ IsFiniteSet(H) /\ Cardinality(H) <= Cardinality(Busy')
      <4> DEFINE B == Busy'
      <4>1. H \subseteq B
        BY DEF GuessingIn, Guessing, Busy, SigningIn
      <4>2. IsFiniteSet(B)
        BY <1>5 DEF AtOnce
      <4> SUFFICES /\ Cardinality(H) \in Nat /\ IsFiniteSet(H)
                   /\ Cardinality(H) <= Cardinality(B)
        OBVIOUS
      <4> HIDE DEF H, B
      <4> QED
        BY <4>1, <4>2, FS_Subset, FS_CardinalityType
    <3> QED
      BY <1>4, <3>1, GuessingFinite DEF GInv, AtOnce
  <2>3. Most(column) \in Nat /\ scenario.atOnce \in Nat
    BY Limits DEF IInv
  <2>4. Cardinality(W) + Cardinality(G) <= Most(column)
    BY DEF GInv, Counted
  <2>5. CASE ~Guessing(t, column, value, last)
    <3>1. H \subseteq G
      BY <1>3, <2>5 DEF GuessingIn
    <3>2. Cardinality(H) <= Cardinality(G)
      BY <2>2, <3>1, FS_Subset
    <3> HIDE DEF W, G, H
    <3> QED
      BY <2>1, <2>2, <2>3, <2>4, <3>2
  <2>6. CASE Guessing(t, column, value, last)
    <3>1. /\ good /\ tx[c].req[column] = value /\ tx[c].now \in (last - Window) .. last
          /\ last \in Nat /\ tx[c].now \in Nat /\ Window \in Nat
      BY <1>1, <1>2, <2>6, Requested, Numbers, SessionsAssumption DEF Guessing
    <3> DEFINE F == {i \in DOMAIN db.attempts :
                       /\ db.attempts[i][column] = value
                       /\ db.attempts[i].at >= tx[c].now - Window
                       /\ ~db.attempts[i].succeeded}
               limit == IF column = "user" THEN UsernameLimit ELSE SourceLimit
    <3>2. Cardinality(F) < limit
      <4>1. CASE column = "user"
        BY <3>1, <4>1 DEF good, Allowed, Failures
      <4>2. CASE column = "source"
        BY <3>1, <4>2 DEF good, Allowed, Failures
      <4> QED
        BY <4>1, <4>2 DEF Columns
    <3>3. W \subseteq F
      <4>1. SUFFICES ASSUME NEW i \in W PROVE i \in F
        OBVIOUS
      <4>2. /\ i \in DOMAIN db.attempts /\ db.attempts[i][column] = value
            /\ ~db.attempts[i].succeeded /\ db.attempts[i].at \in (last - Window) .. last
        BY DEF WrongIn
      <4>3. db.attempts[i].at \in Nat
        BY <2>1, <4>2, AttemptRows
      <4> QED
        BY <3>1, <4>2, <4>3
    <3>4. IsFiniteSet(F)
      <4>1. DOMAIN db.attempts = 1 .. Len(db.attempts) /\ Len(db.attempts) \in Nat
        BY <2>1
      <4>2. IsFiniteSet(DOMAIN db.attempts) /\ F \subseteq DOMAIN db.attempts
        BY <4>1, FS_Interval
      <4> QED
        BY <4>2, FS_Subset
    <3> HIDE DEF F
    <3>5. Cardinality(W) <= Cardinality(F) /\ Cardinality(F) \in Nat
      BY <3>3, <3>4, FS_Subset, FS_CardinalityType
    <3>6. limit \in Nat /\ Most(column) = limit - 1 + scenario.atOnce
      BY SessionsAssumption DEF Most
    <3> HIDE DEF W, G, H, limit
    <3> QED
      BY <2>1, <2>2, <2>3, <3>2, <3>5, <3>6
  <2> QED
    BY <2>5, <2>6
<1> QED
  BY <1>1, <1>5, <1>6 DEF Counted, Most

\* The attempt that c records.
Attempt(c) ==
  [user |-> tx[c].req.user, source |-> tx[c].req.source, at |-> tx[c].now,
   tested |-> tx[c].good, succeeded |-> tx[c].succeeded]

\* An attempt recorded is a guess no longer under way.
LEMMA RecordedGuesses ==
  ASSUME IInv, GInv, NEW c \in Clients, At(c, "record"), End(c), scenario' = scenario,
         db'.attempts = Append(db.attempts, Attempt(c))
  PROVE  AtOnce' /\ Counted'
<1>1. /\ tx[c] \in Transaction /\ tx[c].pc = "record"
      /\ tx'[c] = NoTx /\ (\A d \in Clients \ {c} : tx'[d] = tx[d])
  BY AtRequest, EndHolds DEF At, IInv, SInv
<1>2. Busy' \subseteq Busy
  BY <1>1, Requested DEF Busy
<1>3. AtOnce'
  <2>1. scenario.atOnce \in Nat
    BY Limits DEF IInv, Columns
  <2> QED
    BY <1>2, <2>1, FS_Subset, FS_CardinalityType DEF AtOnce, GInv
<1>4. ASSUME NEW column \in Columns, NEW value \in Users \cup Sources, NEW last \in Times
      PROVE  Cardinality(WrongIn(db'.attempts, column, value, last))
               + Cardinality(GuessingIn(column, value, last)') <= Most(column)
  <2> DEFINE W == WrongIn(db.attempts, column, value, last)
             V == WrongIn(db'.attempts, column, value, last)
             G == GuessingIn(column, value, last)
             H == GuessingIn(column, value, last)'
             n == Len(db.attempts) + 1
  <2> SUFFICES Cardinality(V) + Cardinality(H) <= Most(column)
    OBVIOUS
  <2>1. /\ Cardinality(W) \in Nat /\ IsFiniteSet(W) /\ db.attempts \in Seq(LoginAttempt)
        /\ Cardinality(G) \in Nat /\ IsFiniteSet(G) /\ Most(column) \in Nat
    BY WrongFinite, GuessingFinite, DatabaseRows, Limits DEF IInv, SInv, SessionsTypeOK, GInv
  <2>2. Cardinality(W) + Cardinality(G) <= Most(column)
    BY DEF GInv, Counted
  <2>3. H = G \ {c}
    <3>1. ~Guessing(NoTx, column, value, last)
      BY Requested DEF Guessing, SigningIn
    <3> QED
      BY <1>1, <3>1 DEF GuessingIn
  <2>4. /\ V \subseteq W \cup {n} /\ n \notin W
        /\ n \in V => ~Attempt(c).succeeded /\ Attempt(c)[column] = value
                      /\ Attempt(c).tested /\ Attempt(c).at \in (last - Window) .. last
    <3>1. /\ db'.attempts = Append(db.attempts, Attempt(c))
          /\ DOMAIN db.attempts = 1 .. Len(db.attempts) /\ Len(db.attempts) \in Nat
          /\ DOMAIN db'.attempts = 1 .. n /\ db'.attempts[n] = Attempt(c)
          /\ \A i \in DOMAIN db.attempts : db'.attempts[i] = db.attempts[i]
      BY <2>1
    <3> HIDE DEF n
    <3>2. n = Len(db.attempts) + 1
      BY DEF n
    <3>3. \A i \in 1 .. n : i = n \/ i \in 1 .. Len(db.attempts)
      BY <3>1, <3>2
    <3> QED
      BY <3>1, <3>2, <3>3 DEF WrongIn
  <2>5. CASE n \notin V
    <3>1. V \subseteq W /\ H \subseteq G
      BY <2>3, <2>4, <2>5
    <3> HIDE DEF V, W, G, H, n
    <3>2. /\ Cardinality(V) \in Nat /\ Cardinality(V) <= Cardinality(W)
          /\ Cardinality(H) \in Nat /\ Cardinality(H) <= Cardinality(G)
      BY <2>1, <3>1, FS_Subset, FS_CardinalityType
    <3> QED
      BY <2>1, <2>2, <3>2
  <2>6. CASE n \in V
    <3>1. c \in G
      <4>1. tx[c].good /\ tx[c].now \in (last - Window) .. last /\ tx[c].req[column] = value
        BY <2>4, <2>6 DEF Attempt, Columns
      <4> QED
        BY <1>1, <4>1 DEF GuessingIn, Guessing, SigningIn
    <3> HIDE DEF V, W, G, H, n
    <3>2. Cardinality(H) = Cardinality(G) - 1 /\ Cardinality(G) \in Nat
      BY <2>1, <2>3, <3>1, FS_RemoveElement
    <3>3. IsFiniteSet(W \cup {n}) /\ Cardinality(W \cup {n}) = Cardinality(W) + 1
      BY <2>1, <2>4, FS_AddElement
    <3>4. Cardinality(V) \in Nat /\ Cardinality(V) <= Cardinality(W \cup {n})
      BY <2>4, <3>3, FS_Subset, FS_CardinalityType
    <3> QED
      BY <2>1, <2>2, <3>2, <3>3, <3>4
  <2> QED
    BY <2>5, <2>6
<1> QED
  BY <1>3, <1>4 DEF Counted, Most

LEMMA RecordFailureGuesses ==
  ASSUME IInv, GInv, NEW c \in Clients, RecordFailure(c)
  PROVE  AtOnce' /\ Counted'
<1>1. db \in Database
  BY DEF IInv, SInv, SessionsTypeOK
<1>2. db'.attempts = Append(db.attempts, Attempt(c))
  BY <1>1 DEF RecordFailure, Attempted, Attempt, Database
<1> QED
  BY <1>2, RecordedGuesses DEF RecordFailure, Kept

LEMMA RecordSuccessGuesses ==
  ASSUME IInv, GInv, NEW c \in Clients, RecordSuccess(c)
  PROVE  AtOnce' /\ Counted'
<1> DEFINE first == Attempted(db, c)
           second == RevokeOpen(first, {tx[c].req.token}, "rotated")
           signed == Issued(second, tx[c].req.user, tx[c].now)
<1>1. tx[c] \in Transaction /\ db \in Database
  BY AtRequest DEF RecordSuccess, At, IInv, SInv, SessionsTypeOK
<1>2. first \in Database /\ first.attempts = Append(db.attempts, Attempt(c))
  <2>1. first \in Database
    BY <1>1, AttemptedRows DEF IInv
  <2> QED
    BY <1>1, <2>1 DEF Attempted, Attempt, Database
<1>3. \/ db' = signed
      \/ db' = [signed EXCEPT !.users[tx[c].req.user].password = tx[c].req.password]
  BY DEF RecordSuccess
<1> HIDE DEF first
<1>4. second \in Database /\ second.attempts = first.attempts
  BY <1>2, RevokedRows, OtherTables DEF Reasons
<1> HIDE DEF second
<1>5. /\ DOMAIN signed = {"schema", "users", "sessions", "attempts"}
      /\ signed.attempts = second.attempts
  BY <1>4 DEF Issued, Database
<1> HIDE DEF signed
<1>6. db'.attempts = signed.attempts
  BY <1>3, <1>5
<1> QED
  BY <1>2, <1>4, <1>5, <1>6, RecordedGuesses DEF RecordSuccess, Kept

\* Requests without a schema wait, or end, before they count.
LEMMA SessionsGuesses ==
  ASSUME IInv, IInv', GInv, SessionsNext, UNCHANGED recoveryVars
  PROVE  GInv'
<1>1. db'.schema = db.schema
  BY SessionsStep DEF IInv, Effects
<1>2. scenario' = scenario /\ AtOnce' /\ Counted'
      /\ (~db.schema => \A d \in Clients : Calmer(tx[d], tx'[d]) \/ tx'[d].pc \notin SigningIn)
  <2>1. ASSUME NEW c \in Clients, Quiet(c)
        PROVE  /\ scenario' = scenario /\ AtOnce' /\ Counted'
               /\ \A d \in Clients : Calmer(tx[d], tx'[d])
    BY <2>1, QuietCalm, GuessesCalm DEF IInv
  <2>2. ASSUME NEW c \in Clients, Arrive(c)
        PROVE  /\ scenario' = scenario
               /\ \A d \in Clients : Calmer(tx[d], tx'[d]) \/ tx'[d].pc \notin SigningIn
    <3>1. PICK q \in scenario.requests :
            Move(c, [pc |-> FirstStep(q.op), req |-> q, now |-> clock, actor |-> q.user,
                     good |-> FALSE, succeeded |-> FALSE, targets |-> {}, crossed |-> FALSE])
      BY <2>2 DEF Arrive
    <3> DEFINE t == [pc |-> FirstStep(q.op), req |-> q, now |-> clock, actor |-> q.user,
                     good |-> FALSE, succeeded |-> FALSE, targets |-> {}, crossed |-> FALSE]
    <3>2. /\ q \in Request /\ scenario' = scenario
          /\ tx'[c] = t /\ (\A d \in Clients \ {c} : tx'[d] = tx[d])
          /\ \A d \in Clients : tx[d] = NoTx \/ tx[d] \in Transaction
      BY <2>2, <3>1, SessionsAssumption, ZenonT(60) DEF Arrive, Move, IInv, SInv, SessionsTypeOK
    <3>3. t.pc \notin SigningIn
      BY <3>2 DEF Request, FirstStep, Pages, SigningIn
    <3>4. \A d \in Clients : Calmer(tx[d], tx[d])
      BY DEF Calmer
    <3> QED
      BY <3>2, <3>3, <3>4
  <2>3. ASSUME NEW c \in Clients, RecordFailure(c) \/ RecordSuccess(c)
        PROVE  scenario' = scenario /\ End(c)
    BY <2>3 DEF RecordFailure, RecordSuccess, Kept
  <2>4. ASSUME NEW c \in Clients, CountFailures(c)
        PROVE  scenario' = scenario /\ db.schema
    BY <2>4 DEF CountFailures, Reads, Kept
  <2>5. CASE Tick
    <3>1. /\ scenario' = scenario /\ db'.attempts = db.attempts /\ tx' = tx
      BY <2>5 DEF Tick
    <3>2. \A d \in Clients : Calmer(tx[d], tx'[d])
      BY <3>1 DEF Calmer
    <3> QED
      BY <3>1, <3>2, GuessesCalm
  <2>6. CASE ~Tick
    <3>1. PICK c \in Clients :
            Arrive(c) \/ CountFailures(c) \/ RecordFailure(c) \/ RecordSuccess(c) \/ Quiet(c)
      BY <2>6 DEF SessionsNext, SignIn, ChangeAccounts, Quiet
    <3>2. CASE Arrive(c)
      BY <2>2, <3>2, ArriveGuesses
    <3>3. CASE CountFailures(c)
      BY <2>4, <3>3, CountFailuresGuesses
    <3>4. CASE RecordFailure(c) \/ RecordSuccess(c)
      BY <2>3, <3>4, RecordFailureGuesses, RecordSuccessGuesses, EndCalm DEF IInv
    <3> QED
      BY <2>1, <3>1, <3>2, <3>3, <3>4
  <2> QED
    BY <2>5, <2>6
<1>3. NoneSigningIn'
  BY <1>1, <1>2 DEF NoneSigningIn, GInv, Calmer, SigningIn
<1>4. GuessesArchived'
  BY <1>2 DEF GuessesArchived, GInv, Guessed, Most, recoveryVars
<1> QED
  BY <1>2, <1>3, <1>4 DEF GInv

\* Where requests, attempts and archives stay, so does the invariant.
LEMMA SameGuesses ==
  ASSUME IInv, IInv', GInv, db'.attempts = db.attempts, UNCHANGED <<tx, scenario>>,
         db.schema => db'.schema,
         \A a \in Archives : file'[a].state = "dumped" => Guessed(file'[a].content.attempts)
  PROVE  GInv'
<1>1. \A d \in Clients : Calmer(tx[d], tx'[d])
  BY DEF Calmer
<1>2. AtOnce' /\ Counted'
  BY <1>1, GuessesCalm
<1>3. NoneSigningIn'
  BY <1>1 DEF NoneSigningIn, GInv
<1>4. GuessesArchived'
  BY DEF GuessesArchived, Guessed, Most
<1> QED
  BY <1>2, <1>3, <1>4 DEF GInv

\* A path holds what it held, or a copy of this database.
LEMMA BackupFiles ==
  ASSUME IInv, BackupStep
  PROVE  \A a \in Archives : file'[a].state = "dumped" =>
           \/ file[a].state = "dumped" /\ file'[a].content = file[a].content
           \/ file'[a].content = db
<1>0. /\ file \in [Archives -> {NoFile, Touched} \cup ArchiveFiles]
      /\ backup.pc = "manifest" =>
           backup.archive \in Archives /\ file[backup.archive] \in ArchiveFiles
      /\ backup.pc \in {"dump", "inventory"} => backup.archive \in Archives
  BY DEF IInv, RInv, RecoveryTypes, BackingUp, NoJob
<1>1. CASE UNCHANGED file
  BY <1>1
<1>2. CASE \E a \in Archives : StartBackup(a)
  BY <1>0, <1>2 DEF StartBackup, Touched
<1>3. CASE Dump
  BY <1>0, <1>3 DEF Dump, Archive
<1>4. CASE DumpFails
  BY <1>0, <1>4 DEF DumpFails, NoFile
<1>5. CASE WriteManifest
  <2> DEFINE f == file[backup.archive]
             g == [f EXCEPT !.manifest = Manifest(backup.inventory, f.content)]
  <2>1. f \in ArchiveFiles /\ backup.archive \in Archives
    BY <1>0, <1>5 DEF WriteManifest
  <2>2. file' = [file EXCEPT ![backup.archive] = g]
    BY <1>5 DEF WriteManifest
  <2>3. g.content = f.content /\ f.state = "dumped"
    BY <2>1 DEF ArchiveFiles
  <2> HIDE DEF g
  <2> QED
    BY <1>0, <2>1, <2>2, <2>3
<1> QED
  BY <1>1, <1>2, <1>3, <1>4, <1>5 DEF BackupStep, TakeInventory, KillBackup

LEMMA BackupGuesses ==
  ASSUME IInv, IInv', GInv, BackupStep
  PROVE  GInv'
<1>1. BackupKeeps
  BY DEF BackupStep, StartBackup, Dump, DumpFails, TakeInventory, WriteManifest, KillBackup
<1>2. Guessed(db.attempts)
  BY CountedGuessed DEF IInv, GInv
<1>3. \A a \in Archives : file'[a].state = "dumped" => Guessed(file'[a].content.attempts)
  BY <1>2, BackupFiles DEF GInv, GuessesArchived
<1> QED
  BY <1>1, <1>3, SameGuesses DEF BackupKeeps

\* Nobody has tried to sign in and nobody is trying.
Untried == SInv /\ (\A c \in Clients : tx[c].pc = "idle") /\ db.attempts = <<>>

LEMMA UntriedGuesses == Untried => AtOnce /\ Counted /\ NoneSigningIn
<1> SUFFICES ASSUME Untried PROVE AtOnce /\ Counted /\ NoneSigningIn
  OBVIOUS
<1>1. Busy = {} /\ IsFiniteSet({}) /\ Cardinality({}) = 0
  BY FS_EmptySet DEF Busy, Untried
<1>2. \A column, value, last :
        WrongIn(<<>>, column, value, last) = {} /\ GuessingIn(column, value, last) = {}
  BY DEF WrongIn, GuessingIn, Guessing, SigningIn, Untried
<1>3. AtOnce
  BY <1>1, Limits DEF AtOnce, Untried, Columns
<1>4. ASSUME NEW column \in Columns, NEW value, NEW last
      PROVE  Cardinality(WrongIn(db.attempts, column, value, last))
               + Cardinality(GuessingIn(column, value, last)) <= Most(column)
  <2>1. Most(column) \in Nat
    BY Limits DEF Untried
  <2>2. WrongIn(db.attempts, column, value, last) = {} /\ GuessingIn(column, value, last) = {}
    BY <1>2 DEF Untried
  <2>3. Cardinality(WrongIn(db.attempts, column, value, last)) = 0
        /\ Cardinality(GuessingIn(column, value, last)) = 0
    BY <1>1, <2>2
  <2> QED
    BY <2>1, <2>3
<1>5. Counted
  BY <1>4 DEF Counted
<1>6. NoneSigningIn
  BY DEF NoneSigningIn, SigningIn, Untried
<1> QED
  BY <1>3, <1>5, <1>6

LEMMA UntriedNext == Untried' => (AtOnce /\ Counted /\ NoneSigningIn)'
BY UntriedGuesses, PTL

LEMMA LossGuesses ==
  ASSUME IInv, IInv', GInv, Loss
  PROVE  GInv'
<1>1. /\ \A c \in Clients : tx'[c].pc = "idle"
      /\ db'.attempts = <<>> /\ scenario' = scenario /\ file' = file
  BY Requested DEF Loss, EmptyDatabase
<1>2. AtOnce' /\ NoneSigningIn' /\ Counted'
  BY <1>1, UntriedNext DEF Untried, IInv
<1>3. GuessesArchived'
  BY <1>1 DEF GInv, GuessesArchived, Guessed, Most
<1> QED
  BY <1>2, <1>3 DEF GInv

LEMMA OverwriteGuesses ==
  ASSUME IInv, IInv', GInv, NEW a \in Archives, NEW b \in Archives, Overwrite(a, b)
  PROVE  GInv'
<1> DEFINE g == [file[a] EXCEPT !.content = file[b].content]
<1>1. /\ file \in [Archives -> {NoFile, Touched} \cup ArchiveFiles]
      /\ file[a].state = "dumped" /\ file[b].state = "dumped"
      /\ file' = [file EXCEPT ![a] = g] /\ UNCHANGED vars
  BY DEF IInv, RInv, RecoveryTypes, Overwrite
<1>2. g.content = file[b].content
  <2>1. file[a] \in ArchiveFiles
    BY <1>1 DEF NoFile, Touched
  <2> QED
    BY <2>1 DEF ArchiveFiles
<1> HIDE DEF g
<1>3. \A x \in Archives : file'[x].state = "dumped" => Guessed(file'[x].content.attempts)
  BY <1>1, <1>2 DEF GInv, GuessesArchived
<1> QED
  BY <1>1, <1>3, SameGuesses DEF vars

\* pg_restore commits before any sign-in has counted.
LEMMA ChildCommitsGuesses ==
  ASSUME IInv, IInv', GInv, NEW r \in Operators, ChildCommits(r)
  PROVE  GInv'
<1>1. /\ child[r].state = "running" /\ ~db.schema /\ db' = file[child[r].archive].content
      /\ UNCHANGED <<tx, scenario, file>>
  BY DEF ChildCommits
<1>2. child[r].archive \in Archives /\ file[child[r].archive].state = "dumped"
  <2>1. child[r].archive \in Archives
    BY <1>1 DEF IInv, RInv, RecoveryTypes
  <2> QED
    BY <1>1, <2>1, SameChild DEF Verified
<1>3. Guessed(db'.attempts)
  BY <1>1, <1>2 DEF GInv, GuessesArchived
<1>4. \A c \in Clients : tx[c].pc \notin SigningIn
  BY <1>1 DEF GInv, NoneSigningIn
<1>5. ASSUME NEW column \in Columns, NEW value \in Users \cup Sources, NEW last \in Times
      PROVE  Cardinality(WrongIn(db'.attempts, column, value, last))
               + Cardinality(GuessingIn(column, value, last)) <= Most(column)
  <2>1. GuessingIn(column, value, last) = {}
    BY <1>4 DEF GuessingIn, Guessing
  <2>2. Cardinality(GuessingIn(column, value, last)) = 0
    BY <2>1, FS_EmptySet
  <2>3. Cardinality(WrongIn(db'.attempts, column, value, last)) <= Most(column)
    BY <1>3 DEF Guessed
  <2>4. Cardinality(WrongIn(db'.attempts, column, value, last)) \in Nat
    BY WrongFinite, DatabaseRows DEF IInv, SInv, SessionsTypeOK
  <2>5. Most(column) \in Nat
    BY Limits DEF IInv
  <2> QED
    BY <2>2, <2>3, <2>4, <2>5
<1>6. Counted' /\ AtOnce'
  BY <1>1, <1>5 DEF Counted, AtOnce, GInv, Most, GuessingIn, Busy
<1>7. NoneSigningIn' /\ GuessesArchived'
  BY <1>1, <1>4 DEF NoneSigningIn, GuessesArchived, GInv, Guessed, Most
<1> QED
  BY <1>6, <1>7 DEF GInv

LEMMA RestoreGuesses ==
  ASSUME IInv, IInv', GInv, NEW r \in Operators, RestoreStep(r)
  PROVE  GInv'
<1>1. CASE ChildCommits(r)
  BY <1>1, ChildCommitsGuesses
<1>2. CASE ~ChildCommits(r)
  <2>1. RestoreKeeps /\ (db' = db \/ db' = AllRevoked(db))
    BY <1>2 DEF RestoreStep, StartRestore, Own, ProveEmpty, Guard, ChildFails, ReadExit,
       RevokeAll, VerifyDomain, ConfirmRevoked, Unblock, KillRestore
  <2>2. db'.attempts = db.attempts /\ db'.schema = db.schema
    BY <2>1, OtherTables, RevokedRows DEF AllRevoked, IInv, SInv, SessionsTypeOK, Reasons
  <2>3. \A a \in Archives : file'[a].state = "dumped" => Guessed(file'[a].content.attempts)
    BY <2>1 DEF RestoreKeeps, GInv, GuessesArchived
  <2> QED
    BY <2>1, <2>2, <2>3, SameGuesses DEF RestoreKeeps
<1> QED
  BY <1>1, <1>2

LEMMA GuessesInitially == ASSUME Init PROVE GInv
<1>1. IInv
  BY Initially
<1>2. /\ scenario \in Scenarios /\ db = scenario.db /\ tx = [c \in Clients |-> NoTx]
      /\ file = [a \in Archives |-> NoFile]
  BY DEF Init, SessionsInit
<1>3. Untried
  BY <1>1, <1>2, SessionsAssumption, Requested DEF Untried, IInv
<1>4. GuessesArchived
  BY <1>2 DEF GuessesArchived, NoFile
<1> QED
  BY <1>3, <1>4, UntriedGuesses DEF GInv

LEMMA GuessesInductive == ASSUME IInv, IInv', GInv, [Next]_allVars PROVE GInv'
<1>1. CASE SessionsNext /\ UNCHANGED recoveryVars
  BY <1>1, SessionsGuesses
<1>2. CASE \E a, b \in Archives : Overwrite(a, b)
  BY <1>2, OverwriteGuesses
<1>3. CASE \E r \in Operators : RestoreStep(r)
  BY <1>3, RestoreGuesses
<1>4. CASE UNCHANGED allVars
  BY <1>4, SameGuesses DEF allVars, vars, recoveryVars, GInv, GuessesArchived
<1> QED
  BY <1>1, <1>2, <1>3, <1>4, BackupGuesses, LossGuesses DEF Next

LEMMA GuessesInvariance == Spec => [](IInv /\ GInv)
<1>1. Init => IInv /\ GInv
  BY Initially, GuessesInitially
<1>2. IInv /\ GInv /\ [Next]_allVars => (IInv /\ GInv)'
  BY Inductive, GuessesInductive
<1> QED
  BY <1>1, <1>2, PTL DEF Spec

\* Within any window at most limit - 1 + (sign-ins at once) passwords are tested and found
\* wrong: every attempt passed a count that missed only what was under way.
THEOREM GuessesBounded == Spec => []GuessesAreBounded
<1>1. ASSUME IInv, GInv PROVE GuessesAreBounded
  <2>1. SUFFICES ASSUME NEW i \in DOMAIN db.attempts
                 PROVE  LET last == db.attempts[i]
                            Wrong(column) ==
                              Cardinality({j \in DOMAIN db.attempts :
                                 LET a == db.attempts[j]
                                 IN /\ a[column] = last[column] /\ a.tested /\ ~a.succeeded
                                    /\ a.at \in (last.at - Window) .. last.at})
                        IN /\ Wrong("user") <= UsernameLimit - 1 + scenario.atOnce
                           /\ Wrong("source") <= SourceLimit - 1 + scenario.atOnce
    BY DEF GuessesAreBounded
  <2> DEFINE last == db.attempts[i]
             Wrong(column) ==
               Cardinality({j \in DOMAIN db.attempts :
                  LET a == db.attempts[j]
                  IN /\ a[column] = last[column] /\ a.tested /\ ~a.succeeded
                     /\ a.at \in (last.at - Window) .. last.at})
  <2>2. last \in LoginAttempt /\ last.at \in Times
    BY <1>1, AttemptRows, DatabaseRows DEF IInv, SInv, SessionsTypeOK
  <2>3. last["user"] \in Users /\ last["source"] \in Sources
    BY <2>2 DEF LoginAttempt
  <2>4. Guessed(db.attempts)
    BY <1>1, CountedGuessed DEF GInv, IInv
  <2>5. \A column : Wrong(column) = Cardinality(WrongIn(db.attempts, column, last[column], last.at))
    BY DEF WrongIn
  <2>6. /\ Cardinality(WrongIn(db.attempts, "user", last["user"], last.at)) <= Most("user")
        /\ Cardinality(WrongIn(db.attempts, "source", last["source"], last.at)) <= Most("source")
    BY <2>2, <2>3, <2>4 DEF Guessed, Columns
  <2>7. Wrong("user") <= Most("user") /\ Wrong("source") <= Most("source")
    BY <2>5, <2>6
  <2> QED
    BY <2>7 DEF Most
<1> QED
  BY <1>1, GuessesInvariance, PTL

-----------------------------------------------------------------------------
(***************************************************************************)
(* Which passwords the open sessions come from.                            *)
(***************************************************************************)
\* No password is newer than the last reset; where it is that of the last reset, so
\* are those of the open sessions, but for sign-ins that overlapped it.
FollowsIn(d, from, resets, except) ==
  \A u \in Users :
    /\ d.users[u].password <= resets[u]
    /\ d.users[u].state = "absent" => d.users[u].password = 0
    /\ d.users[u].password = resets[u] /\ u \notin except =>
         \A t \in Tokens : d.sessions[t].revoked = "no" /\ d.sessions[t].user = u =>
           from[t].password = resets[u] \/ from[t].crossed

Follows(d) == FollowsIn(d, origin, latest, lost)

Stored ==
  IF db.schema THEN \A u \in Users \ lost : db.users[u].password = latest[u]
  ELSE \A u \in Users : db.users[u].state = "absent"

\* A sign-in that verified knows the password of the last reset or has overlapped it;
\* a reset has seen every session but those of sign-ins that overlap it.
Overlaps(t) ==
  /\ t.pc = "record" /\ t.succeeded =>
       /\ db.users[t.req.user].state # "absent"
       /\ t.req.password <= latest[t.req.user]
       /\ t.crossed \/ t.req.password = latest[t.req.user] \/ t.req.user \in lost
  /\ t.pc = "revoke" =>
       /\ db.users[t.req.user].state # "absent"
       /\ t.req.op = "reset" =>
            \A k \in OpenSessions(t.req.user) : k \in t.targets \/ origin[k].crossed

PasswordsArchived == \A a \in Archives : file[a].state = "dumped" => Follows(file[a].content)

PInv == Follows(db) /\ Stored /\ (\A c \in Clients : Overlaps(tx[c])) /\ PasswordsArchived

\* No session opens and none changes hands.
Closing(d, e) ==
  \A t \in Tokens : e.sessions[t].revoked = "no" =>
    d.sessions[t].revoked = "no" /\ e.sessions[t].user = d.sessions[t].user

SamePasswords(d, e) ==
  \A u \in Users :
    /\ e.users[u].password = d.users[u].password
    /\ e.users[u].state = "absent" => d.users[u].state = "absent"

LEMMA Following ==
  ASSUME NEW d, NEW e, NEW o, NEW p, NEW l, NEW x, NEW y,
         FollowsIn(d, o, l, x), SamePasswords(d, e), Closing(d, e), x \subseteq y,
         \A t \in Tokens : d.sessions[t].revoked = "no" => p[t] = o[t]
  PROVE  FollowsIn(e, p, l, y)
<1>1. SUFFICES ASSUME NEW u \in Users
               PROVE  /\ e.users[u].password <= l[u]
                      /\ e.users[u].state = "absent" => e.users[u].password = 0
                      /\ e.users[u].password = l[u] /\ u \notin y =>
                           \A t \in Tokens : e.sessions[t].revoked = "no" /\ e.sessions[t].user = u =>
                             p[t].password = l[u] \/ p[t].crossed
  BY Zenon DEF FollowsIn
<1>2. /\ d.users[u].password <= l[u]
      /\ d.users[u].state = "absent" => d.users[u].password = 0
      /\ d.users[u].password = l[u] /\ u \notin x =>
           \A t \in Tokens : d.sessions[t].revoked = "no" /\ d.sessions[t].user = u =>
             o[t].password = l[u] \/ o[t].crossed
  BY DEF FollowsIn
<1>3. /\ e.users[u].password = d.users[u].password
      /\ e.users[u].state = "absent" => d.users[u].state = "absent"
  BY DEF SamePasswords
<1>4. ASSUME d.users[u].password = l[u], u \notin x, NEW t \in Tokens,
             e.sessions[t].revoked = "no", e.sessions[t].user = u
      PROVE  p[t].password = l[u] \/ p[t].crossed
  <2>1. d.sessions[t].revoked = "no" /\ d.sessions[t].user = u
    BY <1>4 DEF Closing
  <2>2. p[t] = o[t]
    BY <2>1
  <2> QED
    BY <1>2, <1>4, <2>1, <2>2
<1> QED
  BY <1>2, <1>3, <1>4

\* Statements at which a request relies on the sessions and passwords it has seen.
Risky == {"record", "revoke"}

\* A step that leaves the history, and moves none to such a statement unless it may be there.
LEMMA PasswordsKept ==
  ASSUME IInv, IInv', PInv, UNCHANGED <<origin, latest, lost>>, db'.schema = db.schema,
         SamePasswords(db, db'), Closing(db, db'), ~db.schema => db' = db,
         \A c \in Clients : \/ tx'[c] = tx[c] \/ tx'[c].pc \notin Risky \/ Overlaps(tx[c])',
         \A a \in Archives : file'[a].state = "dumped" => Follows(file'[a].content)
  PROVE  PInv'
<1>1. Follows(db)'
  <2>1. FollowsIn(db', origin, latest, lost)
    BY Following DEF PInv, Follows
  <2> QED
    BY <2>1 DEF Follows
<1>2. Stored'
  BY DEF Stored, PInv, SamePasswords
<1>3. ASSUME NEW c \in Clients, tx'[c] = tx[c] PROVE Overlaps(tx[c])'
  <2>1. Overlaps(tx[c])
    BY DEF PInv
  <2>2. ASSUME tx[c].pc \in Risky
        PROVE  db.users[tx[c].req.user].state # "absent" => db'.users[tx[c].req.user].state # "absent"
    <3>1. tx[c] \in Transaction /\ tx[c].req.user \in Users
      BY <2>2, AtRequest, Requested DEF Risky, IInv, SInv
    <3> QED
      BY <3>1 DEF SamePasswords
  <2>3. \A u : OpenSessions(u)' \subseteq OpenSessions(u)
    BY DEF Closing, OpenSessions
  <2> QED
    BY <1>3, <2>1, <2>2, <2>3 DEF Overlaps, Risky
<1>4. \A c \in Clients : Overlaps(tx[c])'
  BY <1>3 DEF Overlaps, Risky
<1>5. PasswordsArchived'
  BY DEF PasswordsArchived, Follows
<1> QED
  BY <1>1, <1>2, <1>4, <1>5 DEF PInv

\* The same for a step of a request, which leaves the archives.
LEMMA RequestPasswords ==
  ASSUME IInv, IInv', PInv, UNCHANGED <<origin, latest, lost, file>>, db'.schema = db.schema,
         SamePasswords(db, db'), Closing(db, db'), ~db.schema => db' = db,
         \A c \in Clients : \/ tx'[c] = tx[c] \/ tx'[c].pc \notin Risky \/ Overlaps(tx[c])'
  PROVE  PInv'
<1>1. \A a \in Archives : file'[a].state = "dumped" => Follows(file'[a].content)
  BY DEF PInv, PasswordsArchived
<1> QED
  BY <1>1, PasswordsKept

\* A database that stays.
LEMMA SameDatabase == \A d : SamePasswords(d, d) /\ Closing(d, d)
BY DEF SamePasswords, Closing

\* A step that moves c, and not to where it relies on what it has seen.
LEMMA MovedAside ==
  ASSUME SInv, NEW c \in Clients, NEW t, Move(c, t), t.pc \notin Risky
  PROVE  \A d \in Clients : tx'[d] = tx[d] \/ tx'[d].pc \notin Risky
<1>1. tx'[c] = t /\ \A d \in Clients \ {c} : tx'[d] = tx[d]
  BY DEF Move, SInv, SessionsTypeOK
<1> QED
  BY <1>1

LEMMA EndedAside ==
  ASSUME SInv, NEW c \in Clients, End(c)
  PROVE  \A d \in Clients : tx'[d] = tx[d] \/ tx'[d].pc \notin Risky
BY MovedAside, Requested DEF End, Risky

\* The statement a request goes on to.
LEMMA Proceeding == ASSUME NEW s \in Transaction, NEW pc PROVE [s EXCEPT !.pc = pc].pc = pc
BY DEF Transaction

LEMMA Continuing ==
  ASSUME NEW s \in Transaction, NEW pc, NEW x, NEW y, NEW z
  PROVE  /\ [s EXCEPT !.pc = pc, !.good = x].pc = pc
         /\ [s EXCEPT !.pc = pc, !.now = x].pc = pc
         /\ [s EXCEPT !.pc = pc, !.actor = y, !.good = z].pc = pc
BY DEF Transaction

\* Steps that only read.
Reading(c) ==
  \/ Lose(c) \/ CountFailures(c) \/ CheckGuard(c) \/ LockSession(c) \/ ShowPage(c)
  \/ RequireSystem(c) \/ ReadForLogout(c) \/ CountAdmins(c)

LEMMA ReadingAside ==
  ASSUME SInv, NEW c \in Clients, Reading(c)
  PROVE  /\ UNCHANGED <<db, origin, latest, lost>>
         /\ \A d \in Clients : tx'[d] = tx[d] \/ tx'[d].pc \notin Risky
<1>1. UNCHANGED <<db, origin, latest, lost>>
  BY DEF Reading, Lose, CountFailures, CheckGuard, LockSession, ShowPage, RequireSystem,
     ReadForLogout, CountAdmins, Reads, history
<1>2. tx[c] \in Transaction
  BY AtRequest DEF SInv, Reading, Lose, CountFailures, CheckGuard, LockSession, ShowPage,
     RequireSystem, ReadForLogout, CountAdmins, At
<1>3. \/ End(c)
      \/ \E x, y, z :
           \/ Move(c, [tx[c] EXCEPT !.pc = "verify", !.good = x])
           \/ Move(c, [tx[c] EXCEPT !.pc = "lock", !.now = x])
           \/ Move(c, [tx[c] EXCEPT !.pc = "answer", !.actor = y, !.good = z])
           \/ Move(c, [tx[c] EXCEPT !.pc = "logout"])
           \/ Move(c, [tx[c] EXCEPT !.pc = "create"])
           \/ Move(c, [tx[c] EXCEPT !.pc = "lock_user"])
  <2>1. CASE Lose(c) \/ ShowPage(c)
    BY <2>1 DEF Lose, ShowPage
  <2>2. CASE CountFailures(c)
    BY <2>2 DEF CountFailures
  <2>3. CASE CheckGuard(c)
    BY <2>3 DEF CheckGuard
  <2>4. CASE LockSession(c)
    BY <2>4 DEF LockSession
  <2>5. CASE RequireSystem(c)
    BY <2>5 DEF RequireSystem
  <2>6. CASE ReadForLogout(c) \/ CountAdmins(c)
    BY <2>6 DEF ReadForLogout, CountAdmins
  <2> QED
    BY <2>1, <2>2, <2>3, <2>4, <2>5, <2>6 DEF Reading
<1>4. CASE End(c)
  BY <1>1, <1>4, EndedAside
<1>5. ASSUME NEW t, Move(c, t), t.pc \in {"verify", "lock", "answer", "logout", "create", "lock_user"}
      PROVE  \A d \in Clients : tx'[d] = tx[d] \/ tx'[d].pc \notin Risky
  BY <1>5, MovedAside DEF Risky
<1>6. CASE ~End(c)
  <2>1. PICK x, y, z :
          \/ Move(c, [tx[c] EXCEPT !.pc = "verify", !.good = x])
          \/ Move(c, [tx[c] EXCEPT !.pc = "lock", !.now = x])
          \/ Move(c, [tx[c] EXCEPT !.pc = "answer", !.actor = y, !.good = z])
          \/ Move(c, [tx[c] EXCEPT !.pc = "logout"])
          \/ Move(c, [tx[c] EXCEPT !.pc = "create"])
          \/ Move(c, [tx[c] EXCEPT !.pc = "lock_user"])
    BY <1>3, <1>6
  <2>2. CASE Move(c, [tx[c] EXCEPT !.pc = "verify", !.good = x])
    <3> DEFINE t == [tx[c] EXCEPT !.pc = "verify", !.good = x]
    <3>1. t.pc = "verify"
      BY <1>2, Continuing
    <3> HIDE DEF t
    <3> QED
      BY <1>1, <1>5, <2>2, <3>1 DEF t
  <2>3. CASE Move(c, [tx[c] EXCEPT !.pc = "lock", !.now = x])
    <3> DEFINE t == [tx[c] EXCEPT !.pc = "lock", !.now = x]
    <3>1. t.pc = "lock"
      BY <1>2, Continuing
    <3> HIDE DEF t
    <3> QED
      BY <1>1, <1>5, <2>3, <3>1 DEF t
  <2>4. CASE Move(c, [tx[c] EXCEPT !.pc = "answer", !.actor = y, !.good = z])
    <3> DEFINE t == [tx[c] EXCEPT !.pc = "answer", !.actor = y, !.good = z]
    <3>1. t.pc = "answer"
      BY <1>2, Continuing
    <3> HIDE DEF t
    <3> QED
      BY <1>1, <1>5, <2>4, <3>1 DEF t
  <2>5. CASE Move(c, [tx[c] EXCEPT !.pc = "logout"])
    <3> DEFINE t == [tx[c] EXCEPT !.pc = "logout"]
    <3>1. t.pc = "logout"
      BY <1>2, Proceeding
    <3> HIDE DEF t
    <3> QED
      BY <1>1, <1>5, <2>5, <3>1 DEF t
  <2>6. CASE Move(c, [tx[c] EXCEPT !.pc = "create"])
    <3> DEFINE t == [tx[c] EXCEPT !.pc = "create"]
    <3>1. t.pc = "create"
      BY <1>2, Proceeding
    <3> HIDE DEF t
    <3> QED
      BY <1>1, <1>5, <2>6, <3>1 DEF t
  <2>7. CASE Move(c, [tx[c] EXCEPT !.pc = "lock_user"])
    <3> DEFINE t == [tx[c] EXCEPT !.pc = "lock_user"]
    <3>1. t.pc = "lock_user"
      BY <1>2, Proceeding
    <3> HIDE DEF t
    <3> QED
      BY <1>1, <1>5, <2>7, <3>1 DEF t
  <2> QED
    BY <2>1, <2>2, <2>3, <2>4, <2>5, <2>6, <2>7
<1> QED
  BY <1>4, <1>6

LEMMA ReadingPasswords ==
  ASSUME IInv, IInv', PInv, NEW c \in Clients, Reading(c), UNCHANGED recoveryVars
  PROVE  PInv'
<1>1. /\ UNCHANGED <<db, origin, latest, lost, file>>
      /\ \A d \in Clients : tx'[d] = tx[d] \/ tx'[d].pc \notin Risky
  BY ReadingAside DEF IInv, recoveryVars
<1> QED
  BY <1>1, SameDatabase, RequestPasswords

LEMMA ArrivePasswords ==
  ASSUME IInv, IInv', PInv, NEW c \in Clients, Arrive(c), UNCHANGED recoveryVars
  PROVE  PInv'
<1>1. PICK q \in scenario.requests :
        Move(c, [pc |-> FirstStep(q.op), req |-> q, now |-> clock, actor |-> q.user,
                 good |-> FALSE, succeeded |-> FALSE, targets |-> {}, crossed |-> FALSE])
  BY DEF Arrive
<1> DEFINE t == [pc |-> FirstStep(q.op), req |-> q, now |-> clock, actor |-> q.user,
                 good |-> FALSE, succeeded |-> FALSE, targets |-> {}, crossed |-> FALSE]
<1>2. q \in Request
  BY SessionsAssumption DEF IInv, SInv, SessionsTypeOK
<1>3. t.pc \notin Risky
  BY <1>2 DEF Request, FirstStep, Pages, Risky
<1> HIDE DEF t
<1>4. \A d \in Clients : tx'[d] = tx[d] \/ tx'[d].pc \notin Risky
  BY <1>1, <1>3, MovedAside DEF IInv, t
<1>5. UNCHANGED <<db, origin, latest, lost, file>>
  BY DEF Arrive, history, recoveryVars
<1> QED
  BY <1>4, <1>5, SameDatabase, RequestPasswords

LEMMA VerifyPasswords ==
  ASSUME IInv, IInv', PInv, NEW c \in Clients, Verify(c), UNCHANGED recoveryVars
  PROVE  PInv'
<1> DEFINE q == tx[c].req
           u == db.users[q.user]
           good == tx[c].good /\ u.state = "active" /\ u.password = q.password
           t == [tx[c] EXCEPT !.pc = "record", !.succeeded = good]
<1>1. /\ tx[c] \in Transaction /\ db.schema /\ Move(c, t)
      /\ UNCHANGED <<db, origin, latest, lost, file>>
  BY AtRequest DEF Verify, At, IInv, SInv, Reads, history, recoveryVars
<1>2. t.pc = "record" /\ t.succeeded = good /\ t.req = q /\ q.user \in Users
  BY <1>1, Requested DEF Transaction
<1>3. good => /\ u.state # "absent" /\ q.password <= latest[q.user]
              /\ q.password = latest[q.user] \/ q.user \in lost
  BY <1>1, <1>2 DEF PInv, Follows, FollowsIn, Stored
<1>4. tx'[c] = t /\ \A d \in Clients \ {c} : tx'[d] = tx[d]
  BY <1>1 DEF Move, IInv, SInv, SessionsTypeOK
<1> HIDE DEF good, t
<1>5. Overlaps(tx[c])'
  BY <1>1, <1>2, <1>3, <1>4 DEF Overlaps
<1> QED
  BY <1>1, <1>4, <1>5, SameDatabase, RequestPasswords

LEMMA BeginRevokingPasswords ==
  ASSUME IInv, IInv', PInv, NEW c \in Clients, BeginRevoking(c), UNCHANGED recoveryVars
  PROVE  PInv'
<1>1. /\ tx[c] \in Transaction /\ UNCHANGED <<db, origin, latest, lost, file>>
  BY AtRequest DEF BeginRevoking, At, IInv, SInv, Reads, history, recoveryVars
<1>2. CASE End(c)
  BY <1>1, <1>2, EndedAside, SameDatabase, RequestPasswords DEF IInv
<1>3. CASE ~End(c)
  <2> DEFINE u == tx[c].req.user
             t == [tx[c] EXCEPT !.pc = "revoke", !.targets = OpenSessions(u)]
  <2>1. Move(c, t) /\ db.users[u].state # "absent"
    BY <1>3 DEF BeginRevoking, SessionsToRevoke
  <2>2. t.pc = "revoke" /\ t.targets = OpenSessions(u) /\ t.req = tx[c].req
    BY <1>1 DEF Transaction
  <2>3. tx'[c] = t /\ \A d \in Clients \ {c} : tx'[d] = tx[d]
    BY <2>1 DEF Move, IInv, SInv, SessionsTypeOK
  <2> HIDE DEF t
  <2>4. Overlaps(tx[c])'
    BY <1>1, <2>1, <2>2, <2>3 DEF Overlaps, OpenSessions
  <2> QED
    BY <1>1, <2>3, <2>4, SameDatabase, RequestPasswords
<1> QED
  BY <1>2, <1>3

LEMMA TickPasswords ==
  ASSUME IInv, IInv', PInv, Tick, UNCHANGED recoveryVars
  PROVE  PInv'
<1>1. UNCHANGED <<db, tx, origin, latest, lost, file>>
  BY DEF Tick, history, recoveryVars
<1> QED
  BY <1>1, SameDatabase, RequestPasswords

\* A request that ends having written its database.
LEMMA EndedPasswords ==
  ASSUME IInv, IInv', PInv, NEW c \in Clients, End(c), UNCHANGED <<origin, latest, lost, file>>,
         db.schema, db'.schema = db.schema, SamePasswords(db, db'), Closing(db, db')
  PROVE  PInv'
<1>1. \A d \in Clients : tx'[d] = tx[d] \/ tx'[d].pc \notin Risky
  BY EndedAside DEF IInv
<1> QED
  BY <1>1, RequestPasswords

LEMMA RecordFailurePasswords ==
  ASSUME IInv, IInv', PInv, NEW c \in Clients, RecordFailure(c), UNCHANGED recoveryVars
  PROVE  PInv'
<1>1. /\ tx[c] \in Transaction /\ db.schema /\ db' = Attempted(db, c) /\ End(c)
      /\ UNCHANGED <<origin, latest, lost, file>>
  BY AtRequest DEF RecordFailure, At, IInv, SInv, Writable, history, recoveryVars
<1>2. db'.users = db.users /\ db'.sessions = db.sessions /\ db'.schema = db.schema
  BY <1>1, AttemptedRows DEF IInv
<1>3. SamePasswords(db, db') /\ Closing(db, db')
  BY <1>2 DEF SamePasswords, Closing
<1> QED
  BY <1>1, <1>2, <1>3, EndedPasswords

\* A session whose row is rewritten for the same account, and not opened.
LEMMA RowRewritten ==
  ASSUME NEW d \in Database, NEW e, NEW t \in Tokens, NEW row, d.sessions[t] \in AuthSession,
         e = [d EXCEPT !.sessions[t] = row], row.user = d.sessions[t].user,
         row.revoked = "no" => d.sessions[t].revoked = "no"
  PROVE  SamePasswords(d, e) /\ Closing(d, e) /\ e.schema = d.schema
<1>1. d.sessions \in [Tokens -> AuthSession \cup {NoRow}]
  BY DatabaseRows
<1>2. /\ e.users = d.users /\ e.schema = d.schema
      /\ e.sessions[t] = row /\ \A k \in Tokens \ {t} : e.sessions[k] = d.sessions[k]
  BY <1>1 DEF Database
<1> QED
  BY <1>2 DEF SamePasswords, Closing

LEMMA AnswerPasswords ==
  ASSUME IInv, IInv', PInv, NEW c \in Clients, Answer(c), UNCHANGED recoveryVars
  PROVE  PInv'
<1> DEFINE k == tx[c].req.token
           row == db.sessions[k]
           new == IF tx[c].good THEN [row EXCEPT !.seen = tx[c].now]
                  ELSE [row EXCEPT !.revoked = "expired_or_inactive"]
<1>1. /\ tx[c] \in Transaction /\ tx[c].pc = "answer" /\ db.schema /\ db \in Database
      /\ UNCHANGED <<origin, latest, lost, file>>
  BY AtRequest DEF Answer, At, IInv, SInv, Writable, SessionsTypeOK, history, recoveryVars
<1>2. k \in Tokens /\ row \in AuthSession /\ row.revoked = "no"
  BY <1>1 DEF IInv, SInv, Requests, Holds
<1>3. db' = [db EXCEPT !.sessions[k] = new]
  BY <1>1, <1>2 DEF Answer
<1>4. new.user = row.user
  BY <1>2 DEF AuthSession
<1> HIDE DEF new
<1>5. SamePasswords(db, db') /\ Closing(db, db') /\ db'.schema = db.schema
  BY <1>1, <1>2, <1>3, <1>4, RowRewritten
<1>6. \A d \in Clients : tx'[d] = tx[d] \/ tx'[d].pc \notin Risky
  <2>1. CASE End(c)
    BY <2>1, EndedAside DEF IInv
  <2>2. CASE ~End(c)
    <3>1. Move(c, [tx[c] EXCEPT !.pc = "acting"])
      BY <2>2 DEF Answer
    <3>2. [tx[c] EXCEPT !.pc = "acting"].pc \notin Risky
      BY <1>1, Proceeding DEF Risky
    <3> QED
      BY <3>1, <3>2, MovedAside DEF IInv
  <2> QED
    BY <2>1, <2>2
<1> QED
  BY <1>1, <1>5, <1>6, RequestPasswords

LEMMA LogoutPasswords ==
  ASSUME IInv, IInv', PInv, NEW c \in Clients, Logout(c), UNCHANGED recoveryVars
  PROVE  PInv'
<1> DEFINE k == tx[c].req.token
           row == db.sessions[k]
           new == [row EXCEPT !.revoked = "logout"]
<1>1. /\ tx[c] \in Transaction /\ tx[c].pc = "logout" /\ db.schema /\ db \in Database
      /\ UNCHANGED <<origin, latest, lost, file>> /\ row # NoRow /\ End(c)
  BY AtRequest DEF Logout, At, IInv, SInv, Writable, SessionsTypeOK, history, recoveryVars
<1>2. k \in Tokens
  BY <1>1 DEF IInv, SInv, Requests, Belongs
<1>3. row \in AuthSession
  BY <1>1, <1>2, DatabaseRows
<1>4. db' = [db EXCEPT !.sessions[k] = new]
  BY <1>1, <1>2, <1>3 DEF Logout
<1>5. new.user = row.user /\ new.revoked = "logout"
  BY <1>3 DEF AuthSession
<1> HIDE DEF new
<1>6. SamePasswords(db, db') /\ Closing(db, db') /\ db'.schema = db.schema
  BY <1>1, <1>2, <1>3, <1>4, <1>5, RowRewritten
<1> QED
  BY <1>1, <1>6, EndedPasswords

\* A new account starts where an absent one stood.
LEMMA CreatePasswords ==
  ASSUME IInv, IInv', PInv, NEW c \in Clients, Create(c), UNCHANGED recoveryVars
  PROVE  PInv'
<1> DEFINE q == tx[c].req
           account == [state |-> "active", password |-> 0, admin |-> q.op = "create_admin"]
<1>1. /\ tx[c] \in Transaction /\ db.schema /\ db \in Database /\ q.user \in Users /\ End(c)
      /\ UNCHANGED <<origin, latest, lost, file>>
  BY AtRequest, Requested DEF Create, At, IInv, SInv, Writable, SessionsTypeOK, history, recoveryVars
<1>2. CASE db.users[q.user].state # "absent"
  <2>1. db' = db
    BY <1>2 DEF Create
  <2> QED
    BY <1>1, <2>1, SameDatabase, EndedPasswords
<1>3. CASE db.users[q.user].state = "absent"
  <2>1. db' = [db EXCEPT !.users[q.user] = account]
    BY <1>3 DEF Create
  <2>2. account.state = "active" /\ account.password = 0
    OBVIOUS
  <2>3. db.users[q.user].password = 0
    BY <1>1, <1>3 DEF PInv, Follows, FollowsIn
  <2> HIDE DEF account
  <2>4. /\ db'.schema = db.schema /\ db'.sessions = db.sessions
        /\ db'.users[q.user] = account
        /\ \A u \in Users \ {q.user} : db'.users[u] = db.users[u]
    <3>1. db.users \in [Users -> Account]
      BY <1>1, DatabaseRows
    <3> QED
      BY <1>1, <2>1, <3>1 DEF Database
  <2>5. SamePasswords(db, db') /\ Closing(db, db')
    BY <2>2, <2>3, <2>4 DEF SamePasswords, Closing
  <2> QED
    BY <1>1, <2>4, <2>5, EndedPasswords
<1> QED
  BY <1>2, <1>3

\* The row that a new session gets, what it replaces closed.
SignedIn(c, d, e) ==
  LET q == tx[c].req
  IN /\ e.schema = d.schema
     /\ e.sessions[issued + 1].user = q.user
     /\ \A t \in Tokens \ {issued + 1} : e.sessions[t].revoked = "no" => e.sessions[t] = d.sessions[t]
     /\ \A u \in Users : e.users[u].state = d.users[u].state
     /\ \A u \in Users \ {q.user} : e.users[u] = d.users[u]

LEMMA SigningInRows ==
  ASSUME IInv, NEW c \in Clients, RecordSuccess(c)
  PROVE  \E upgraded \in BOOLEAN :
           /\ SignedIn(c, db, db')
           /\ db'.users[tx[c].req.user].password =
                IF upgraded THEN tx[c].req.password ELSE db.users[tx[c].req.user].password
           /\ lost' = IF upgraded /\ tx[c].req.password # latest[tx[c].req.user]
                      THEN lost \cup {tx[c].req.user} ELSE lost
<1> DEFINE q == tx[c].req
           k == issued + 1
           closed == RevokeOpen(Attempted(db, c), {q.token}, "rotated")
           row == [user |-> q.user, seen |-> tx[c].now, expires |-> tx[c].now + Absolute,
                   revoked |-> "no"]
           signed == Issued(closed, q.user, tx[c].now)
<1>1. /\ tx[c] \in Transaction /\ db \in Database /\ issued < MaxTokens /\ issued \in 0 .. MaxTokens
  BY AtRequest DEF RecordSuccess, At, IInv, SInv, SessionsTypeOK
<1>2. k \in Tokens
  BY <1>1, SessionsAssumption DEF Tokens
<1>3. PICK upgraded \in BOOLEAN :
        /\ db' = IF upgraded THEN [signed EXCEPT !.users[q.user].password = q.password]
                             ELSE signed
        /\ lost' = IF upgraded /\ q.password # latest[q.user]
                   THEN lost \cup {q.user} ELSE lost
  BY DEF RecordSuccess
<1>4. q.user \in Users
  BY <1>1, Requested
<1>5. /\ closed \in Database /\ closed.users = db.users /\ closed.schema = db.schema
      /\ \A t \in Tokens : closed.sessions[t].revoked = "no" => closed.sessions[t] = db.sessions[t]
  <2>1. /\ Attempted(db, c) \in Database /\ Attempted(db, c).users = db.users
        /\ Attempted(db, c).sessions = db.sessions /\ Attempted(db, c).schema = db.schema
    BY <1>1, AttemptedRows DEF IInv
  <2> QED
    BY <2>1, RevokedRows DEF Reasons
<1> HIDE DEF closed
<1>6. /\ signed = [closed EXCEPT !.sessions[k] = row] /\ row.user = q.user
  BY DEF Issued
<1>7. /\ DOMAIN signed = {"schema", "users", "sessions", "attempts"}
      /\ signed.users = db.users /\ signed.schema = db.schema
      /\ signed.sessions[k] = row
      /\ \A t \in Tokens \ {k} : signed.sessions[t] = closed.sessions[t]
  <2>1. closed.sessions \in [Tokens -> AuthSession \cup {NoRow}]
    BY <1>5, DatabaseRows
  <2> HIDE DEF row, signed
  <2> QED
    BY <1>2, <1>5, <1>6, <2>1 DEF Database
<1> HIDE DEF signed, row
<1>8. /\ db'.schema = signed.schema /\ db'.sessions = signed.sessions
      /\ \A u \in Users : db'.users[u].state = db.users[u].state
      /\ \A u \in Users \ {q.user} : db'.users[u] = db.users[u]
      /\ db'.users[q.user].password = IF upgraded THEN q.password ELSE db.users[q.user].password
  <2>1. CASE ~upgraded
    BY <1>3, <1>7, <2>1
  <2>2. CASE upgraded
    <3>1. db.users \in [Users -> Account] /\ db.users[q.user] \in Account
      BY <1>1, <1>4, DatabaseRows
    <3> DEFINE account == [db.users[q.user] EXCEPT !.password = q.password]
    <3>2. account.password = q.password /\ account.state = db.users[q.user].state
      BY <3>1 DEF Account
    <3>3. db' = [signed EXCEPT !.users = [signed.users EXCEPT ![q.user] = account]]
      BY <1>3, <1>7, <2>2
    <3> HIDE DEF account
    <3> QED
      BY <1>4, <1>7, <2>2, <3>1, <3>2, <3>3
  <2> QED
    BY <2>1, <2>2
<1>9. SignedIn(c, db, db')
  BY <1>5, <1>6, <1>7, <1>8 DEF SignedIn
<1> QED
  BY <1>3, <1>8, <1>9

\* A sign-in opens a session; one that overlaps a reset opens it crossed, and one that
\* hashes an older password anew is lost to the reset.
LEMMA RecordSuccessPasswords ==
  ASSUME IInv, IInv', PInv, NEW c \in Clients, RecordSuccess(c), UNCHANGED recoveryVars
  PROVE  PInv'
<1> DEFINE q == tx[c].req
           k == issued + 1
           p == tx[c].crossed \/ CredentialLocked(c, q.user)
<1>1. /\ tx[c] \in Transaction /\ tx[c].pc = "record" /\ tx[c].succeeded /\ db.schema /\ End(c)
      /\ UNCHANGED <<latest, file>> /\ q.user \in Users /\ issued \in Nat
      /\ q.password \in Passwords
  <2>1. At(c, "record") /\ tx[c].succeeded /\ Writable /\ End(c) /\ UNCHANGED <<latest, file>>
    BY DEF RecordSuccess, recoveryVars
  <2>2. SessionsTypeOK /\ issued \in Nat
    BY Numbers DEF IInv, SInv, SessionsTypeOK
  <2>3. tx[c] \in Transaction
    BY <2>1, <2>2, AtRequest, Requested DEF At
  <2> QED
    BY <2>1, <2>2, <2>3, Requested DEF At, Writable
<1>2. PICK upgraded \in BOOLEAN :
        /\ SignedIn(c, db, db')
        /\ db'.users[q.user].password = IF upgraded THEN q.password ELSE db.users[q.user].password
        /\ lost' = IF upgraded /\ q.password # latest[q.user] THEN lost \cup {q.user} ELSE lost
  BY SigningInRows
<1>3. k \in Tokens
  <2>1. issued < MaxTokens
    BY DEF RecordSuccess
  <2> QED
    BY <1>1, <2>1, Numbers DEF Tokens
<1>4. /\ origin'[k].password = q.password /\ (p => origin'[k].crossed)
      /\ \A t \in Tokens \ {k} : origin'[t] = origin[t]
  <2>1. origin' = [origin EXCEPT ![k] = [password |-> q.password, crossed |-> p]]
    BY DEF RecordSuccess
  <2>2. p \in BOOLEAN
    BY <1>1, Requested
  <2> HIDE DEF p
  <2>3. CASE p
    <3>1. origin' = [origin EXCEPT ![k] = [password |-> q.password, crossed |-> TRUE]]
      BY <2>1, <2>2, <2>3
    <3> QED
      BY <1>3, <3>1 DEF IInv, SInv, SessionsTypeOK
  <2>4. CASE ~p
    BY <1>3, <2>1, <2>4 DEF IInv, SInv, SessionsTypeOK
  <2> QED
    BY <2>3, <2>4
<1>5. /\ db.users[q.user].state # "absent" /\ q.password <= latest[q.user]
      /\ tx[c].crossed \/ q.password = latest[q.user] \/ q.user \in lost
  BY <1>1 DEF PInv, Overlaps
<1>6. \A u \in Users \ lost : db.users[u].password = latest[u]
  BY <1>1 DEF PInv, Stored
<1> HIDE DEF p
<1>7. lost \subseteq lost'
  BY <1>2
<1>8. Follows(db)'
  <2>1. SUFFICES ASSUME NEW u \in Users
                 PROVE  /\ db'.users[u].password <= latest[u]
                        /\ db'.users[u].state = "absent" => db'.users[u].password = 0
                        /\ db'.users[u].password = latest[u] /\ u \notin lost' =>
                             \A t \in Tokens : db'.sessions[t].revoked = "no" /\ db'.sessions[t].user = u =>
                               origin'[t].password = latest[u] \/ origin'[t].crossed
    BY <1>1, Zenon DEF Follows, FollowsIn
  <2>2. /\ db.users[u].password <= latest[u]
        /\ db.users[u].state = "absent" => db.users[u].password = 0
        /\ db.users[u].password = latest[u] /\ u \notin lost =>
             \A t \in Tokens : db.sessions[t].revoked = "no" /\ db.sessions[t].user = u =>
               origin[t].password = latest[u] \/ origin[t].crossed
    BY DEF PInv, Follows, FollowsIn
  <2>3. /\ db'.users[u].state = db.users[u].state
        /\ u # q.user => db'.users[u] = db.users[u]
    BY <1>2 DEF SignedIn
  <2>4. /\ db'.users[u].password <= latest[u]
        /\ db'.users[u].state = "absent" => db'.users[u].password = 0
    BY <1>2, <1>5, <2>2, <2>3
  <2>5. ASSUME u \notin lost', NEW t \in Tokens, db'.sessions[t].revoked = "no", db'.sessions[t].user = u
        PROVE  origin'[t].password = latest[u] \/ origin'[t].crossed
    <3>1. CASE t = k
      <4>1. u = q.user
        BY <1>2, <2>5, <3>1 DEF SignedIn
      <4>2. tx[c].crossed \/ q.password = latest[q.user]
        BY <1>5, <1>7, <2>5, <4>1
      <4> QED
        BY <1>4, <3>1, <4>1, <4>2 DEF p
    <3>2. CASE t # k
      <4>1. db'.sessions[t] = db.sessions[t]
        BY <1>2, <2>5, <3>2 DEF SignedIn
      <4>2. u \notin lost /\ db.users[u].password = latest[u]
        BY <1>6, <1>7, <2>5
      <4> QED
        BY <1>4, <2>2, <2>5, <3>2, <4>1, <4>2
    <3> QED
      BY <3>1, <3>2
  <2> QED
    BY <2>4, <2>5
<1>9. Stored'
  <2>1. ASSUME NEW u \in Users \ lost' PROVE db'.users[u].password = latest[u]
    <3>1. u \notin lost /\ db.users[u].password = latest[u]
      BY <1>6, <1>7
    <3>2. u # q.user => db'.users[u] = db.users[u]
      BY <1>2 DEF SignedIn
    <3> QED
      BY <1>2, <3>1, <3>2
  <2> QED
    BY <1>1, <1>2, <2>1 DEF Stored, SignedIn
<1>10. ASSUME NEW d \in Clients PROVE Overlaps(tx[d])'
  <2>1. CASE d = c
    <3>1. tx'[d] = NoTx
      BY <1>1, <2>1, EndHolds DEF IInv
    <3> QED
      BY <3>1, Requested DEF Overlaps
  <2>2. CASE d # c
    <3>1. tx'[d] = tx[d] /\ Overlaps(tx[d])
      BY <1>1, <2>2, EndHolds DEF IInv, PInv
    <3>2. tx[d].pc \in Risky =>
            /\ tx[d] \in Transaction /\ tx[d].req.user \in Users
            /\ db'.users[tx[d].req.user].state = db.users[tx[d].req.user].state
      BY <1>2, AtRequest, Requested DEF Risky, IInv, SInv, SignedIn
    <3>3. ASSUME tx[d].pc = "revoke", tx[d].req.op = "reset", NEW t \in OpenSessions(tx[d].req.user)'
          PROVE  t \in tx[d].targets \/ origin'[t].crossed
      <4>1. t \in Tokens /\ db'.sessions[t].revoked = "no" /\ db'.sessions[t].user = tx[d].req.user
        BY <3>1, <3>3 DEF OpenSessions
      <4>2. CASE t = k
        <5>1. tx[d].req.user = q.user
          BY <1>2, <4>1, <4>2 DEF SignedIn
        <5>2. CredentialLocked(c, q.user)
          BY <2>2, <3>3, <5>1 DEF CredentialLocked, Others, At
        <5> QED
          BY <1>4, <4>2, <5>2 DEF p
      <4>3. CASE t # k
        <5>1. t \in OpenSessions(tx[d].req.user)
          BY <1>2, <4>1, <4>3 DEF SignedIn, OpenSessions
        <5> QED
          BY <1>4, <3>1, <3>3, <4>1, <4>3, <5>1 DEF Overlaps
      <4> QED
        BY <4>2, <4>3
    <3> QED
      BY <1>1, <1>7, <3>1, <3>2, <3>3 DEF Overlaps, Risky
  <2> QED
    BY <2>1, <2>2
<1>11. PasswordsArchived'
  <2>1. SUFFICES ASSUME NEW a \in Archives, file[a].state = "dumped"
                 PROVE  FollowsIn(file[a].content, origin', latest, lost')
    BY <1>1 DEF PasswordsArchived, Follows
  <2>2. FollowsIn(file[a].content, origin, latest, lost)
    BY <2>1 DEF PInv, PasswordsArchived, Follows
  <2>3. ASSUME NEW t \in Tokens, file[a].content.sessions[t].revoked = "no" PROVE origin'[t] = origin[t]
    <3>1. t <= issued
      BY <2>1, <2>3, SessionRows DEF IInv, RInv, Files, GoodFile, Numbered
    <3>2. t # k
      BY <1>1, <3>1, Numbers
    <3> QED
      BY <1>4, <3>2
  <2> QED
    BY <1>7, <2>2, <2>3, SameDatabase, Following
<1> QED
  BY <1>8, <1>9, <1>10, <1>11 DEF PInv

\* What the commit of a reset or a deactivation leaves.
LEMMA RevokedDatabase ==
  ASSUME IInv, NEW c \in Clients, Revoke(c)
  PROVE  LET q == tx[c].req
             u == db.users[q.user]
         IN /\ db'.schema = db.schema
            /\ \A t \in Tokens : db'.sessions[t].revoked = "no" =>
                 db'.sessions[t] = db.sessions[t] /\ t \notin tx[c].targets
            /\ \A v \in Users \ {q.user} : db'.users[v] = db.users[v]
            /\ IF q.op = "reset" THEN /\ db'.users[q.user].password = latest[q.user] + 1
                                      /\ db'.users[q.user].state = u.state
               ELSE /\ db'.users[q.user].password = u.password
                    /\ db'.users[q.user].state = "inactive"
<1> DEFINE q == tx[c].req
           reset == q.op = "reset"
           reason == IF reset THEN "password_reset" ELSE "account_deactivated"
           revoked == RevokeOpen(db, tx[c].targets, reason)
           account == IF reset THEN [db.users[q.user] EXCEPT !.password = latest[q.user] + 1]
                      ELSE [db.users[q.user] EXCEPT !.state = "inactive"]
<1>1. tx[c] \in Transaction /\ db \in Database /\ q.user \in Users
  BY AtRequest, Requested DEF Revoke, At, IInv, SInv, SessionsTypeOK
<1>2. /\ revoked \in Database /\ revoked.users = db.users /\ revoked.schema = db.schema
      /\ \A t \in Tokens : revoked.sessions[t].revoked = "no" =>
           revoked.sessions[t] = db.sessions[t] /\ t \notin tx[c].targets
  <2>1. reason \in Reasons /\ reason # "no"
    BY DEF Reasons
  <2> HIDE DEF reason, account, reset, q
  <2> QED
    BY <1>1, <2>1, RevokedRows
<1>3. db' = IF reset THEN [revoked EXCEPT !.users[q.user].password = latest[q.user] + 1]
            ELSE [revoked EXCEPT !.users[q.user].state = "inactive"]
  BY DEF Revoke
<1> HIDE DEF revoked
<1>4. db.users \in [Users -> Account] /\ db.users[q.user] \in Account
  BY <1>1, DatabaseRows
<1>5. db' = [revoked EXCEPT !.users[q.user] = account]
  <2>1. CASE reset
    BY <1>1, <1>2, <1>3, <1>4, <2>1 DEF Database
  <2>2. CASE ~reset
    BY <1>1, <1>2, <1>3, <1>4, <2>2 DEF Database
  <2> QED
    BY <2>1, <2>2
<1>6. IF reset THEN account.password = latest[q.user] + 1 /\ account.state = db.users[q.user].state
      ELSE account.password = db.users[q.user].password /\ account.state = "inactive"
  BY <1>4 DEF Account
<1> HIDE DEF account
<1>7. /\ db'.schema = db.schema /\ db'.sessions = revoked.sessions
      /\ db'.users[q.user] = account
      /\ \A v \in Users \ {q.user} : db'.users[v] = db.users[v]
  BY <1>1, <1>2, <1>4, <1>5 DEF Database
<1> QED
  BY <1>2, <1>6, <1>7

\* A deactivation closes sessions and changes no password.
LEMMA DeactivatePasswords ==
  ASSUME IInv, IInv', PInv, NEW c \in Clients, Revoke(c), tx[c].req.op # "reset",
         UNCHANGED recoveryVars
  PROVE  PInv'
<1>1. /\ db.schema /\ UNCHANGED <<origin, latest, lost, file>> /\ tx[c] \in Transaction
      /\ tx[c].req.user \in Users
  BY AtRequest, Requested DEF Revoke, At, IInv, SInv, Writable, recoveryVars
<1>2. SamePasswords(db, db') /\ Closing(db, db') /\ db'.schema = db.schema
  BY RevokedDatabase DEF SamePasswords, Closing
<1>3. tx' = [d \in Clients |-> IF d = c THEN NoTx ELSE tx[d]]
  BY DEF Revoke
<1>4. \A d \in Clients : tx'[d] = tx[d] \/ tx'[d].pc \notin Risky
  BY <1>3, Requested DEF Risky
<1> QED
  BY <1>1, <1>2, <1>4, RequestPasswords

\* A reset closes every session it has seen; the others, and the sign-ins that are past
\* their check, overlap it.
LEMMA ResetPasswords ==
  ASSUME IInv, IInv', PInv, NEW c \in Clients, Revoke(c), tx[c].req.op = "reset",
         UNCHANGED recoveryVars
  PROVE  PInv'
<1> DEFINE w == tx[c].req.user
<1>1. /\ tx[c] \in Transaction /\ tx[c].pc = "revoke" /\ db.schema /\ w \in Users
      /\ UNCHANGED <<origin, file>>
  BY AtRequest, Requested DEF Revoke, At, IInv, SInv, Writable, recoveryVars
<1>2. /\ latest' = [latest EXCEPT ![w] = @ + 1] /\ lost' = lost \ {w}
      /\ tx' = [d \in Clients |->
                 IF d = c THEN NoTx
                 ELSE IF At(d, "record") /\ tx[d].req.user = w
                      THEN [tx[d] EXCEPT !.crossed = TRUE] ELSE tx[d]]
  BY DEF Revoke
<1>3. /\ \A u \in Users : latest[u] \in Nat
      /\ latest'[w] = latest[w] + 1 /\ \A u \in Users \ {w} : latest'[u] = latest[u]
  BY <1>1, <1>2, Numbers DEF IInv, SInv, SessionsTypeOK
<1>4. /\ db'.schema = db.schema
      /\ \A t \in Tokens : db'.sessions[t].revoked = "no" =>
           db'.sessions[t] = db.sessions[t] /\ t \notin tx[c].targets
      /\ \A v \in Users \ {w} : db'.users[v] = db.users[v]
      /\ db'.users[w].password = latest[w] + 1 /\ db'.users[w].state = db.users[w].state
  BY RevokedDatabase
<1>5. /\ db.users[w].state # "absent"
      /\ \A k \in OpenSessions(w) : k \in tx[c].targets \/ origin[k].crossed
  BY <1>1 DEF PInv, Overlaps
<1>6. Follows(db)'
  <2>1. SUFFICES ASSUME NEW u \in Users
                 PROVE  /\ db'.users[u].password <= latest'[u]
                        /\ db'.users[u].state = "absent" => db'.users[u].password = 0
                        /\ db'.users[u].password = latest'[u] /\ u \notin lost' =>
                             \A t \in Tokens : db'.sessions[t].revoked = "no" /\ db'.sessions[t].user = u =>
                               origin[t].password = latest'[u] \/ origin[t].crossed
    BY <1>1, Zenon DEF Follows, FollowsIn
  <2>2. CASE u = w
    <3>1. ASSUME NEW t \in Tokens, db'.sessions[t].revoked = "no", db'.sessions[t].user = w
          PROVE  origin[t].crossed
      <4>1. t \in OpenSessions(w) /\ t \notin tx[c].targets
        BY <1>4, <3>1 DEF OpenSessions
      <4> QED
        BY <1>5, <4>1
    <3>2. db'.users[u].password = latest'[u] /\ latest'[u] \in Nat
      BY <1>3, <1>4, <2>2
    <3>3. db'.users[u].state # "absent"
      BY <1>4, <1>5, <2>2
    <3>4. db'.users[u].password <= latest'[u]
      BY <3>2
    <3> QED
      BY <2>2, <3>1, <3>3, <3>4
  <2>3. CASE u # w
    <3>1. /\ db.users[u].password <= latest[u]
          /\ db.users[u].state = "absent" => db.users[u].password = 0
          /\ db.users[u].password = latest[u] /\ u \notin lost =>
               \A t \in Tokens : db.sessions[t].revoked = "no" /\ db.sessions[t].user = u =>
                 origin[t].password = latest[u] \/ origin[t].crossed
      BY DEF PInv, Follows, FollowsIn
    <3>2. db'.users[u] = db.users[u] /\ latest'[u] = latest[u] /\ (u \notin lost' => u \notin lost)
      BY <1>2, <1>3, <1>4, <2>3
    <3>3. \A t \in Tokens : db'.sessions[t].revoked = "no" => db'.sessions[t] = db.sessions[t]
      BY <1>4
    <3>4. \A t \in Tokens : db'.sessions[t].revoked = "no" /\ db'.sessions[t].user = u =>
            db.sessions[t].revoked = "no" /\ db.sessions[t].user = u
      BY <3>3
    <3>5. db.users[u].password = latest[u] /\ u \notin lost' =>
            \A t \in Tokens : db'.sessions[t].revoked = "no" /\ db'.sessions[t].user = u =>
              origin[t].password = latest[u] \/ origin[t].crossed
      BY <3>1, <3>2, <3>4
    <3> QED
      BY <3>1, <3>2, <3>5
  <2> QED
    BY <2>2, <2>3
<1>7. Stored'
  <2>1. \A u \in Users \ lost' : db'.users[u].password = latest'[u]
    BY <1>1, <1>2, <1>3, <1>4 DEF PInv, Stored
  <2> QED
    BY <1>1, <1>4, <2>1 DEF Stored
<1>8. ASSUME NEW d \in Clients PROVE Overlaps(tx[d])'
  <2>1. CASE d = c
    <3>1. tx'[d] = NoTx
      BY <1>2, <2>1
    <3> QED
      BY <3>1, Requested DEF Overlaps
  <2>2. CASE d # c /\ tx[d].pc = "record" /\ tx[d].req.user = w
    <3>1. tx'[d] = [tx[d] EXCEPT !.crossed = TRUE] /\ tx[d] \in Transaction
      BY <1>2, <2>2, AtRequest DEF At, IInv, SInv
    <3>2. /\ tx'[d].pc = "record" /\ tx'[d].req = tx[d].req /\ tx'[d].crossed
          /\ tx'[d].succeeded = tx[d].succeeded
      BY <2>2, <3>1 DEF Transaction
    <3>3. tx[d].req.password \in Nat /\ Overlaps(tx[d])
      BY <3>1, Requested, Numbers DEF PInv
    <3> QED
      BY <1>1, <1>3, <1>4, <2>2, <3>2, <3>3, SMTT(30) DEF Overlaps
  <2>3. CASE d # c /\ ~(tx[d].pc = "record" /\ tx[d].req.user = w)
    <3>1. tx'[d] = tx[d] /\ Overlaps(tx[d])
      BY <1>2, <2>3 DEF At, PInv
    <3>2. CASE tx[d].pc \notin Risky
      BY <3>1, <3>2 DEF Overlaps, Risky
    <3>3. CASE tx[d].pc \in Risky
      <4>1. tx[d] \in Transaction /\ tx[d].req.user \in Users
        BY <3>3, AtRequest, Requested DEF Risky, IInv, SInv
      <4>2. db'.users[tx[d].req.user].state = db.users[tx[d].req.user].state
        BY <1>4, <4>1
      <4>3. OpenSessions(tx[d].req.user)' \subseteq OpenSessions(tx[d].req.user)
        BY <1>4, <3>1 DEF OpenSessions
      <4>4. CASE tx[d].pc = "record"
        <5>1. tx[d].req.user # w
          BY <2>3, <4>4
        <5>2. latest'[tx[d].req.user] = latest[tx[d].req.user]
              /\ (tx[d].req.user \in lost => tx[d].req.user \in lost')
          BY <1>2, <1>3, <4>1, <5>1
        <5> QED
          BY <3>1, <4>2, <4>4, <5>2 DEF Overlaps
      <4>5. CASE tx[d].pc = "revoke"
        BY <1>1, <3>1, <4>2, <4>3, <4>5 DEF Overlaps
      <4> QED
        BY <3>3, <4>4, <4>5 DEF Risky
    <3> QED
      BY <3>2, <3>3
  <2> QED
    BY <2>1, <2>2, <2>3
<1>9. PasswordsArchived'
  <2>1. SUFFICES ASSUME NEW a \in Archives, file[a].state = "dumped"
                 PROVE  FollowsIn(file[a].content, origin, latest', lost')
    BY <1>1 DEF PasswordsArchived, Follows
  <2> DEFINE d == file[a].content
  <2>2. FollowsIn(d, origin, latest, lost)
    BY <2>1 DEF PInv, PasswordsArchived, Follows
  <2>3. d \in Database
    BY <2>1 DEF IInv, RInv, RecoveryTypes, ArchiveFiles, NoFile, Touched
  <2> HIDE DEF d
  <2>4. SUFFICES ASSUME NEW u \in Users
                 PROVE  /\ d.users[u].password <= latest'[u]
                        /\ d.users[u].state = "absent" => d.users[u].password = 0
                        /\ d.users[u].password = latest'[u] /\ u \notin lost' =>
                             \A t \in Tokens : d.sessions[t].revoked = "no" /\ d.sessions[t].user = u =>
                               origin[t].password = latest'[u] \/ origin[t].crossed
    BY Zenon DEF FollowsIn, d
  <2>5. /\ d.users[u].password <= latest[u] /\ d.users[u].password \in Nat
        /\ d.users[u].state = "absent" => d.users[u].password = 0
        /\ d.users[u].password = latest[u] /\ u \notin lost =>
             \A t \in Tokens : d.sessions[t].revoked = "no" /\ d.sessions[t].user = u =>
               origin[t].password = latest[u] \/ origin[t].crossed
    BY <2>2, <2>3, DatabaseRows, Numbers DEF FollowsIn
  <2>6. CASE u = w
    <3>1. latest[u] \in Nat /\ latest'[u] = latest[u] + 1
      BY <1>3, <2>6
    <3>2. d.users[u].password <= latest'[u] /\ d.users[u].password # latest'[u]
      BY <2>5, <3>1
    <3> QED
      BY <2>5, <3>2
  <2>7. CASE u # w
    BY <1>2, <1>3, <2>5, <2>7
  <2> QED
    BY <2>6, <2>7
<1> QED
  BY <1>6, <1>7, <1>8, <1>9 DEF PInv

LEMMA SessionsPasswords ==
  ASSUME IInv, IInv', PInv, SessionsNext, UNCHANGED recoveryVars
  PROVE  PInv'
<1>1. CASE Tick
  BY <1>1, TickPasswords
<1>2. ASSUME NEW c \in Clients, SignIn(c) PROVE PInv'
  BY <1>2, ReadingPasswords, VerifyPasswords, RecordFailurePasswords, RecordSuccessPasswords
     DEF SignIn, Reading
<1>3. ASSUME NEW c \in Clients, UseSession(c) PROVE PInv'
  BY <1>3, ReadingPasswords, AnswerPasswords, LogoutPasswords DEF UseSession, Reading
<1>4. ASSUME NEW c \in Clients, ChangeAccounts(c) PROVE PInv'
  BY <1>4, BeginRevokingPasswords, DeactivatePasswords, ResetPasswords, ReadingPasswords,
     CreatePasswords DEF ChangeAccounts, Reading
<1>5. ASSUME NEW c \in Clients, Arrive(c) \/ Lose(c) PROVE PInv'
  BY <1>5, ArrivePasswords, ReadingPasswords DEF Reading
<1> QED
  BY <1>1, <1>2, <1>3, <1>4, <1>5 DEF SessionsNext

\* Where requests and their history stay.
LEMMA SamePasswordsKept ==
  ASSUME IInv, IInv', PInv, UNCHANGED <<tx, origin, latest, lost>>, db'.schema = db.schema,
         SamePasswords(db, db'), Closing(db, db'), ~db.schema => db' = db,
         \A a \in Archives : file'[a].state = "dumped" => Follows(file'[a].content)
  PROVE  PInv'
<1>1. \A c \in Clients : tx'[c] = tx[c]
  OBVIOUS
<1> QED
  BY <1>1, PasswordsKept

LEMMA BackupPasswords ==
  ASSUME IInv, IInv', PInv, BackupStep
  PROVE  PInv'
<1>1. UNCHANGED <<db, tx, origin, latest, lost>>
  BY DEF BackupStep, StartBackup, Dump, DumpFails, TakeInventory, WriteManifest, KillBackup,
     BackupKeeps, history
<1>2. \A a \in Archives : file'[a].state = "dumped" => Follows(file'[a].content)
  BY BackupFiles DEF PInv, PasswordsArchived
<1> QED
  BY <1>1, <1>2, SameDatabase, SamePasswordsKept

LEMMA LossPasswords ==
  ASSUME IInv, IInv', PInv, Loss
  PROVE  PInv'
<1>1. /\ db' = EmptyDatabase /\ tx' = [c \in Clients |-> NoTx]
      /\ UNCHANGED <<origin, latest, lost, file>>
  BY DEF Loss, history
<1>2. /\ ~db'.schema /\ \A t \in Tokens : db'.sessions[t].revoked # "no"
      /\ \A u \in Users : db'.users[u].state = "absent" /\ db'.users[u].password = 0
  BY <1>1, SessionRows DEF EmptyDatabase
<1>3. \A u \in Users : latest[u] \in Nat
  BY Numbers DEF IInv, SInv, SessionsTypeOK
<1>4. Follows(db)' /\ Stored'
  BY <1>1, <1>2, <1>3 DEF Follows, FollowsIn, Stored
<1>5. \A c \in Clients : Overlaps(tx[c])'
  BY <1>1, Requested DEF Overlaps
<1>6. PasswordsArchived'
  BY <1>1 DEF PInv, PasswordsArchived, Follows
<1> QED
  BY <1>4, <1>5, <1>6 DEF PInv

LEMMA OverwritePasswords ==
  ASSUME IInv, IInv', PInv, NEW a \in Archives, NEW b \in Archives, Overwrite(a, b)
  PROVE  PInv'
<1> DEFINE g == [file[a] EXCEPT !.content = file[b].content]
<1>1. /\ file \in [Archives -> {NoFile, Touched} \cup ArchiveFiles]
      /\ file[a].state = "dumped" /\ file[b].state = "dumped"
      /\ file' = [file EXCEPT ![a] = g] /\ UNCHANGED <<db, tx, origin, latest, lost>>
  BY DEF IInv, RInv, RecoveryTypes, Overwrite, vars, history
<1>2. g.content = file[b].content
  <2>1. file[a] \in ArchiveFiles
    BY <1>1 DEF NoFile, Touched
  <2> QED
    BY <2>1 DEF ArchiveFiles
<1> HIDE DEF g
<1>3. \A x \in Archives : file'[x].state = "dumped" => Follows(file'[x].content)
  BY <1>1, <1>2 DEF PInv, PasswordsArchived
<1> QED
  BY <1>1, <1>3, SameDatabase, SamePasswordsKept

\* A restore brings the passwords of its archive back; where one is older than the last
\* reset, that reset is lost.
LEMMA ChildCommitsPasswords ==
  ASSUME IInv, IInv', GInv, PInv, NEW r \in Operators, ChildCommits(r)
  PROVE  PInv'
<1>1. /\ child[r].state = "running" /\ ~db.schema /\ db' = file[child[r].archive].content
      /\ lost' = lost \cup {u \in Users : db'.users[u].password # latest[u]}
      /\ UNCHANGED <<tx, origin, latest, file>>
  BY DEF ChildCommits
<1>2. child[r].archive \in Archives /\ file[child[r].archive].state = "dumped"
  <2>1. child[r].archive \in Archives
    BY <1>1 DEF IInv, RInv, RecoveryTypes
  <2> QED
    BY <1>1, <2>1, SameChild DEF Verified
<1>3. lost \subseteq lost'
  BY <1>1
<1>4. ASSUME NEW d, Follows(d) PROVE FollowsIn(d, origin, latest, lost')
  BY <1>3, <1>4, SameDatabase, Following DEF Follows
<1>5. Follows(db)' /\ PasswordsArchived'
  BY <1>1, <1>2, <1>4 DEF PInv, PasswordsArchived, Follows
<1>6. db'.schema
  BY <1>1, <1>2 DEF IInv, RInv, Files, GoodFile
<1>7. Stored'
  BY <1>1, <1>6 DEF Stored
<1>8. \A c \in Clients : tx[c].pc \notin Risky
  BY <1>1 DEF GInv, NoneSigningIn, SigningIn, IInv, SInv, Blank, Past, Risky
<1>9. \A c \in Clients : Overlaps(tx[c])'
  BY <1>1, <1>8 DEF Overlaps, Risky
<1> QED
  BY <1>5, <1>7, <1>9 DEF PInv

LEMMA RestorePasswords ==
  ASSUME IInv, IInv', GInv, PInv, NEW r \in Operators, RestoreStep(r)
  PROVE  PInv'
<1>1. CASE ChildCommits(r)
  BY <1>1, ChildCommitsPasswords
<1>2. CASE ~ChildCommits(r)
  <2>1. RestoreKeeps /\ (db' = db \/ (db' = AllRevoked(db) /\ restore[r].pc = "revoke"))
    BY <1>2 DEF RestoreStep, StartRestore, Own, ProveEmpty, Guard, ChildFails, ReadExit,
       RevokeAll, VerifyDomain, ConfirmRevoked, Unblock, KillRestore
  <2>2. db'.schema = db.schema /\ SamePasswords(db, db') /\ Closing(db, db')
    <3>1. CASE db' = db
      BY <3>1, SameDatabase
    <3>2. CASE db' = AllRevoked(db)
      <4>1. db \in Database /\ "database_restore" \in Reasons
        BY DEF IInv, SInv, SessionsTypeOK, Reasons
      <4> QED
        BY <3>2, <4>1, RevokedRows DEF AllRevoked, SamePasswords, Closing
    <3> QED
      BY <2>1, <3>1, <3>2
  <2>3. ~db.schema => db' = db
    BY <2>1 DEF IInv, RInv, Restoring, AfterCommit
  <2>4. \A a \in Archives : file'[a].state = "dumped" => Follows(file'[a].content)
    BY <2>1 DEF RestoreKeeps, PInv, PasswordsArchived
  <2> QED
    BY <2>1, <2>2, <2>3, <2>4, SamePasswordsKept DEF RestoreKeeps, history
<1> QED
  BY <1>1, <1>2

LEMMA PasswordsInitially == ASSUME Init PROVE PInv
<1>1. /\ scenario \in Scenarios /\ db = scenario.db /\ tx = [c \in Clients |-> NoTx]
      /\ file = [a \in Archives |-> NoFile]
      /\ origin = [t \in Tokens |-> [password |-> 0, crossed |-> FALSE]]
      /\ latest = [u \in Users |-> 0] /\ lost = {}
  BY DEF Init, SessionsInit
<1>2. /\ \A u \in Users : db.users[u].password = 0 /\ latest[u] = 0
      /\ \A t \in Tokens : origin[t].password = 0
      /\ db.schema
  BY <1>1, SessionsAssumption
<1>3. Follows(db) /\ Stored
  BY <1>2 DEF Follows, FollowsIn, Stored
<1>4. \A c \in Clients : Overlaps(tx[c])
  BY <1>1, Requested DEF Overlaps
<1>5. PasswordsArchived
  BY <1>1 DEF PasswordsArchived, NoFile
<1> QED
  BY <1>3, <1>4, <1>5 DEF PInv

LEMMA PasswordsInductive == ASSUME IInv, IInv', GInv, PInv, [Next]_allVars PROVE PInv'
<1>1. CASE SessionsNext /\ UNCHANGED recoveryVars
  BY <1>1, SessionsPasswords
<1>2. CASE \E a, b \in Archives : Overwrite(a, b)
  BY <1>2, OverwritePasswords
<1>3. CASE \E r \in Operators : RestoreStep(r)
  BY <1>3, RestorePasswords
<1>4. CASE UNCHANGED allVars
  BY <1>4, SameDatabase, SamePasswordsKept
     DEF allVars, vars, history, recoveryVars, PInv, PasswordsArchived
<1> QED
  BY <1>1, <1>2, <1>3, <1>4, BackupPasswords, LossPasswords DEF Next

\* The stored password is that of the last reset, and every open session comes from it or
\* from a sign-in that overlapped the reset.
THEOREM ResetsEndSessions == Spec => []ResetEndsEarlierSessions
<1>1. ASSUME IInv, PInv PROVE ResetEndsEarlierSessions
  <2>1. SUFFICES ASSUME NEW u \in Users \ lost
                 PROVE  /\ db.users[u].state # "absent" => db.users[u].password = latest[u]
                        /\ \A t \in OpenSessions(u) : origin[t].password = latest[u] \/ origin[t].crossed
    BY DEF ResetEndsEarlierSessions
  <2>2. CASE db.schema
    <3>1. db.users[u].password = latest[u]
      BY <1>1, <2>2 DEF PInv, Stored
    <3> QED
      BY <1>1, <3>1 DEF PInv, Follows, FollowsIn, OpenSessions
  <2>3. CASE ~db.schema
    <3>1. \A t \in Tokens : db.sessions[t] = NoRow
      BY <1>1, <2>3 DEF IInv, SInv, Blank
    <3> QED
      BY <1>1, <2>3, <3>1, SessionRows DEF PInv, Stored, OpenSessions
  <2> QED
    BY <2>2, <2>3
<1>2. Init => IInv /\ GInv /\ PInv
  BY Initially, GuessesInitially, PasswordsInitially
<1>3. IInv /\ GInv /\ PInv /\ [Next]_allVars => (IInv /\ GInv /\ PInv)'
  BY Inductive, GuessesInductive, PasswordsInductive
<1> QED
  BY <1>1, <1>2, <1>3, PTL DEF Spec
==============================================================================
