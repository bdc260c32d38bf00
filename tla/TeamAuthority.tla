---------------------------- MODULE TeamAuthority ---------------------------
(***************************************************************************)
(* Who may act in a game, changed by administrators while players act:     *)
(* the transactions of admin_access.py, identity.deactivate_user and       *)
(* workspace_service.execute, at the grain of their PostgreSQL row locks.  *)
(*                                                                         *)
(* A client runs one transaction at a time.  It takes its game locks in    *)
(* order, then its user locks (FOR UPDATE) in order, then reads what it    *)
(* decides on; inserting a row that references a user takes a share of     *)
(* that user's row (FOR KEY SHARE), which waits for FOR UPDATE.  Reads see *)
(* committed rows and the transaction's own writes (READ COMMITTED); the   *)
(* writes are kept in the request until Commit.  A lock wait ends by       *)
(* acquisition or by an abort: statement_timeout or the deadlock detector. *)
(*                                                                         *)
(* A game has one team, in every governing configuration.  Access requests *)
(* and global roles exist from the start; deactivation is final in this    *)
(* code.  What a workspace command writes is the subject of Workspace; here *)
(* it only commits.  "Fault" marks a plausible bug, as in Workspace.       *)
(***************************************************************************)
EXTENDS Integers, FiniteSets

CONSTANTS
  Users,         \* accounts, numbered in the order execute locks them
  Games,         \* games, numbered in the order deactivate_user locks them
  SystemAdmins,  \* holders of the global role
  Clients,       \* concurrent requests
  Offered,       \* requests a client may make
  Worlds,        \* committed rows to start from
  Attempts,      \* run_retryable: attempts at one deactivation
  MaxRequests    \* bound: requests in one behaviour

Authorities == {"member", "submitter"}
Roles == {"game_admin", "adjudicator"}

\* Committed rows.  A user is inactive, pending or neither; "member" of the one
\* team of a game; and has asked for access to a game or not.
World ==
  [users : [Users -> {"active", "pending", "inactive"}],
   members : [Games -> [Users -> Authorities \cup {"none"}]],
   roles : [Roles -> [Games -> SUBSET Users]],
   access : [Users -> [game : Games, status : {"none", "pending", "approved", "denied"}]],
   blocked : [Games -> BOOLEAN]]

Commands == {"edit", "submit", "decide"}
Grants == {"grant", "approve", "add_role"}

\* user: the one a request is about, or the new owner an edit names (the actor when
\* it names none); from: the submitter that replace expects; as, role: what it
\* grants, or "none".
Request ==
  [op : Commands \cup Grants \cup
          {"deny", "change", "remove", "remove_role", "replace", "deactivate"},
   actor : Users, game : Games, user : Users, from : Users,
   as : Authorities \cup {"none"}, role : Roles \cup {"none"}]

Active(w, u) == w.users[u] = "active"

Submitters(w, g) == {u \in Users : w.members[g][u] = "submitter"}

\* team_authority.active_submitter_teams: the team of g is one of them.
HasActiveSubmitter(w, g) == \E u \in Submitters(w, g) : Active(w, u)

ASSUME AuthorityAssumption ==
  /\ Users \subseteq Nat /\ Games \subseteq Nat /\ SystemAdmins \subseteq Users
  /\ Offered \subseteq Request /\ Worlds \subseteq World
  /\ IsFiniteSet(Users)
  /\ Attempts \in Nat \ {0} /\ MaxRequests \in Nat
  /\ \A w \in Worlds, g \in Games :
       /\ w.blocked[g] <=> ~HasActiveSubmitter(w, g)
       /\ Cardinality(Submitters(w, g)) <= 1
       /\ \A u \in Users : w.users[u] = "pending" => w.members[g][u] = "none"

VARIABLES
  world,   \* committed rows
  tx,      \* the transaction of each client
  started  \* requests so far

vars == <<world, tx, started>>

Idle == [pc |-> "idle"]

\* wants: locks still to take; found: the games deactivate_user discovered;
\* blocks: what reconcile_team_state computed; tries: attempts made before.
Transaction ==
  [pc : {"discover", "lock", "flush", "commit"}, req : Request,
   wantGames : SUBSET Games, wantUsers : SUBSET Users, wantShares : SUBSET Users,
   games : SUBSET Games, update : SUBSET Users, share : SUBSET Users,
   found : SUBSET Games, blocks : SUBSET Games, tries : 0 .. (Attempts - 1)]

TypeOK ==
  /\ world \in World
  /\ tx \in [Clients -> {Idle} \cup Transaction]
  /\ started \in 0 .. MaxRequests

Init ==
  /\ world \in Worlds
  /\ tx = [c \in Clients |-> Idle]
  /\ started = 0

Running(c) == tx[c].pc # "idle"

-----------------------------------------------------------------------------
(***************************************************************************)
(* Row locks.                                                              *)
(***************************************************************************)
Least(S) == CHOOSE m \in S : \A n \in S : m <= n

Others(c) == {d \in Clients \ {c} : Running(d)}

GameHolders(c, g) == {d \in Others(c) : g \in tx[d].games}

UpdateHolders(c, u) == {d \in Others(c) : u \in tx[d].update}

ShareHolders(c, u) == {d \in Others(c) : u \in tx[d].share}

\* Those c waits for: the holders of the one lock it asks for next.
WaitsFor(c) ==
  CASE ~Running(c) -> {}
    [] tx[c].pc = "lock" /\ tx[c].wantGames # {} ->
         GameHolders(c, Least(tx[c].wantGames))
    [] tx[c].pc = "lock" /\ tx[c].wantGames = {} /\ tx[c].wantUsers # {} ->
         LET u == Least(tx[c].wantUsers) IN UpdateHolders(c, u) \cup ShareHolders(c, u)
    [] tx[c].pc \in {"flush", "commit"} /\ tx[c].wantShares # {} ->
         UpdateHolders(c, Least(tx[c].wantShares))
    [] OTHER -> {}

Become(c, t) == tx' = [tx EXCEPT ![c] = t] /\ UNCHANGED started

Proceed(c, t) == Become(c, t) /\ UNCHANGED world

\* lock_game and the sorted game locks of deactivate_user.
LockGame(c) ==
  LET g == Least(tx[c].wantGames)
  IN /\ tx[c].pc = "lock" /\ tx[c].wantGames # {}
     /\ WaitsFor(c) = {}
     /\ Proceed(c, [tx[c] EXCEPT !.games = @ \cup {g}, !.wantGames = @ \ {g}])

\* The sorted user locks, FOR UPDATE.
LockUser(c) ==
  LET u == Least(tx[c].wantUsers)
  IN /\ tx[c].pc = "lock" /\ tx[c].wantGames = {} /\ tx[c].wantUsers # {}
     /\ WaitsFor(c) = {}
     /\ Proceed(c, [tx[c] EXCEPT !.update = @ \cup {u}, !.wantUsers = @ \ {u}])

\* The foreign keys of a flushed row, and the row update of an approved user.
ShareUser(c) ==
  LET u == Least(tx[c].wantShares)
  IN /\ tx[c].pc \in {"flush", "commit"} /\ tx[c].wantShares # {}
     /\ WaitsFor(c) = {}
     /\ Proceed(c, [tx[c] EXCEPT !.share = @ \cup {u}, !.wantShares = @ \ {u}])

\* A wait is cut off; the transaction rolls back and its locks are gone.
Abort(c) == WaitsFor(c) # {} /\ Proceed(c, Idle)

Refuse(c) == Proceed(c, Idle)

-----------------------------------------------------------------------------
(***************************************************************************)
(* What a request needs and does.                                          *)
(***************************************************************************)
IsGameAdmin(w, u, g) == u \in SystemAdmins \cup w.roles["game_admin"][g]

\* eligible_target.
Eligible(w, actor, g, u) ==
  /\ Active(w, u)
  /\ \/ actor \in SystemAdmins
     \/ w.members[g][u] # "none"
     \/ \E r \in Roles : u \in w.roles[r][g]
     \/ w.access[u] = [game |-> g, status |-> "approved"]

\* authorize, without locks.
MayEnter(w, q) ==
  /\ Active(w, q.actor)
  /\ IF q.op = "decide" THEN q.actor \in w.roles["adjudicator"][q.game]
                        ELSE w.members[q.game][q.actor] # "none"

\* authorize after the locks, require_submitter and the named owner.
CommandAuthorized(w, q) ==
  /\ MayEnter(w, q)
  /\ q.op = "submit" => w.members[q.game][q.actor] = "submitter"
  /\ q.op = "edit" => Active(w, q.user) /\ w.members[q.game][q.user] # "none"

\* Fault: what was true before the locks is taken as still true.
StillTrue(w, q) == TRUE

CommandAllowed(w, q) == CommandAuthorized(w, q)

\* Fault: the designation is left to the last writer.
NeverTaken(w, g, u) == FALSE

\* Only replace_submitter moves the designation.
SubmitterTaken(w, g, u) == Submitters(w, g) \ {u} # {}

GrantAllowed(w, q) ==
  /\ Eligible(w, q.actor, q.game, q.user)
  /\ w.members[q.game][q.user] = "none"
  /\ q.as = "submitter" => ~SubmitterTaken(w, q.game, q.user)

ChangeAllowed(w, q) ==
  /\ Eligible(w, q.actor, q.game, q.user)
  /\ w.members[q.game][q.user] # "none"
  /\ q.as = "submitter" => ~SubmitterTaken(w, q.game, q.user)

RoleAllowed(w, q) ==
  /\ q.role = "adjudicator" => q.actor \in SystemAdmins
  /\ Eligible(w, q.actor, q.game, q.user)
  /\ q.user \notin w.roles[q.role][q.game]

\* Fault: an account that cannot sign in counts as an administrator.
OtherAdminOnPaper(w, g, u) == w.roles["game_admin"][g] \ {u} # {}

OtherActiveAdmin(w, g, u) == \E v \in w.roles["game_admin"][g] \ {u} : Active(w, v)

RoleRemovable(w, q) ==
  /\ q.user \in w.roles[q.role][q.game]
  /\ q.actor \in SystemAdmins \/ q.role # "adjudicator"
  /\ q.role = "game_admin" /\ q.actor \notin SystemAdmins =>
       OtherActiveAdmin(w, q.game, q.user)

\* replace_submitter.
Replaceable(w, q) ==
  /\ Active(w, q.actor)
  /\ Eligible(w, q.actor, q.game, q.user)
  /\ Submitters(w, q.game) = {q.from}
  /\ w.members[q.game][q.user] = "member"

\* The row update that makes an applicant a user, which review_access flushes.
Admitted(w, u) ==
  [w EXCEPT !.users[u] = IF @ = "pending" THEN "active" ELSE @,
            !.access[u].status = "approved"]

\* review_access, with the membership and the role granted along with it.
Reviewable(w, q) ==
  /\ w.access[q.user] = [game |-> q.game, status |-> "pending"]
  /\ w.users[q.user] = "pending"
  /\ q.op = "approve" =>
       /\ q.as # "none" => GrantAllowed(Admitted(w, q.user), q)
       /\ q.role # "none" => RoleAllowed(Admitted(w, q.user), q)

AdminAllowed(w, q) ==
  /\ IsGameAdmin(w, q.actor, q.game)
  /\ CASE q.op = "grant" -> GrantAllowed(w, q)
       [] q.op = "change" -> ChangeAllowed(w, q)
       [] q.op = "remove" -> w.members[q.game][q.user] # "none"
       [] q.op = "add_role" -> RoleAllowed(w, q)
       [] q.op = "remove_role" -> RoleRemovable(w, q)
       [] q.op = "replace" -> Replaceable(w, q)
       [] OTHER -> Reviewable(w, q)

WithMember(w, q, authority) == [w EXCEPT !.members[q.game][q.user] = authority]

WithRole(w, q) == [w EXCEPT !.roles[q.role][q.game] = @ \cup {q.user}]

\* w with the writes of q.
After(w, q) ==
  CASE q.op \in {"grant", "change"} -> WithMember(w, q, q.as)
    [] q.op = "remove" -> WithMember(w, q, "none")
    [] q.op = "add_role" -> WithRole(w, q)
    [] q.op = "remove_role" -> [w EXCEPT !.roles[q.role][q.game] = @ \ {q.user}]
    [] q.op = "replace" ->
         [WithMember(w, q, "submitter") EXCEPT !.members[q.game][q.from] = "member"]
    [] q.op = "approve" ->
         LET member == IF q.as = "none" THEN Admitted(w, q.user)
                       ELSE WithMember(Admitted(w, q.user), q, q.as)
         IN IF q.role = "none" THEN member ELSE WithRole(member, q)
    [] q.op = "deny" -> [w EXCEPT !.access[q.user].status = "denied"]
    [] q.op = "deactivate" -> [w EXCEPT !.users[q.user] = "inactive"]
    [] OTHER -> w

\* The games a deactivation must reconcile.
GamesOf(w, u) ==
  {g \in Games : w.members[g][u] # "none" \/ \E r \in Roles : u \in w.roles[r][g]}

\* _alert_admins: who is told that the team of g became blocked.
Recipients(w, g) ==
  {u \in SystemAdmins \cup w.roles["game_admin"][g] : w.users[u] # "inactive"}

-----------------------------------------------------------------------------
(***************************************************************************)
(* The steps of a transaction.                                             *)
(***************************************************************************)
UsersToLock(q) ==
  CASE q.op \in Commands -> {q.actor, q.user}
    [] q.op = "replace" -> {q.actor, q.from, q.user}
    [] q.op = "deactivate" -> {q.user}
    [] OTHER -> {}

Begin(q, pc, wantGames, tries) ==
  [pc |-> pc, req |-> q, wantGames |-> wantGames, wantUsers |-> UsersToLock(q),
   wantShares |-> {}, games |-> {}, update |-> {}, share |-> {},
   found |-> wantGames, blocks |-> {}, tries |-> tries]

\* The session of the actor is resolved in a transaction of its own, before the
\* request's; require_system and the preflight authorize are read with it.
Start(c) ==
  \E q \in Offered :
    /\ ~Running(c) /\ started < MaxRequests
    /\ world.users[q.actor] # "inactive"
    /\ q.op \in Commands => MayEnter(world, q)
    /\ q.op = "deactivate" => q.actor \in SystemAdmins /\ q.actor # q.user
    /\ tx' = [tx EXCEPT ![c] =
                IF q.op = "deactivate" THEN Begin(q, "discover", {}, 0)
                                       ELSE Begin(q, "lock", {q.game}, 0)]
    /\ started' = started + 1
    /\ UNCHANGED world

\* deactivate_user looks for the games before it holds anything.
Discover(c) ==
  /\ tx[c].pc = "discover"
  /\ Proceed(c, Begin(tx[c].req, "lock", GamesOf(world, tx[c].req.user), tx[c].tries))

Locked(c) == tx[c].pc = "lock" /\ tx[c].wantGames = {} /\ tx[c].wantUsers = {}

CheckCommand(c) ==
  /\ Locked(c) /\ tx[c].req.op \in Commands
  /\ IF CommandAllowed(world, tx[c].req)
       THEN Proceed(c, [tx[c] EXCEPT !.pc = "commit"])
       ELSE Refuse(c)

\* A granted row is flushed with its references, the approved user with it.
CheckAdmin(c) ==
  LET q == tx[c].req
  IN /\ Locked(c) /\ q.op \notin Commands \cup {"deactivate"}
     /\ IF AdminAllowed(world, q)
          THEN Proceed(c, [tx[c] EXCEPT !.pc = "flush",
                             !.wantShares = IF q.op \in Grants THEN {q.user, q.actor}
                                                               ELSE {}])
          ELSE Refuse(c)

\* Fault: the discovered games are taken as still complete.
NeverMoved(c) == FALSE

GamesMoved(c) == GamesOf(world, tx[c].req.user) # tx[c].found

\* Fault: one attempt too many.
AttemptLeftInclusive(c) == tx[c].tries < Attempts

AttemptLeft(c) == tx[c].tries + 1 < Attempts

\* RetryableConflict: start over in a new transaction, or give up.
CheckDeactivation(c) ==
  /\ Locked(c) /\ tx[c].req.op = "deactivate"
  /\ \/ /\ ~GamesMoved(c)
        /\ Proceed(c, [tx[c] EXCEPT !.pc = "flush"])
     \/ /\ GamesMoved(c) /\ AttemptLeft(c)
        /\ Proceed(c, Begin(tx[c].req, "discover", {}, tx[c].tries + 1))
     \/ /\ GamesMoved(c) /\ ~AttemptLeft(c)
        /\ Refuse(c)

\* reconcile_team_state of every locked game, then the audit row and the alerts.
Reconcile(c) ==
  LET w == After(world, tx[c].req)
      blocks == {g \in tx[c].games : ~HasActiveSubmitter(w, g)}
      alerted == {g \in blocks : ~w.blocked[g]}
      told == UNION {Recipients(w, g) : g \in alerted}
  IN /\ tx[c].pc = "flush" /\ tx[c].wantShares = {}
     /\ Proceed(c, [tx[c] EXCEPT
                      !.pc = "commit", !.blocks = blocks,
                      !.wantShares = (told \cup {tx[c].req.actor}) \ tx[c].update])

Commit(c) ==
  /\ tx[c].pc = "commit" /\ tx[c].wantShares = {}
  /\ world' = IF tx[c].req.op \in Commands THEN world
              ELSE [After(world, tx[c].req) EXCEPT
                      !.blocked = [g \in Games |-> IF g \in tx[c].games
                                                     THEN g \in tx[c].blocks ELSE @[g]]]
  /\ Become(c, Idle)

Next ==
  \E c \in Clients :
    \/ Start(c)
    \/ Discover(c)
    \/ LockGame(c)
    \/ LockUser(c)
    \/ ShareUser(c)
    \/ CheckCommand(c)
    \/ CheckAdmin(c)
    \/ CheckDeactivation(c)
    \/ Reconcile(c)
    \/ Commit(c)
    \/ Abort(c)

Spec == Init /\ [][Next]_vars

-----------------------------------------------------------------------------
\* A team is shown as blocked exactly while no active account is its submitter,
\* although a deactivation, which must not lock games late, races the grants that
\* make it matter to a game.
BlockedIsTrue ==
  \A g \in Games : world.blocked[g] <=> ~HasActiveSubmitter(world, g)

\* The unique index on the submitter of a team never has to refuse a row: the
\* checks under the game lock are enough, whoever grants, approves or replaces.
OneSubmitter == \A g \in Games : Cardinality(Submitters(world, g)) <= 1

\* A command or a replacement is committed only by an account that has the
\* authority at that moment, however long it waited for its locks.
CommitsAuthorized ==
  [][\A c \in Clients :
       Commit(c) =>
         /\ tx[c].req.op \in Commands => CommandAuthorized(world, tx[c].req)
         /\ tx[c].req.op = "replace" => Active(world, tx[c].req.actor)]_vars

\* A game administrator who removes one, possibly themselves, leaves an active one,
\* also when another administrator is being deactivated or removed meanwhile.
RemovalLeavesAdmin ==
  [][\A c \in Clients :
       /\ Commit(c)
       /\ tx[c].req.op = "remove_role" /\ tx[c].req.role = "game_admin"
       /\ tx[c].req.actor \notin SystemAdmins
       => \E u \in world'.roles["game_admin"][tx[c].req.game] : Active(world', u)]_vars

\* "Match administration's game -> sorted users lock order": transactions that all
\* lock in one order never wait for one another in a circle.
NoWaitCycle ==
  \A S \in SUBSET Clients \ {{}} : \E c \in S : WaitsFor(c) \cap S = {}
=============================================================================
