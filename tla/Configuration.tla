---------------------------- MODULE Configuration ----------------------------
(***************************************************************************)
(* The configuration revisions of one game and its activation:             *)
(* administration.py, with the dataset that memory.py creates on           *)
(* activation.                                                             *)
(*                                                                         *)
(* A handler of web.py reads the clock, then waits for the lock on the     *)
(* game (FOR UPDATE), and judges everything by that earlier reading.  Team *)
(* submitters change under the same lock (TeamAuthority).  current_turn    *)
(* leaves 0 for 1 on activation and nothing in the code moves it on.  Team *)
(* states are derived from the submitters and left to TeamAuthority.       *)
(* "Fault" marks a plausible bug.                                          *)
(***************************************************************************)
EXTENDS Integers, Sequences, FiniteSets

CONSTANTS
  Teams, Actors, Deadlines,
  Proposals,    \* configurations an administrator may send
  Turns,        \* effective turns one may send
  Clients,
  MaxTime,      \* bound on the clock
  MaxRevisions  \* bound on the revisions of the game

Times == 0 .. MaxTime

\* teams: the actors each represents.  objectives: the teams they are stated for.
\* deadlines: one per turn.
ScenarioConfiguration ==
  [teams : UNION {[T -> SUBSET Actors] : T \in SUBSET Teams}, actors : SUBSET Actors,
   objectives : SUBSET Teams, deadlines : Seq(Deadlines)]

\* The name of a visibility scope that no team may take.
Reserved == "adjudicator"

\* supersedes: the sequence number of a revision, 0 for none.
ConfigurationRevision ==
  [recorded_at : Times, effective_turn : Nat \ {0}, configuration : ScenarioConfiguration,
   supersedes : Nat]

ASSUME ConfigurationAssumption ==
  /\ Deadlines \subseteq Nat /\ Turns \subseteq Nat
  /\ Proposals \subseteq ScenarioConfiguration
  /\ MaxTime \in Nat /\ MaxRevisions \in Nat

VARIABLES
  game,       \* status and current turn
  revisions,  \* ConfigurationRevision rows; the index is the sequence number
  submitters, \* teams with an active submitter
  adjudicated, \* an adjudicator is active
  dataset,    \* scopes of the operational dataset, empty before it exists
  clock,
  tx,         \* the transaction of each client
  terms       \* history: the deadline of turn 1 when the game was activated

vars == <<game, revisions, submitters, adjudicated, dataset, clock, tx, terms>>

Idle == [pc |-> "idle"]

NoTerms == <<>>

Transaction ==
  [pc : {"lock", "commit"}, op : {"revise", "activate", "staff"}, now : Times,
   configuration : ScenarioConfiguration, turn : Nat, supersedes : Nat]

TypeOK ==
  /\ game \in [status : {"none", "draft", "active", "completed"}, turn : {0, 1}]
  /\ revisions \in Seq(ConfigurationRevision)
  /\ submitters \subseteq Teams /\ adjudicated \in BOOLEAN
  /\ dataset \subseteq Teams \cup {Reserved}
  /\ clock \in Times
  /\ \A c \in Clients : tx[c] = Idle \/ tx[c] \in Transaction
  /\ terms \in {NoTerms} \cup {<<d>> : d \in Deadlines}

Init ==
  /\ game = [status |-> "none", turn |-> 0]
  /\ revisions = <<>>
  /\ submitters = {} /\ adjudicated = FALSE /\ dataset = {}
  /\ clock = 0
  /\ tx = [c \in Clients |-> Idle]
  /\ terms = NoTerms

-----------------------------------------------------------------------------
(***************************************************************************)
(* What governs.                                                           *)
(***************************************************************************)
\* ScenarioConfiguration.validate_graph.
ValidGraph(k) ==
  /\ DOMAIN k.teams # {} /\ k.objectives = DOMAIN k.teams
  /\ UNION {k.teams[t] : t \in DOMAIN k.teams} = k.actors /\ k.actors # {}
  /\ \A t \in DOMAIN k.teams : k.teams[t] # {}
  /\ k.deadlines # <<>>
  /\ \A i \in 1 .. Len(k.deadlines) - 1 : k.deadlines[i] < k.deadlines[i + 1]

ValidScopeNames(k) == Reserved \notin DOMAIN k.teams

Roster(k) == <<k.actors, k.teams>>

\* Fault: every row is known at any time.
KnownAnyTime(at, turn) == {i \in DOMAIN revisions : revisions[i].effective_turn <= turn}

Known(at, turn) ==
  {i \in DOMAIN revisions :
     revisions[i].recorded_at <= at /\ revisions[i].effective_turn <= turn}

\* Greatest effective turn, then greatest sequence.
Later(i, j) ==
  LET a == revisions[i].effective_turn  b == revisions[j].effective_turn
  IN a > b \/ (a = b /\ i >= j)

\* configuration_at, as a sequence number; 0 where it raises LookupError.
ConfigurationAt(at, turn) ==
  LET S == Known(at, turn)
  IN IF S = {} THEN 0 ELSE CHOOSE i \in S : \A j \in S : Later(i, j)

\* scheduled_configurations: the last one known for each turn to come.
Scheduled(at, after) ==
  LET S == {i \in DOMAIN revisions :
              revisions[i].recorded_at <= at /\ revisions[i].effective_turn > after}
  IN {i \in S : \A j \in S :
        revisions[j].effective_turn = revisions[i].effective_turn => j <= i}

Governing(at) == ConfigurationAt(at, IF game.turn = 0 THEN 1 ELSE game.turn)

Governs(at) == revisions[Governing(at)].configuration

\* governing_configuration succeeds, and ensure_compatible.
Compatible(at) ==
  /\ Governing(at) # 0
  /\ ValidScopeNames(Governs(at))
  /\ \A i \in Scheduled(at, IF game.turn = 0 THEN 1 ELSE game.turn) :
       Roster(revisions[i].configuration) = Roster(Governs(at))

-----------------------------------------------------------------------------
(***************************************************************************)
(* Requests.                                                               *)
(***************************************************************************)
\* Fault: the game row is read without FOR UPDATE.
Unlocked(c) == TRUE

LockFree(c) == \A d \in Clients \ {c} : tx[d].pc # "commit"

Move(c, t) == tx' = [tx EXCEPT ![c] = t]

GameKeeps == UNCHANGED <<game, revisions, submitters, adjudicated, dataset, clock, terms>>

CreateGame(k) ==
  /\ game.status = "none" /\ MaxRevisions > 0
  /\ ValidGraph(k) /\ ValidScopeNames(k)
  /\ game' = [status |-> "draft", turn |-> 0]
  /\ revisions' = <<[recorded_at |-> clock, effective_turn |-> 1, configuration |-> k,
                     supersedes |-> 0]>>
  /\ UNCHANGED <<submitters, adjudicated, dataset, clock, tx, terms>>

\* A handler finds the game and reads the clock.  A configuration that is not valid is
\* refused while it is parsed.
Arrive(c) ==
  /\ tx[c] = Idle /\ game.status # "none"
  /\ \E op \in {"revise", "activate", "staff"}, k \in Proposals, turn \in Turns :
       /\ IF op = "revise" THEN ValidGraph(k) /\ Len(revisions) < MaxRevisions
          ELSE k = revisions[1].configuration /\ turn = 1
       /\ Move(c, [pc |-> "lock", op |-> op, now |-> clock, configuration |-> k,
                   turn |-> turn, supersedes |-> 0])
  /\ GameKeeps

Lose(c) == tx[c] # Idle /\ Move(c, Idle) /\ GameKeeps

\* The revision of the same turn that came last, known or not.
Superseded(turn) ==
  LET S == {i \in DOMAIN revisions : revisions[i].effective_turn = turn}
  IN IF S = {} THEN 0 ELSE CHOOSE i \in S : \A j \in S : j <= i

\* Fault: a revision may change the past of the plan it belongs to.
StartedTurnsUnchecked(at, k) == TRUE

StartedTurnsKept(at, k) ==
  game.status = "active" =>
    LET governing == revisions[ConfigurationAt(at, game.turn)].configuration
    IN k.deadlines[1] = governing.deadlines[1]

MayRevise(q) ==
  /\ game.status # "completed"
  /\ Compatible(q.now)
  /\ ValidScopeNames(q.configuration)
  /\ Roster(q.configuration) = Roster(Governs(q.now))
  /\ q.turn >= 1
  /\ game.status = "draft" => q.turn = 1
  /\ game.status = "active" => q.turn > game.turn
  /\ StartedTurnsKept(q.now, q.configuration)

MayActivate(q) ==
  /\ game.status = "draft"
  /\ Compatible(q.now)
  /\ adjudicated
  /\ DOMAIN Governs(q.now).teams \subseteq submitters

\* lock_game, and every check under the lock.
LockGame(c) ==
  LET q == tx[c]
  IN /\ q.pc = "lock" /\ LockFree(c)
     /\ IF \/ q.op = "revise" /\ MayRevise(q) /\ Len(revisions) < MaxRevisions
           \/ q.op = "activate" /\ MayActivate(q)
           \/ q.op = "staff"
        THEN Move(c, [q EXCEPT !.pc = "commit",
                        !.supersedes = IF q.op = "revise" THEN Superseded(q.turn) ELSE 0])
        ELSE Move(c, Idle)
     /\ GameKeeps

CommitRevision(c) ==
  LET q == tx[c]
  IN /\ q.pc = "commit" /\ q.op = "revise"
     /\ revisions' = Append(revisions,
          [recorded_at |-> q.now, effective_turn |-> q.turn,
           configuration |-> q.configuration, supersedes |-> q.supersedes])
     /\ Move(c, Idle)
     /\ UNCHANGED <<game, submitters, adjudicated, dataset, clock, terms>>

\* The deadline of turn 1 in the last revision that governs it.
FirstDeadline == revisions[ConfigurationAt(clock, 1)].configuration.deadlines[1]

\* create_operational_dataset: a scope per team and one for adjudicators, once.
CommitActivation(c) ==
  LET q == tx[c]
  IN /\ q.pc = "commit" /\ q.op = "activate"
     /\ game' = [status |-> "active", turn |-> 1]
     /\ dataset' = IF dataset = {} THEN DOMAIN Governs(q.now).teams \cup {Reserved} ELSE dataset
     /\ terms' = <<FirstDeadline>>
     /\ Move(c, Idle)
     /\ UNCHANGED <<revisions, submitters, adjudicated, clock>>

\* Memberships and roles change under the lock on the game.
CommitStaff(c) ==
  /\ tx[c].pc = "commit" /\ tx[c].op = "staff"
  /\ \/ \E t \in DOMAIN Governs(clock).teams :
            /\ submitters' = IF t \in submitters THEN submitters \ {t} ELSE submitters \cup {t}
            /\ UNCHANGED adjudicated
     \/ adjudicated' = ~adjudicated /\ UNCHANGED submitters
  /\ Move(c, Idle)
  /\ UNCHANGED <<game, revisions, dataset, clock, terms>>

Tick ==
  /\ clock < MaxTime /\ clock' = clock + 1
  /\ UNCHANGED <<game, revisions, submitters, adjudicated, dataset, tx, terms>>

Next ==
  \/ \E k \in Proposals : CreateGame(k)
  \/ \E c \in Clients :
       \/ Arrive(c) \/ Lose(c) \/ LockGame(c)
       \/ CommitRevision(c) \/ CommitActivation(c) \/ CommitStaff(c)
  \/ Tick

Spec == Init /\ [][Next]_vars

-----------------------------------------------------------------------------
(***************************************************************************)
(* Properties.                                                             *)
(***************************************************************************)
\* What configuration_at and scheduled_configurations answer for an instant of the past
\* never changes again, once no request is left that read the clock by then: a revision
\* that was held up at the lock is still recorded at the time it asked.
AnswersStand ==
  [][\A at \in Times, turn \in Turns :
       at < clock /\ (\A c \in Clients : tx[c] # Idle => at < tx[c].now) =>
         /\ ConfigurationAt(at, turn)' = ConfigurationAt(at, turn)
         /\ Scheduled(at, turn)' = Scheduled(at, turn)]_vars

\* A revision was judged by a clock read before one that precedes it was recorded.
JudgedByThePast(i) == \E j \in 1 .. (i - 1) : revisions[j].recorded_at > revisions[i].recorded_at

\* The turn that activation starts keeps its deadline: whatever revision governs it
\* from then on, and every plan made for later turns, states the one in force when the
\* game was activated.  Only a revision that waited for the lock while another one was
\* recorded can pass with an older one.
StartedTurnKeepsItsTerms ==
  game.status = "active" =>
    /\ FirstDeadline = terms[1]
    /\ \A i \in DOMAIN revisions :
         revisions[i].effective_turn > 1 =>
           revisions[i].configuration.deadlines[1] = terms[1] \/ JudgedByThePast(i)

\* A game is activated only with an adjudicator and a submitter for every team of the
\* configuration that governs when it commits, whatever was revised, granted or
\* withdrawn while the activation waited; the dataset has a scope for each of them.
ActivationIsStaffed ==
  [][game.status # "active" /\ game'.status = "active" =>
       /\ adjudicated
       /\ DOMAIN Governs(clock).teams \subseteq submitters
       /\ dataset' = DOMAIN Governs(clock).teams \cup {Reserved}]_vars
==============================================================================
