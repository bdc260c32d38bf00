-------------------------- MODULE ConfigurationProofs -------------------------
(***************************************************************************)
(* Proofs about Configuration, for all sets of teams, actors, deadlines,   *)
(* proposals, turns and clients and all bounds.                            *)
(***************************************************************************)
EXTENDS Configuration, FiniteSetTheorems, WellFoundedInduction, TLAPS

(***************************************************************************)
(* What governs, of any rows: the definitions of Configuration with the    *)
(* rows as a parameter, so that a step can compare the rows before and     *)
(* after it.                                                               *)
(***************************************************************************)
KnownOf(rows, at, turn) ==
  {i \in DOMAIN rows : rows[i].recorded_at <= at /\ rows[i].effective_turn <= turn}

LaterOf(rows, i, j) ==
  \/ rows[i].effective_turn > rows[j].effective_turn
  \/ rows[i].effective_turn = rows[j].effective_turn /\ i >= j

AtOf(rows, at, turn) ==
  IF KnownOf(rows, at, turn) = {} THEN 0
  ELSE CHOOSE i \in KnownOf(rows, at, turn) :
         \A j \in KnownOf(rows, at, turn) : LaterOf(rows, i, j)

ScheduledOf(rows, at, after) ==
  LET S == {i \in DOMAIN rows : rows[i].recorded_at <= at /\ rows[i].effective_turn > after}
  IN {i \in S : \A j \in S : rows[j].effective_turn = rows[i].effective_turn => j <= i}

JudgedByThePastOf(rows, i) ==
  \E j \in 1 .. (i - 1) : rows[j].recorded_at > rows[i].recorded_at

\* What governs, and what is scheduled, depends on the rows alone.
LEMMA SameDefinitions ==
  /\ \A at, turn : ConfigurationAt(at, turn) = AtOf(revisions, at, turn)
  /\ \A at, turn : Scheduled(at, turn) = ScheduledOf(revisions, at, turn)
BY DEF ConfigurationAt, AtOf, Known, KnownOf, Later, LaterOf, Scheduled, ScheduledOf

-----------------------------------------------------------------------------
(***************************************************************************)
(* Greatest rows.                                                          *)
(***************************************************************************)
\* A finite set has a greatest element in any total transitive relation: a smallest
\* subset without one would still lack one without any of its elements.
LEMMA GreatestExists ==
  ASSUME NEW S, IsFiniteSet(S), S # {}, NEW R,
         \A i, j \in S : <<i, j>> \in R \/ <<j, i>> \in R,
         \A i, j, k \in S : <<i, j>> \in R /\ <<j, k>> \in R => <<i, k>> \in R
  PROVE  \E i \in S : \A j \in S : <<i, j>> \in R
<1> DEFINE Has(T) == \E i \in T : \A j \in T : <<i, j>> \in R
           Bad == {T \in SUBSET S : T # {} /\ ~Has(T)}
<1>1. SUFFICES ASSUME Bad # {} PROVE FALSE
  <2>1. S \in SUBSET S
    OBVIOUS
  <2> QED
    BY <2>1
<1>2. PICK T \in Bad : \A U \in Bad : ~(<<U, T>> \in StrictSubsetOrdering(S))
  <2>1. Bad \subseteq SUBSET S
    OBVIOUS
  <2> HIDE DEF Bad
  <2>2. IsWellFoundedOn(StrictSubsetOrdering(S), SUBSET S)
    BY FS_StrictSubsetOrderingWellFounded, FS_FiniteSubsetsOfFinite
  <2> QED
    BY <1>1, <2>1, <2>2, WFMin
<1>3. T \in SUBSET S /\ ~Has(T)
  OBVIOUS
<1>4. PICK m \in T : TRUE
  OBVIOUS
<1> DEFINE U == T \ {m}
<1>5. U \notin Bad
  <2>1. <<U, T>> \in StrictSubsetOrdering(S)
    BY <1>3, <1>4 DEF StrictSubsetOrdering
  <2> QED
    BY <2>1, <1>2
<1>6. <<m, m>> \in R
  BY <1>3, <1>4
<1>7. CASE U = {}
  BY <1>3, <1>4, <1>6, <1>7
<1>8. CASE U # {}
  <2>1. PICK i \in U : \A j \in U : <<i, j>> \in R
    BY <1>3, <1>5, <1>8
  <2>2. CASE <<i, m>> \in R
    <3>1. \A j \in T : <<i, j>> \in R
      BY <2>1, <2>2
    <3> QED
      BY <3>1, <2>1, <1>3
  <2>3. CASE <<m, i>> \in R
    <3>1. \A j \in U : <<m, j>> \in R
      BY <2>1, <2>3, <1>3, <1>4
    <3>2. \A j \in T : <<m, j>> \in R
      BY <3>1, <1>6
    <3> QED
      BY <3>2, <1>3, <1>4
  <2> QED
    BY <2>1, <2>2, <2>3, <1>3, <1>4
<1> QED
  BY <1>7, <1>8

Rows == Seq(ConfigurationRevision)

\* The rows are numbered from 1 and have the type of a revision.
LEMMA RowsAreTyped ==
  ASSUME NEW rows \in Rows
  PROVE  /\ Len(rows) \in Nat /\ DOMAIN rows = 1 .. Len(rows)
         /\ \A i \in DOMAIN rows :
              /\ i \in Nat
              /\ rows[i] \in ConfigurationRevision
              /\ rows[i].recorded_at \in Times /\ rows[i].recorded_at \in Nat
              /\ rows[i].effective_turn \in Nat /\ rows[i].effective_turn >= 1
              /\ rows[i].configuration \in ScenarioConfiguration
<1>1. Len(rows) \in Nat /\ DOMAIN rows = 1 .. Len(rows)
  BY DEF Rows
<1>2. \A i \in DOMAIN rows : rows[i] \in ConfigurationRevision
  BY DEF Rows
<1>3. \A t \in Times : t \in Nat
  BY ConfigurationAssumption DEF Times
<1> QED
  BY <1>1, <1>2, <1>3 DEF ConfigurationRevision

\* configuration_at finds the greatest row known, which is the only one.
LEMMA AtIsGreatest ==
  ASSUME NEW rows \in Rows, NEW at \in Nat, NEW turn \in Nat
  PROVE  /\ KnownOf(rows, at, turn) = {} => AtOf(rows, at, turn) = 0
         /\ KnownOf(rows, at, turn) # {} =>
              /\ AtOf(rows, at, turn) \in KnownOf(rows, at, turn)
              /\ \A j \in KnownOf(rows, at, turn) : LaterOf(rows, AtOf(rows, at, turn), j)
         /\ \A i \in KnownOf(rows, at, turn) :
              (\A j \in KnownOf(rows, at, turn) : LaterOf(rows, i, j)) =>
                AtOf(rows, at, turn) = i
<1> DEFINE S == KnownOf(rows, at, turn)
           R == {p \in S \X S : LaterOf(rows, p[1], p[2])}
<1>1. Len(rows) \in Nat /\ DOMAIN rows = 1 .. Len(rows) /\ S \in SUBSET (1 .. Len(rows))
  BY RowsAreTyped DEF KnownOf
<1>2. \A i \in S : rows[i].effective_turn \in Nat /\ i \in Nat
  BY RowsAreTyped DEF KnownOf
<1>3. \A i, j \in S : LaterOf(rows, i, j) \/ LaterOf(rows, j, i)
  BY <1>2 DEF LaterOf
<1>4. \A i, j, k \in S : LaterOf(rows, i, j) /\ LaterOf(rows, j, k) => LaterOf(rows, i, k)
  BY <1>2 DEF LaterOf
<1>5. \A i, j \in S : <<i, j>> \in R <=> LaterOf(rows, i, j)
  OBVIOUS
<1>6. \A i, j \in S : LaterOf(rows, i, j) /\ LaterOf(rows, j, i) => i = j
  BY <1>2 DEF LaterOf
<1>11. IsFiniteSet(S)
  <2> HIDE DEF S
  <2>1. IsFiniteSet(1 .. Len(rows))
    BY <1>1, FS_Interval
  <2> QED
    BY <1>1, <2>1, FS_Subset
<1>7. S # {} => \E i \in S : \A j \in S : LaterOf(rows, i, j)
  <2> HIDE DEF S, R
  <2>1. \A i, j \in S : <<i, j>> \in R \/ <<j, i>> \in R
    BY <1>3, <1>5
  <2>2. \A i, j, k \in S : <<i, j>> \in R /\ <<j, k>> \in R => <<i, k>> \in R
    BY <1>4, <1>5
  <2>3. S # {} => \E i \in S : \A j \in S : <<i, j>> \in R
    BY <1>11, <2>1, <2>2, GreatestExists
  <2> QED
    BY <2>3, <1>5
<1>8. S # {} => AtOf(rows, at, turn) = CHOOSE i \in S : \A j \in S : LaterOf(rows, i, j)
  BY DEF AtOf
<1>9. S = {} => AtOf(rows, at, turn) = 0
  BY DEF AtOf
<1>10. S # {} => /\ AtOf(rows, at, turn) \in S
                /\ \A j \in S : LaterOf(rows, AtOf(rows, at, turn), j)
  <2> HIDE DEF S
  <2> QED
    BY <1>7, <1>8
<1> QED
  <2>1. \A i \in S : (\A j \in S : LaterOf(rows, i, j)) => AtOf(rows, at, turn) = i
    <3> HIDE DEF S
    <3> QED
      BY <1>6, <1>10
  <2> QED
    BY <1>9, <1>10, <2>1

-----------------------------------------------------------------------------
(***************************************************************************)
(* The inductive invariant.                                                *)
(***************************************************************************)
Clocks ==
  /\ \A i \in DOMAIN revisions : revisions[i].recorded_at <= clock
  /\ \A c \in Clients : tx[c] # Idle => tx[c].now <= clock

\* One transaction at a time is past the lock, and none before the game is there.
Locking ==
  /\ tx \in [Clients -> {Idle} \cup Transaction]
  /\ \A c, d \in Clients : tx[c].pc = "commit" /\ tx[d].pc = "commit" => c = d
  /\ \A c \in Clients : tx[c] # Idle => game.status # "none"

Statuses ==
  /\ game.status \in {"none", "draft", "active"}
  /\ game.turn = IF game.status = "active" THEN 1 ELSE 0
  /\ game.status = "none" <=> revisions = <<>>
  /\ revisions # <<>> => revisions[1].effective_turn = 1
  /\ game.status # "active" =>
       dataset = {} /\ \A i \in DOMAIN revisions : revisions[i].effective_turn = 1

\* Whatever is stored or sent is valid, and everything stored has one roster.
Configurations ==
  /\ \A i \in DOMAIN revisions : ValidGraph(revisions[i].configuration)
  /\ \A c \in Clients : tx[c] # Idle => ValidGraph(tx[c].configuration)
  /\ \A i, j \in DOMAIN revisions :
       Roster(revisions[i].configuration) = Roster(revisions[j].configuration)

\* What the checks under the lock found is still so at the commit.
MayCommitRevision(q) ==
  /\ q.turn >= 1
  /\ game.status = "draft" => q.turn = 1
  /\ \A i \in DOMAIN revisions :
       Roster(q.configuration) = Roster(revisions[i].configuration)
  /\ game.status = "active" =>
       /\ q.turn > 1
       /\ ConfigurationAt(q.now, 1) # 0
       /\ q.configuration.deadlines[1] =
            revisions[ConfigurationAt(q.now, 1)].configuration.deadlines[1]

MayCommitActivation(q) ==
  /\ game.status = "draft"
  /\ adjudicated
  /\ ConfigurationAt(q.now, 1) # 0
  /\ DOMAIN revisions[ConfigurationAt(q.now, 1)].configuration.teams \subseteq submitters

Commits ==
  \A c \in Clients : tx[c].pc = "commit" =>
    /\ tx[c].op = "revise" => MayCommitRevision(tx[c])
    /\ tx[c].op = "activate" => MayCommitActivation(tx[c])

IInv ==
  /\ TypeOK /\ Clocks /\ Locking /\ Statuses /\ Configurations /\ Commits
  /\ StartedTurnKeepsItsTerms

-----------------------------------------------------------------------------
(***************************************************************************)
(* What a new row leaves as it was.                                        *)
(***************************************************************************)
LEMMA SameDefinitionsNext ==
  /\ \A at, turn : ConfigurationAt(at, turn)' = AtOf(revisions', at, turn)
  /\ \A at, turn : Scheduled(at, turn)' = ScheduledOf(revisions', at, turn)
BY DEF ConfigurationAt, AtOf, Known, KnownOf, Later, LaterOf, Scheduled, ScheduledOf

\* Only the rows known count.
LEMMA SameKnown ==
  ASSUME NEW rows, NEW at, NEW later, NEW turn,
         KnownOf(rows, at, turn) = KnownOf(rows, later, turn)
  PROVE  AtOf(rows, at, turn) = AtOf(rows, later, turn)
BY DEF AtOf

\* A row more: those before keep their numbers and contents.
LEMMA Appended ==
  ASSUME NEW rows \in Rows, NEW row \in ConfigurationRevision
  PROVE  /\ Append(rows, row) \in Rows
         /\ Len(Append(rows, row)) = Len(rows) + 1
         /\ DOMAIN Append(rows, row) = DOMAIN rows \cup {Len(rows) + 1}
         /\ \A i \in DOMAIN rows : Append(rows, row)[i] = rows[i]
         /\ Append(rows, row)[Len(rows) + 1] = row
<1>1. rows \in Seq(ConfigurationRevision)
  BY DEF Rows
<1>2. Append(rows, row) \in Seq(ConfigurationRevision) /\ Len(Append(rows, row)) = Len(rows) + 1
  BY <1>1
<1>3. DOMAIN rows = 1 .. Len(rows) /\ Len(rows) \in Nat
  BY <1>1
<1>4. DOMAIN Append(rows, row) = 1 .. (Len(rows) + 1)
  BY <1>2
<1> QED
  BY <1>1, <1>2, <1>3, <1>4 DEF Rows

\* A row recorded after an instant, or for a later turn, does not change what governs
\* then, nor what is scheduled then.
LEMMA LaterRowIsUnknown ==
  ASSUME NEW rows \in Rows, NEW row \in ConfigurationRevision, NEW at \in Nat, NEW turn \in Nat
  PROVE  /\ row.recorded_at > at \/ row.effective_turn > turn =>
              AtOf(Append(rows, row), at, turn) = AtOf(rows, at, turn)
         /\ row.recorded_at > at =>
              ScheduledOf(Append(rows, row), at, turn) = ScheduledOf(rows, at, turn)
<1> DEFINE more == Append(rows, row)
<1>1. /\ more \in Rows /\ DOMAIN more = DOMAIN rows \cup {Len(rows) + 1}
      /\ \A i \in DOMAIN rows : more[i] = rows[i]
      /\ more[Len(rows) + 1] = row
  BY Appended
<1>2. row.recorded_at \in Nat /\ row.effective_turn \in Nat
  <2>1. \A t \in Times : t \in Nat
    BY ConfigurationAssumption DEF Times
  <2> QED
    BY <2>1 DEF ConfigurationRevision
<1> HIDE DEF more
<1>3. ASSUME row.recorded_at > at \/ row.effective_turn > turn
      PROVE  AtOf(more, at, turn) = AtOf(rows, at, turn)
  <2>1. ~(row.recorded_at <= at /\ row.effective_turn <= turn)
    BY <1>2, <1>3
  <2>2. KnownOf(more, at, turn) = KnownOf(rows, at, turn)
    BY <1>1, <2>1 DEF KnownOf
  <2>3. \A i, j \in KnownOf(rows, at, turn) : LaterOf(more, i, j) <=> LaterOf(rows, i, j)
    BY <1>1 DEF KnownOf, LaterOf
  <2>4. CASE KnownOf(rows, at, turn) = {}
    BY <1>1, <2>2, <2>4, AtIsGreatest
  <2>5. CASE KnownOf(rows, at, turn) # {}
    <3>1. /\ AtOf(rows, at, turn) \in KnownOf(rows, at, turn)
          /\ \A j \in KnownOf(rows, at, turn) : LaterOf(rows, AtOf(rows, at, turn), j)
      BY <2>5, AtIsGreatest
    <3>2. /\ AtOf(rows, at, turn) \in KnownOf(more, at, turn)
          /\ \A j \in KnownOf(more, at, turn) : LaterOf(more, AtOf(rows, at, turn), j)
      BY <3>1, <2>2, <2>3
    <3> QED
      BY <1>1, <3>2, AtIsGreatest
  <2> QED
    BY <2>4, <2>5
<1>4. ASSUME row.recorded_at > at
      PROVE  ScheduledOf(more, at, turn) = ScheduledOf(rows, at, turn)
  <2>1. ~(row.recorded_at <= at)
    BY <1>2, <1>4
  <2> QED
    BY <1>1, <2>1 DEF ScheduledOf
<1> QED
  BY <1>3, <1>4 DEF more

-----------------------------------------------------------------------------
(***************************************************************************)
(* Steps that only move a transaction.                                     *)
(***************************************************************************)
LEMMA SameRows ==
  ASSUME UNCHANGED revisions
  PROVE  /\ \A at, turn : ConfigurationAt(at, turn)' = ConfigurationAt(at, turn)
         /\ \A at, turn : Scheduled(at, turn)' = Scheduled(at, turn)
BY SameDefinitions, SameDefinitionsNext

\* The started turn keeps its terms while the rows, the game and the clock stay.
LEMMA SameTerms ==
  ASSUME StartedTurnKeepsItsTerms, UNCHANGED <<game, revisions, clock, terms>>
  PROVE  StartedTurnKeepsItsTerms'
<1>1. FirstDeadline' = FirstDeadline
  BY SameRows DEF FirstDeadline
<1> QED
  BY <1>1 DEF StartedTurnKeepsItsTerms, JudgedByThePast

\* The fields of a request, and that it differs from an idle client.
LEMMA Transactions ==
  /\ Idle.pc = "idle"
  /\ \A q \in Transaction :
       /\ q.pc \in {"lock", "commit"} /\ q # Idle
       /\ q.now \in Times /\ q.now \in Nat /\ q.turn \in Nat
       /\ q.configuration \in ScenarioConfiguration
       /\ q.supersedes \in Nat /\ q.op \in {"revise", "activate", "staff"}
<1>1. \A t \in Times : t \in Nat
  BY ConfigurationAssumption DEF Times
<1> QED
  BY <1>1 DEF Idle, Transaction

\* The transaction a client may move to.
GoodMove(c, t) ==
  \/ t = Idle
  \/ /\ t \in Transaction /\ t.now <= clock /\ game.status # "none"
     /\ ValidGraph(t.configuration)
     /\ t.pc = "commit" =>
          /\ LockFree(c)
          /\ t.op = "revise" => MayCommitRevision(t)
          /\ t.op = "activate" => MayCommitActivation(t)

\* A step that only moves one client keeps the invariant if the move is good.
LEMMA MoveStep ==
  ASSUME IInv, NEW c \in Clients, NEW t, Move(c, t), GameKeeps, GoodMove(c, t)
  PROVE  IInv'
<1> USE DEF IInv
<1>1. /\ tx \in [Clients -> {Idle} \cup Transaction]
      /\ tx' \in [Clients -> {Idle} \cup Transaction]
      /\ tx'[c] = t /\ \A d \in Clients \ {c} : tx'[d] = tx[d]
  BY DEF Locking, Move, GoodMove
<1>2. TypeOK'
  BY <1>1 DEF TypeOK, GameKeeps
<1>3. Clocks'
  BY <1>1 DEF Clocks, GameKeeps, GoodMove
<1>4. Locking'
  <2>1. \A d \in Clients : tx'[d] # Idle => game.status # "none"
    BY <1>1 DEF Locking, GoodMove
  <2>2. \A d, e \in Clients : tx'[d].pc = "commit" /\ tx'[e].pc = "commit" => d = e
    <3>1. t.pc = "commit" => \A d \in Clients \ {c} : tx[d].pc # "commit"
      BY Transactions DEF GoodMove, LockFree
    <3> QED
      BY <1>1, <3>1 DEF Locking
  <2> QED
    BY <1>1, <2>1, <2>2 DEF Locking, GameKeeps
<1>5. Statuses'
  BY DEF Statuses, GameKeeps
<1>6. Configurations'
  BY <1>1 DEF Configurations, GameKeeps, GoodMove
<1>7. Commits'
  <2>1. \A q : MayCommitRevision(q) => MayCommitRevision(q)'
    BY SameRows DEF MayCommitRevision, GameKeeps
  <2>2. \A q : MayCommitActivation(q) => MayCommitActivation(q)'
    BY SameRows DEF MayCommitActivation, GameKeeps
  <2>3. SUFFICES ASSUME NEW d \in Clients, tx'[d].pc = "commit"
                 PROVE  /\ tx'[d].op = "revise" => MayCommitRevision(tx'[d])
                        /\ tx'[d].op = "activate" => MayCommitActivation(tx'[d])
    BY <2>1, <2>2 DEF Commits, MayCommitRevision, MayCommitActivation
  <2>4. CASE d = c
    BY <1>1, <2>3, <2>4, Transactions DEF GoodMove
  <2>5. CASE d # c
    BY <1>1, <2>3, <2>5 DEF Commits
  <2> QED
    BY <2>4, <2>5
<1>8. StartedTurnKeepsItsTerms'
  BY SameTerms DEF GameKeeps
<1> QED
  BY <1>2, <1>3, <1>4, <1>5, <1>6, <1>7, <1>8

\* What governs at an instant: the last known row of turn 1.
LEMMA GoverningIsTurnOne ==
  ASSUME IInv, NEW at \in Nat
  PROVE  /\ revisions \in Rows
         /\ Governing(at) = ConfigurationAt(at, 1)
         /\ ConfigurationAt(at, 1) = AtOf(revisions, at, 1)
         /\ ConfigurationAt(at, 1) # 0 =>
              /\ ConfigurationAt(at, 1) \in DOMAIN revisions
              /\ ConfigurationAt(at, 1) \in KnownOf(revisions, at, 1)
         /\ KnownOf(revisions, at, 1) # {} => ConfigurationAt(at, 1) # 0
<1>1. revisions \in Rows
  BY DEF IInv, TypeOK, Rows
<1>2. Governing(at) = ConfigurationAt(at, 1)
  BY DEF IInv, Statuses, Governing
<1>3. ConfigurationAt(at, 1) = AtOf(revisions, at, 1)
  BY SameDefinitions
<1>4. \A i \in KnownOf(revisions, at, 1) : i \in DOMAIN revisions /\ i # 0
  BY <1>1, RowsAreTyped DEF KnownOf
<1> QED
  BY <1>1, <1>2, <1>3, <1>4, AtIsGreatest

\* The row a revision supersedes is a sequence number, or 0.
LEMMA SupersededIsNat == ASSUME IInv, NEW turn PROVE Superseded(turn) \in Nat
<1> DEFINE S == {i \in DOMAIN revisions : revisions[i].effective_turn = turn}
           R == {p \in S \X S : p[2] <= p[1]}
<1>1. revisions \in Rows
  BY DEF IInv, TypeOK, Rows
<1>2. Len(revisions) \in Nat /\ S \in SUBSET (1 .. Len(revisions)) /\ \A i \in S : i \in Nat
  BY <1>1, RowsAreTyped
<1>3. \A i, j \in S : <<i, j>> \in R <=> j <= i
  OBVIOUS
<1>4. Superseded(turn) = IF S = {} THEN 0 ELSE CHOOSE i \in S : \A j \in S : j <= i
  BY DEF Superseded
<1> HIDE DEF S, R
<1>5. IsFiniteSet(1 .. Len(revisions))
  BY <1>2, FS_Interval
<1>6. IsFiniteSet(S)
  BY <1>2, <1>5, FS_Subset
<1>7. ASSUME S # {} PROVE \E i \in S : \A j \in S : j <= i
  <2>1. \A i, j \in S : j <= i \/ i <= j
    BY <1>2
  <2>2. \A i, j, k \in S : j <= i /\ k <= j => k <= i
    BY <1>2
  <2>4. \A i, j \in S : <<i, j>> \in R \/ <<j, i>> \in R
    BY <1>3, <2>1
  <2>5. \A i, j, k \in S : <<i, j>> \in R /\ <<j, k>> \in R => <<i, k>> \in R
    BY <1>3, <2>2
  <2>3. \E i \in S : \A j \in S : <<i, j>> \in R
    BY <1>6, <1>7, <2>4, <2>5, GreatestExists
  <2> QED
    BY <1>3, <2>3
<1>8. S # {} => (CHOOSE i \in S : \A j \in S : j <= i) \in S
  BY <1>7
<1>9. CASE S = {}
  <2>1. Superseded(turn) = 0
    BY <1>4, <1>9
  <2> QED
    BY <2>1
<1>10. CASE S # {}
  <2>1. Superseded(turn) \in S
    BY <1>4, <1>8, <1>10
  <2> QED
    BY <1>2, <2>1
<1> QED
  BY <1>9, <1>10

\* A request reads the clock, names a valid configuration and holds no lock.
LEMMA ArriveStep == ASSUME IInv, NEW c \in Clients, Arrive(c) PROVE IInv'
<1>1. PICK op \in {"revise", "activate", "staff"}, k \in Proposals, turn \in Turns :
        /\ IF op = "revise" THEN ValidGraph(k) /\ Len(revisions) < MaxRevisions
           ELSE k = revisions[1].configuration /\ turn = 1
        /\ Move(c, [pc |-> "lock", op |-> op, now |-> clock, configuration |-> k,
                    turn |-> turn, supersedes |-> 0])
  BY DEF Arrive
<1> DEFINE t == [pc |-> "lock", op |-> op, now |-> clock, configuration |-> k,
                 turn |-> turn, supersedes |-> 0]
<1>2. ValidGraph(k)
  <2>1. revisions \in Rows /\ revisions # <<>>
    BY DEF IInv, TypeOK, Rows, Statuses, Arrive
  <2>2. 1 \in DOMAIN revisions
    BY <2>1 DEF Rows
  <2> QED
    BY <1>1, <2>2 DEF IInv, Configurations
<1>3. t \in Transaction
  BY ConfigurationAssumption DEF IInv, TypeOK, Transaction
<1>4. t.now <= clock
  BY ConfigurationAssumption DEF IInv, TypeOK, Times
<1>5. GoodMove(c, t)
  BY <1>2, <1>3, <1>4 DEF GoodMove, Arrive
<1>6. GameKeeps
  BY DEF Arrive
<1> QED
  BY <1>1, <1>5, <1>6, MoveStep

\* A client that gives up leaves everything as it was.
LEMMA LoseStep == ASSUME IInv, NEW c \in Clients, Lose(c) PROVE IInv'
BY MoveStep DEF Lose, GoodMove

\* What the checks of revise_game leave to the commit.
LEMMA MayReviseIsEnough ==
  ASSUME IInv, NEW q \in Transaction, MayRevise(q)
  PROVE  MayCommitRevision(q)
<1>1. q.now \in Nat /\ q.turn \in Nat
  BY Transactions
<1>2. /\ Governing(q.now) # 0 /\ q.turn >= 1
      /\ game.status = "draft" => q.turn = 1
      /\ game.status = "active" => q.turn > game.turn
      /\ StartedTurnsKept(q.now, q.configuration)
      /\ Roster(q.configuration) = Roster(Governs(q.now))
  BY DEF MayRevise, Compatible
<1>3. Governing(q.now) = ConfigurationAt(q.now, 1) /\ ConfigurationAt(q.now, 1) \in DOMAIN revisions
  BY <1>1, <1>2, GoverningIsTurnOne
<1>4. Governs(q.now) = revisions[ConfigurationAt(q.now, 1)].configuration
  BY <1>3 DEF Governs
<1>5. \A i \in DOMAIN revisions : Roster(q.configuration) = Roster(revisions[i].configuration)
  BY <1>2, <1>3, <1>4 DEF IInv, Configurations
<1>6. game.status = "active" => game.turn = 1
  BY DEF IInv, Statuses
<1> QED
  BY <1>2, <1>3, <1>5, <1>6 DEF MayCommitRevision, StartedTurnsKept

\* What activate_game checks under the lock is what its commit relies on.
LEMMA MayActivateIsEnough ==
  ASSUME IInv, NEW q \in Transaction, MayActivate(q)
  PROVE  MayCommitActivation(q)
<1>1. q.now \in Nat
  BY Transactions
<1>2. Governing(q.now) # 0 /\ Governing(q.now) = ConfigurationAt(q.now, 1)
  BY <1>1, GoverningIsTurnOne DEF MayActivate, Compatible
<1> QED
  BY <1>2 DEF MayActivate, MayCommitActivation, Governs

\* Whoever gets the lock has been checked, and is alone past it.
LEMMA LockGameStep == ASSUME IInv, NEW c \in Clients, LockGame(c) PROVE IInv'
<1> DEFINE q == tx[c]
           t == [q EXCEPT !.pc = "commit",
                          !.supersedes = IF q.op = "revise" THEN Superseded(q.turn) ELSE 0]
<1>1. q \in Transaction /\ q # Idle
  BY Transactions DEF IInv, TypeOK, LockGame
<1>4. GameKeeps /\ GoodMove(c, Idle)
  BY DEF LockGame, GoodMove
<1>2. CASE Move(c, Idle)
  BY <1>2, <1>4, MoveStep
<1>3. CASE /\ \/ q.op = "revise" /\ MayRevise(q)
              \/ q.op = "activate" /\ MayActivate(q)
              \/ q.op = "staff"
           /\ Move(c, t)
  <2>1. t \in Transaction
    BY <1>1, SupersededIsNat DEF Transaction
  <2>2. /\ t.now = q.now /\ t.op = q.op /\ t.turn = q.turn /\ t.configuration = q.configuration
    BY <1>1 DEF Transaction
  <2>3. t.now <= clock /\ ValidGraph(t.configuration) /\ game.status # "none"
    BY <1>1, <2>2 DEF IInv, Clocks, Configurations, Locking
  <2>4. t.op = "revise" => MayCommitRevision(t)
    <3>1. q.op = "revise" => MayCommitRevision(q)
      BY <1>1, <1>3, MayReviseIsEnough
    <3> QED
      BY <2>2, <3>1 DEF MayCommitRevision
  <2>5. t.op = "activate" => MayCommitActivation(t)
    <3>1. q.op = "activate" => MayCommitActivation(q)
      BY <1>1, <1>3, MayActivateIsEnough
    <3> QED
      BY <2>2, <3>1 DEF MayCommitActivation
  <2>6. GoodMove(c, t)
    BY <2>1, <2>3, <2>4, <2>5 DEF GoodMove, LockGame
  <2> HIDE DEF t
  <2> QED
    BY <1>3, <1>4, <2>6, MoveStep
<1>5. IF \/ q.op = "revise" /\ MayRevise(q) /\ Len(revisions) < MaxRevisions
         \/ q.op = "activate" /\ MayActivate(q)
         \/ q.op = "staff"
      THEN Move(c, t) ELSE Move(c, Idle)
  BY Zenon DEF LockGame
<1> QED
  BY <1>2, <1>3, <1>5

-----------------------------------------------------------------------------
(***************************************************************************)
(* Steps that change the game.                                             *)
(***************************************************************************)
\* After a commit nobody is past the lock.
LEMMA Released ==
  ASSUME IInv, NEW c \in Clients, tx[c].pc = "commit", Move(c, Idle)
  PROVE  /\ tx[c] \in Transaction /\ tx[c] # Idle
         /\ tx' \in [Clients -> {Idle} \cup Transaction]
         /\ \A d \in Clients : tx'[d] # Idle => tx'[d] = tx[d] /\ tx[d] # Idle
         /\ \A d \in Clients : tx'[d].pc # "commit"
<1>1. tx \in [Clients -> {Idle} \cup Transaction]
  BY DEF IInv, Locking
<1>2. tx' \in [Clients -> {Idle} \cup Transaction]
  BY <1>1 DEF Move
<1>3. tx'[c] = Idle /\ \A d \in Clients \ {c} : tx'[d] = tx[d]
  BY <1>1 DEF Move
<1>4. \A d \in Clients \ {c} : tx[d].pc # "commit"
  BY DEF IInv, Locking
<1> QED
  BY <1>1, <1>2, <1>3, <1>4, Transactions

\* revise_game: the row added keeps types, roster and the terms of the started turn.
LEMMA CommitRevisionStep == ASSUME IInv, NEW c \in Clients, CommitRevision(c) PROVE IInv'
<1> USE DEF IInv
<1> DEFINE q == tx[c]
           n == Len(revisions) + 1
           row == [recorded_at |-> q.now, effective_turn |-> q.turn,
                   configuration |-> q.configuration, supersedes |-> q.supersedes]
<1>1. /\ q.pc = "commit" /\ q.op = "revise" /\ Move(c, Idle)
      /\ revisions' = Append(revisions, row)
      /\ UNCHANGED <<game, submitters, adjudicated, dataset, clock, terms>>
  BY DEF CommitRevision
<1>2. /\ q \in Transaction /\ q # Idle
      /\ tx' \in [Clients -> {Idle} \cup Transaction]
      /\ \A d \in Clients : tx'[d] # Idle => tx'[d] = tx[d] /\ tx[d] # Idle
      /\ \A d \in Clients : tx'[d].pc # "commit"
  BY <1>1, Released
<1>3. MayCommitRevision(q)
  BY <1>1 DEF Commits
<1>4. row \in ConfigurationRevision
  BY <1>2, <1>3, Transactions DEF ConfigurationRevision, MayCommitRevision
<1>5. revisions \in Rows
  BY DEF TypeOK, Rows
<1> HIDE DEF row, n
<1>6. /\ revisions' \in Rows /\ Len(revisions) \in Nat
      /\ DOMAIN revisions = 1 .. Len(revisions)
      /\ DOMAIN revisions' = DOMAIN revisions \cup {n}
      /\ \A i \in DOMAIN revisions : revisions'[i] = revisions[i]
      /\ revisions'[n] = row
  BY <1>1, <1>4, <1>5, Appended, RowsAreTyped DEF n
<1>7. /\ row.recorded_at = q.now /\ row.effective_turn = q.turn
      /\ row.configuration = q.configuration
  BY DEF row
<1>8. q.now \in Nat /\ q.turn \in Nat /\ q.now <= clock /\ clock \in Nat
  BY <1>2, Transactions, ConfigurationAssumption DEF Clocks, TypeOK, Times
<1>9. TypeOK'
  BY <1>1, <1>2, <1>6 DEF TypeOK, Rows
<1>10. Clocks'
  BY <1>1, <1>2, <1>6, <1>7, <1>8 DEF Clocks
<1>11. Locking'
  BY <1>1, <1>2 DEF Locking
<1>12. Statuses'
  <2>1. game.status # "none"
    BY <1>2 DEF Locking
  <2>2. revisions' # <<>>
    BY <1>6
  <2>3. game.status # "active" => q.turn = 1
    BY <1>3, <2>1 DEF Statuses, MayCommitRevision
  <2>4. revisions'[1].effective_turn = 1
    <3>1. revisions # <<>>
      BY <2>1 DEF Statuses
    <3>2. 1 \in DOMAIN revisions
      BY <1>5, <1>6, <3>1 DEF Rows
    <3> QED
      BY <1>6, <3>1, <3>2 DEF Statuses
  <2> QED
    BY <1>1, <1>6, <1>7, <2>1, <2>2, <2>3, <2>4 DEF Statuses
<1>13. Configurations'
  <2>1. ValidGraph(q.configuration)
    BY <1>2 DEF Configurations
  <2>2. \A i \in DOMAIN revisions : Roster(q.configuration) = Roster(revisions[i].configuration)
    BY <1>3 DEF MayCommitRevision
  <2> QED
    BY <1>2, <1>6, <1>7, <2>1, <2>2 DEF Configurations
<1>14. Commits'
  BY <1>2 DEF Commits
<1>15. ASSUME game.status = "active"
       PROVE  StartedTurnKeepsItsTerms'
  <2> DEFINE first == AtOf(revisions, clock, 1)
  <2>1. /\ q.turn > 1 /\ ConfigurationAt(q.now, 1) # 0
        /\ q.configuration.deadlines[1] =
             revisions[ConfigurationAt(q.now, 1)].configuration.deadlines[1]
    BY <1>3, <1>15 DEF MayCommitRevision
  <2>2. AtOf(revisions', clock, 1) = first
    BY <1>1, <1>4, <1>5, <1>7, <1>8, <2>1, LaterRowIsUnknown
  <2>3. first \in DOMAIN revisions
    <3>1. ConfigurationAt(q.now, 1) \in KnownOf(revisions, q.now, 1)
      BY <1>8, <2>1, GoverningIsTurnOne
    <3>2. ConfigurationAt(q.now, 1) \in KnownOf(revisions, clock, 1)
      BY <1>5, <1>8, <3>1, RowsAreTyped DEF KnownOf
    <3>3. first \in KnownOf(revisions, clock, 1)
      BY <1>5, <1>8, <3>2, AtIsGreatest
    <3> QED
      BY <3>3 DEF KnownOf
  <2>4. FirstDeadline = revisions[first].configuration.deadlines[1] /\ FirstDeadline = terms[1]
    BY <1>15, SameDefinitions DEF FirstDeadline, StartedTurnKeepsItsTerms
  <2>5. FirstDeadline' = revisions'[AtOf(revisions', clock', 1)].configuration.deadlines[1]
    BY SameDefinitionsNext DEF FirstDeadline
  <2>6. FirstDeadline' = terms'[1]
    BY <1>1, <1>6, <2>2, <2>3, <2>4, <2>5
  <2>7. ASSUME NEW i \in DOMAIN revisions, revisions'[i].effective_turn > 1
        PROVE  revisions'[i].configuration.deadlines[1] = terms[1] \/ JudgedByThePastOf(revisions', i)
    <3>1. revisions[i].configuration.deadlines[1] = terms[1] \/ JudgedByThePast(i)
      BY <1>6, <1>15, <2>7 DEF StartedTurnKeepsItsTerms
    <3>2. \A j \in 1 .. (i - 1) : j \in DOMAIN revisions
      BY <1>6
    <3> QED
      BY <1>6, <3>1, <3>2 DEF JudgedByThePast, JudgedByThePastOf
  <2>8. q.configuration.deadlines[1] = terms[1] \/ JudgedByThePastOf(revisions', n)
    <3>1. SUFFICES ASSUME ~JudgedByThePastOf(revisions', n)
                   PROVE  q.configuration.deadlines[1] = terms[1]
      OBVIOUS
    <3>2. \A j \in DOMAIN revisions : j \in 1 .. (n - 1)
      BY <1>6 DEF n
    <3>3. \A j \in DOMAIN revisions : ~(revisions[j].recorded_at > q.now)
      BY <1>6, <1>7, <3>1, <3>2 DEF JudgedByThePastOf
    <3>4. \A j \in DOMAIN revisions : revisions[j].recorded_at <= q.now /\ revisions[j].recorded_at <= clock
      BY <1>5, <1>8, <3>3, RowsAreTyped DEF Clocks
    <3>5. KnownOf(revisions, q.now, 1) = KnownOf(revisions, clock, 1)
      BY <3>4 DEF KnownOf
    <3>6. ConfigurationAt(q.now, 1) = first
      BY <3>5, SameKnown, SameDefinitions
    <3> QED
      BY <2>1, <2>4, <3>6
  <2>9. \A i \in DOMAIN revisions' : revisions'[i].effective_turn > 1 =>
          revisions'[i].configuration.deadlines[1] = terms'[1] \/ JudgedByThePastOf(revisions', i)
    BY <1>1, <1>6, <1>7, <2>7, <2>8
  <2> QED
    BY <2>6, <2>9 DEF StartedTurnKeepsItsTerms, JudgedByThePast, JudgedByThePastOf
<1>16. StartedTurnKeepsItsTerms'
  BY <1>1, <1>15 DEF StartedTurnKeepsItsTerms
<1> QED
  BY <1>9, <1>10, <1>11, <1>12, <1>13, <1>14, <1>16

\* What a configuration is made of.
LEMMA Scenarios ==
  ASSUME NEW k \in ScenarioConfiguration, ValidGraph(k)
  PROVE  DOMAIN k.teams \subseteq Teams /\ k.deadlines[1] \in Deadlines
<1>1. k.deadlines \in Seq(Deadlines) /\ k.deadlines # <<>>
  BY DEF ScenarioConfiguration, ValidGraph
<1>2. PICK T \in SUBSET Teams : k.teams \in [T -> SUBSET Actors]
  BY DEF ScenarioConfiguration
<1> QED
  BY <1>1, <1>2

\* What an activation that commits finds: the row that governs when it was judged, and
\* the one that governs now, have the teams that are staffed.
LEMMA ActivationFinds ==
  ASSUME IInv, NEW c \in Clients, tx[c].pc = "commit", tx[c].op = "activate"
  PROVE  /\ game.status = "draft" /\ adjudicated /\ dataset = {}
         /\ ConfigurationAt(clock, 1) \in DOMAIN revisions
         /\ DOMAIN Governs(clock).teams \subseteq submitters
         /\ DOMAIN Governs(tx[c].now).teams = DOMAIN Governs(clock).teams
         /\ DOMAIN Governs(clock).teams \subseteq Teams
         /\ FirstDeadline \in Deadlines
<1> DEFINE now == tx[c].now
           then == ConfigurationAt(now, 1)
           first == ConfigurationAt(clock, 1)
<1>1. MayCommitActivation(tx[c])
  BY DEF IInv, Commits
<1>2. tx[c] \in Transaction /\ tx[c] # Idle
  BY Transactions DEF IInv, Locking
<1>3. now \in Nat /\ clock \in Nat /\ now <= clock
  BY <1>2, Transactions, ConfigurationAssumption DEF IInv, TypeOK, Clocks, Times
<1>4. revisions \in Rows /\ then # 0
  BY <1>1, <1>3, GoverningIsTurnOne DEF MayCommitActivation
<1>5. then \in DOMAIN revisions /\ then \in KnownOf(revisions, now, 1)
  BY <1>3, <1>4, GoverningIsTurnOne
<1>6. then \in KnownOf(revisions, clock, 1)
  BY <1>3, <1>4, <1>5, RowsAreTyped DEF KnownOf
<1>7. first \in DOMAIN revisions
  BY <1>3, <1>6, GoverningIsTurnOne
<1>8. Governs(now) = revisions[then].configuration /\ Governs(clock) = revisions[first].configuration
  BY <1>3, GoverningIsTurnOne DEF Governs
<1>9. revisions[then].configuration.teams = revisions[first].configuration.teams
  BY <1>5, <1>7 DEF IInv, Configurations, Roster
<1>10. revisions[first].configuration \in ScenarioConfiguration /\ ValidGraph(revisions[first].configuration)
  BY <1>4, <1>7, RowsAreTyped DEF IInv, Configurations
<1>11. DOMAIN revisions[first].configuration.teams \subseteq Teams /\ FirstDeadline \in Deadlines
  BY <1>10, Scenarios DEF FirstDeadline
<1>12. dataset = {}
  BY <1>1 DEF IInv, Statuses, MayCommitActivation
<1> QED
  BY <1>1, <1>7, <1>8, <1>9, <1>11, <1>12 DEF MayCommitActivation

\* activate_game: turn 1 starts with the deadline recorded as its terms.
LEMMA CommitActivationStep == ASSUME IInv, NEW c \in Clients, CommitActivation(c) PROVE IInv'
<1> USE DEF IInv
<1>1. /\ tx[c].pc = "commit" /\ tx[c].op = "activate" /\ Move(c, Idle)
      /\ game' = [status |-> "active", turn |-> 1]
      /\ dataset' = IF dataset = {} THEN DOMAIN Governs(tx[c].now).teams \cup {Reserved} ELSE dataset
      /\ terms' = <<FirstDeadline>>
      /\ UNCHANGED <<revisions, submitters, adjudicated, clock>>
  BY DEF CommitActivation
<1>2. /\ tx' \in [Clients -> {Idle} \cup Transaction]
      /\ \A d \in Clients : tx'[d] # Idle => tx'[d] = tx[d] /\ tx[d] # Idle
      /\ \A d \in Clients : tx'[d].pc # "commit"
  BY <1>1, Released
<1>3. /\ game.status = "draft" /\ dataset' \subseteq Teams \cup {Reserved}
      /\ FirstDeadline \in Deadlines
  BY <1>1, ActivationFinds
<1>4. TypeOK'
  <2>1. terms' \in {<<d>> : d \in Deadlines}
    BY <1>1, <1>3
  <2> QED
    BY <1>1, <1>2, <1>3, <2>1 DEF TypeOK
<1>5. Clocks' /\ Configurations'
  BY <1>1, <1>2 DEF Clocks, Configurations
<1>6. Locking'
  BY <1>1, <1>2 DEF Locking
<1>7. Statuses'
  BY <1>1, <1>3 DEF Statuses
<1>8. Commits'
  BY <1>2 DEF Commits
<1>9. StartedTurnKeepsItsTerms'
  <2>1. FirstDeadline' = FirstDeadline
    BY <1>1, SameRows DEF FirstDeadline
  <2>2. terms'[1] = FirstDeadline
    BY <1>1
  <2>3. \A i \in DOMAIN revisions' : ~(revisions'[i].effective_turn > 1)
    BY <1>1, <1>3 DEF Statuses
  <2> QED
    BY <2>1, <2>2, <2>3 DEF StartedTurnKeepsItsTerms
<1> QED
  BY <1>4, <1>5, <1>6, <1>7, <1>8, <1>9

\* Every game there is has a configuration that governs now.
LEMMA GovernedNow ==
  ASSUME IInv, game.status # "none"
  PROVE  ConfigurationAt(clock, 1) \in DOMAIN revisions /\ DOMAIN Governs(clock).teams \subseteq Teams
<1>1. revisions \in Rows /\ revisions # <<>> /\ clock \in Nat
  BY ConfigurationAssumption DEF IInv, TypeOK, Rows, Statuses, Times
<1>2. 1 \in DOMAIN revisions
  BY <1>1 DEF Rows
<1>3. 1 \in KnownOf(revisions, clock, 1)
  BY <1>1, <1>2 DEF IInv, Clocks, Statuses, KnownOf
<1>4. ConfigurationAt(clock, 1) \in DOMAIN revisions /\ Governing(clock) = ConfigurationAt(clock, 1)
  BY <1>1, <1>3, GoverningIsTurnOne
<1>5. Governs(clock) \in ScenarioConfiguration /\ ValidGraph(Governs(clock))
  BY <1>1, <1>4, RowsAreTyped DEF IInv, Configurations, Governs
<1> QED
  BY <1>4, <1>5, Scenarios

\* Memberships and roles change only while nobody else is past the lock.
LEMMA CommitStaffStep == ASSUME IInv, NEW c \in Clients, CommitStaff(c) PROVE IInv'
<1> USE DEF IInv
<1>1. /\ tx[c].pc = "commit" /\ tx[c].op = "staff" /\ Move(c, Idle)
      /\ UNCHANGED <<game, revisions, dataset, clock, terms>>
  BY DEF CommitStaff
<1>2. /\ tx[c] # Idle
      /\ tx' \in [Clients -> {Idle} \cup Transaction]
      /\ \A d \in Clients : tx'[d] # Idle => tx'[d] = tx[d] /\ tx[d] # Idle
      /\ \A d \in Clients : tx'[d].pc # "commit"
  BY <1>1, Released
<1>3. DOMAIN Governs(clock).teams \subseteq Teams
  BY <1>2, GovernedNow DEF Locking
<1>4. submitters' \subseteq Teams /\ adjudicated' \in BOOLEAN
  <2>1. \/ /\ \E t \in DOMAIN Governs(clock).teams :
               submitters' = IF t \in submitters THEN submitters \ {t} ELSE submitters \cup {t}
           /\ UNCHANGED adjudicated
        \/ adjudicated' = ~adjudicated /\ UNCHANGED submitters
    BY DEF CommitStaff
  <2> QED
    BY <1>3, <2>1 DEF TypeOK
<1>5. TypeOK'
  BY <1>1, <1>2, <1>4 DEF TypeOK
<1>6. Clocks' /\ Configurations' /\ Locking'
  BY <1>1, <1>2 DEF Clocks, Configurations, Locking
<1>7. Statuses' /\ Commits'
  BY <1>1, <1>2 DEF Statuses, Commits
<1>8. StartedTurnKeepsItsTerms'
  BY <1>1, SameTerms
<1> QED
  BY <1>5, <1>6, <1>7, <1>8

\* create_game: the first row governs turn 1.
LEMMA CreateGameStep == ASSUME IInv, NEW k \in Proposals, CreateGame(k) PROVE IInv'
<1> USE DEF IInv
<1> DEFINE row == [recorded_at |-> clock, effective_turn |-> 1, configuration |-> k,
                   supersedes |-> 0]
<1>1. /\ game.status = "none" /\ ValidGraph(k)
      /\ game' = [status |-> "draft", turn |-> 0]
      /\ revisions' = <<row>>
      /\ UNCHANGED <<submitters, adjudicated, dataset, clock, tx, terms>>
  BY DEF CreateGame
<1>2. row \in ConfigurationRevision
  BY ConfigurationAssumption DEF TypeOK, ConfigurationRevision
<1>3. /\ row.recorded_at = clock /\ row.effective_turn = 1 /\ row.configuration = k
  OBVIOUS
<1> HIDE DEF row
<1>4. revisions' \in Seq(ConfigurationRevision) /\ DOMAIN revisions' = {1} /\ revisions'[1] = row
  BY <1>1, <1>2
<1>5. clock \in Nat /\ \A c \in Clients : tx[c] = Idle
  BY <1>1, ConfigurationAssumption DEF TypeOK, Times, Locking
<1>6. TypeOK'
  BY <1>1, <1>4 DEF TypeOK
<1>7. Clocks' /\ Configurations'
  BY <1>1, <1>3, <1>4, <1>5 DEF Clocks, Configurations
<1>8. Locking' /\ Commits'
  BY <1>1, <1>5, Transactions DEF Locking, Commits
<1>9. Statuses'
  BY <1>1, <1>3, <1>4 DEF Statuses
<1>10. StartedTurnKeepsItsTerms'
  BY <1>1 DEF StartedTurnKeepsItsTerms
<1> QED
  BY <1>6, <1>7, <1>8, <1>9, <1>10

\* Every row is known already, so time makes none govern.
LEMMA TickStep == ASSUME IInv, Tick PROVE IInv'
<1> USE DEF IInv
<1>1. /\ clock < MaxTime /\ clock' = clock + 1
      /\ UNCHANGED <<game, revisions, submitters, adjudicated, dataset, tx, terms>>
  BY DEF Tick
<1>2. clock \in Nat /\ clock' \in Times /\ revisions \in Rows
  BY <1>1, ConfigurationAssumption DEF TypeOK, Times, Rows
<1>3. TypeOK'
  BY <1>1, <1>2 DEF TypeOK
<1>4. Clocks'
  <2>1. \A i \in DOMAIN revisions : revisions[i].recorded_at \in Nat
    BY <1>2, RowsAreTyped
  <2>2. \A c \in Clients : tx[c] # Idle => tx[c].now \in Nat
    BY Transactions DEF TypeOK
  <2> QED
    BY <1>1, <1>2, <2>1, <2>2 DEF Clocks
<1>5. Locking' /\ Statuses' /\ Configurations'
  BY <1>1 DEF Locking, Statuses, Configurations
<1>6. Commits'
  <2>1. \A at, turn : ConfigurationAt(at, turn)' = ConfigurationAt(at, turn)
    BY <1>1, SameRows
  <2> QED
    BY <1>1, <2>1 DEF Commits, MayCommitRevision, MayCommitActivation
<1>7. StartedTurnKeepsItsTerms'
  <2>1. KnownOf(revisions, clock, 1) = KnownOf(revisions, clock + 1, 1)
    <3>1. \A i \in DOMAIN revisions :
            revisions[i].recorded_at <= clock /\ revisions[i].recorded_at <= clock + 1
      BY <1>2, RowsAreTyped DEF Clocks
    <3> QED
      BY <3>1 DEF KnownOf
  <2>2. AtOf(revisions, clock, 1) = AtOf(revisions, clock + 1, 1)
    BY <2>1, SameKnown
  <2>3. FirstDeadline' = revisions'[AtOf(revisions', clock', 1)].configuration.deadlines[1]
    BY SameDefinitionsNext DEF FirstDeadline
  <2>4. FirstDeadline = revisions[AtOf(revisions, clock, 1)].configuration.deadlines[1]
    BY SameDefinitions DEF FirstDeadline
  <2>5. FirstDeadline' = FirstDeadline
    BY <1>1, <2>2, <2>3, <2>4
  <2> QED
    BY <1>1, <2>5 DEF StartedTurnKeepsItsTerms, JudgedByThePast
<1> QED
  BY <1>3, <1>4, <1>5, <1>6, <1>7

-----------------------------------------------------------------------------
(***************************************************************************)
(* Theorems.                                                               *)
(***************************************************************************)
\* Nothing is past the lock, stored or sent before the game is created.
LEMMA Initially == Init => IInv
<1> SUFFICES ASSUME Init PROVE IInv
  OBVIOUS
<1>1. TypeOK
  <2>1. revisions \in Seq(ConfigurationRevision) /\ clock \in Times
    BY ConfigurationAssumption DEF Init, Times
  <2>2. game \in [status : {"none", "draft", "active", "completed"}, turn : {0, 1}]
    BY DEF Init
  <2>3. \A c \in Clients : tx[c] = Idle
    BY DEF Init
  <2> QED
    BY <2>1, <2>2, <2>3 DEF Init, TypeOK
<1>2. Clocks /\ Configurations
  BY DEF Init, Clocks, Configurations
<1>3. Locking /\ Commits
  BY Transactions DEF Init, Locking, Commits
<1>4. Statuses /\ StartedTurnKeepsItsTerms
  BY DEF Init, Statuses, StartedTurnKeepsItsTerms
<1> QED
  BY <1>1, <1>2, <1>3, <1>4 DEF IInv

\* Nothing changes.
LEMMA StutterStep == ASSUME IInv, UNCHANGED vars PROVE IInv'
<1>1. UNCHANGED <<game, revisions, submitters, adjudicated, dataset, clock, tx, terms>>
  BY DEF vars
<1>2. \A at, turn : ConfigurationAt(at, turn)' = ConfigurationAt(at, turn)
  BY <1>1, SameRows
<1>3. TypeOK' /\ Clocks' /\ Locking' /\ Statuses' /\ Configurations'
  BY <1>1 DEF IInv, TypeOK, Clocks, Locking, Statuses, Configurations
<1>4. Commits'
  BY <1>1, <1>2 DEF IInv, Commits, MayCommitRevision, MayCommitActivation
<1>5. StartedTurnKeepsItsTerms'
  BY <1>1, SameTerms DEF IInv
<1> QED
  BY <1>3, <1>4, <1>5 DEF IInv

\* Every step of any handler of administration.py keeps the invariant.
LEMMA Inductive == IInv /\ [Next]_vars => IInv'
<1> SUFFICES ASSUME IInv, [Next]_vars PROVE IInv'
  OBVIOUS
<1>1. ASSUME NEW k \in Proposals, CreateGame(k) PROVE IInv'
  BY <1>1, CreateGameStep
<1>2. ASSUME NEW c \in Clients, Arrive(c) \/ Lose(c) \/ LockGame(c) PROVE IInv'
  BY <1>2, ArriveStep, LoseStep, LockGameStep
<1>3. ASSUME NEW c \in Clients, CommitRevision(c) \/ CommitActivation(c) \/ CommitStaff(c)
      PROVE  IInv'
  BY <1>3, CommitRevisionStep, CommitActivationStep, CommitStaffStep
<1>4. CASE Tick
  BY <1>4, TickStep
<1>5. CASE UNCHANGED vars
  BY <1>5, StutterStep
<1> QED
  BY <1>1, <1>2, <1>3, <1>4, <1>5 DEF Next

\* The invariant holds at all times.
THEOREM Invariance == Spec => []IInv
BY Initially, Inductive, PTL DEF Spec

\* The rows of the game, its staffing, its dataset and every transaction keep their types.
THEOREM TypesHold == Spec => []TypeOK
<1>1. IInv => TypeOK
  BY DEF IInv
<1> QED
  BY <1>1, Invariance, PTL

\* The turn that activation started keeps its deadline, in whatever governs it and in
\* every plan that was not judged by an older clock than a row before it.
THEOREM TermsAreKept == Spec => []StartedTurnKeepsItsTerms
<1>1. IInv => StartedTurnKeepsItsTerms
  BY DEF IInv
<1> QED
  BY <1>1, Invariance, PTL

\* Every configuration that is stored is valid and has the roster of the first.
THEOREM RosterIsKept == Spec => []Configurations
<1>1. IInv => Configurations
  BY DEF IInv
<1> QED
  BY <1>1, Invariance, PTL

\* The step that activates a game finds every team staffed under what governs then.
LEMMA ActivatesStaffed ==
  ASSUME IInv, [Next]_vars, game.status # "active", game'.status = "active"
  PROVE  /\ adjudicated
         /\ DOMAIN Governs(clock).teams \subseteq submitters
         /\ dataset' = DOMAIN Governs(clock).teams \cup {Reserved}
<1>1. game' # game
  OBVIOUS
<1>2. \A k \in Proposals : ~CreateGame(k)
  BY DEF CreateGame
<1>3. PICK c \in Clients : CommitActivation(c)
  BY <1>1, <1>2 DEF Next, vars, Arrive, Lose, LockGame, CommitRevision, CommitStaff, Tick, GameKeeps
<1>4. /\ tx[c].pc = "commit" /\ tx[c].op = "activate"
      /\ dataset' = IF dataset = {} THEN DOMAIN Governs(tx[c].now).teams \cup {Reserved} ELSE dataset
  BY <1>3 DEF CommitActivation
<1> QED
  BY <1>4, ActivationFinds

\* A game is activated only fully staffed, whatever was revised or withdrawn meanwhile.
THEOREM ActivatedStaffed == Spec => ActivationIsStaffed
<1>1. IInv /\ [Next]_vars =>
        [game.status # "active" /\ game'.status = "active" =>
           /\ adjudicated
           /\ DOMAIN Governs(clock).teams \subseteq submitters
           /\ dataset' = DOMAIN Governs(clock).teams \cup {Reserved}]_vars
  BY ActivatesStaffed
<1> QED
  BY <1>1, Invariance, PTL DEF Spec, ActivationIsStaffed

\* A step changes no answer about an instant before every clock read that is in use.
LEMMA PastStandsStep ==
  ASSUME IInv, [Next]_vars, NEW at \in Times, NEW turn \in Turns, at < clock,
         \A c \in Clients : tx[c] # Idle => at < tx[c].now
  PROVE  /\ ConfigurationAt(at, turn)' = ConfigurationAt(at, turn)
         /\ Scheduled(at, turn)' = Scheduled(at, turn)
<1>1. at \in Nat /\ turn \in Nat /\ clock \in Nat /\ revisions \in Rows
  BY ConfigurationAssumption DEF IInv, TypeOK, Times, Rows
<1>2. CASE UNCHANGED revisions
  BY <1>2, SameRows
<1>3. ASSUME NEW k \in Proposals, CreateGame(k)
      PROVE  /\ AtOf(revisions', at, turn) = AtOf(revisions, at, turn)
             /\ ScheduledOf(revisions', at, turn) = ScheduledOf(revisions, at, turn)
  <2>1. revisions = <<>>
    BY <1>3 DEF IInv, Statuses, CreateGame
  <2>2. DOMAIN revisions' = {1} /\ revisions'[1].recorded_at = clock
    BY <1>3 DEF CreateGame
  <2>3. DOMAIN revisions = {}
    BY <2>1
  <2>4. ~(clock <= at)
    BY <1>1
  <2>5. KnownOf(revisions', at, turn) = {} /\ KnownOf(revisions, at, turn) = {}
    BY <2>2, <2>3, <2>4 DEF KnownOf
  <2>6. ScheduledOf(revisions', at, turn) = {} /\ ScheduledOf(revisions, at, turn) = {}
    BY <2>2, <2>3, <2>4 DEF ScheduledOf
  <2> QED
    BY <2>5, <2>6 DEF AtOf
<1>4. ASSUME NEW c \in Clients, CommitRevision(c)
      PROVE  /\ AtOf(revisions', at, turn) = AtOf(revisions, at, turn)
             /\ ScheduledOf(revisions', at, turn) = ScheduledOf(revisions, at, turn)
  <2> DEFINE q == tx[c]
             row == [recorded_at |-> q.now, effective_turn |-> q.turn,
                     configuration |-> q.configuration, supersedes |-> q.supersedes]
  <2>1. q.pc = "commit" /\ q.op = "revise" /\ revisions' = Append(revisions, row)
    BY <1>4 DEF CommitRevision
  <2>2. q \in Transaction /\ q # Idle
    BY <2>1, Transactions DEF IInv, TypeOK
  <2>3. MayCommitRevision(q)
    BY <2>1 DEF IInv, Commits
  <2>4. row \in ConfigurationRevision
    BY <2>2, <2>3, Transactions DEF ConfigurationRevision, MayCommitRevision
  <2>5. row.recorded_at > at
    BY <1>1, <2>2, Transactions
  <2> HIDE DEF row
  <2> QED
    BY <1>1, <2>1, <2>4, <2>5, LaterRowIsUnknown
<1>5. \/ UNCHANGED revisions \/ \E k \in Proposals : CreateGame(k)
      \/ \E c \in Clients : CommitRevision(c)
  BY DEF Next, vars, Arrive, Lose, LockGame, CommitActivation, CommitStaff, Tick, GameKeeps
<1> QED
  BY <1>2, <1>3, <1>4, <1>5, SameDefinitions, SameDefinitionsNext

\* What governed at a past instant, and what was scheduled then, never changes once no
\* request that read the clock by then is left.
THEOREM PastStands == Spec => AnswersStand
<1>1. IInv /\ [Next]_vars =>
        [\A at \in Times, turn \in Turns :
           at < clock /\ (\A c \in Clients : tx[c] # Idle => at < tx[c].now) =>
             /\ ConfigurationAt(at, turn)' = ConfigurationAt(at, turn)
             /\ Scheduled(at, turn)' = Scheduled(at, turn)]_vars
  BY PastStandsStep
<1> QED
  BY <1>1, Invariance, PTL DEF Spec, AnswersStand
==============================================================================
