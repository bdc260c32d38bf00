-------------------------- MODULE WorkspaceProofs ---------------------------
(***************************************************************************)
(* Theorems about Workspace for every set of users, actions and texts, and *)
(* every deadline and bound.                                               *)
(***************************************************************************)
EXTENDS Workspace, FiniteSetTheorems, TLAPS

-----------------------------------------------------------------------------
(* The helpers.                                                            *)

LEMMA ExtendFacts ==
  ASSUME NEW f, NEW n, NEW x
  PROVE  /\ DOMAIN Extend(f, n, x) = DOMAIN f \cup {n}
         /\ Extend(f, n, x)[n] = x
         /\ \A m \in DOMAIN f \ {n} : Extend(f, n, x)[m] = f[m]
BY DEF Extend

LEMMA HighestIs ==
  ASSUME NEW S, S \subseteq Int, NEW m \in S, \A n \in S : n <= m
  PROVE  Highest(S) = m
<1>1. \A k \in S : (\A n \in S : n <= k) => k = m
  OBVIOUS
<1>2. \E k \in S : \A n \in S : n <= k
  OBVIOUS
<1> DEFINE top == CHOOSE k \in S : \A n \in S : n <= k
<1>3. top \in S /\ \A n \in S : n <= top
  BY <1>2, Zenon
<1> QED
  BY <1>1, <1>3, Zenon DEF Highest

LEMMA EmptyPackageIsPackage == IsPackage(EmptyPackage)
BY BlankAssumption, FS_EmptySet DEF IsPackage, EmptyPackage

LEMMA WithIntentionIsPackage ==
  ASSUME NEW p, IsPackage(p), NEW t \in Texts
  PROVE  IsPackage(WithIntention(p, t))
BY DEF IsPackage, WithIntention

LEMMA WithRowIsPackage ==
  ASSUME NEW p, IsPackage(p), NEW a \in ActionIds, NEW row \in ActionRow
  PROVE  IsPackage(WithRow(p, a, row))
<1>1. Extend(p.actions, a, row) \in [DOMAIN p.actions \cup {a} -> ActionRow]
  BY DEF IsPackage, Extend
<1>2. IsFiniteSet(DOMAIN p.actions \cup {a})
  BY FS_AddElement DEF IsPackage
<1>3. WithRow(p, a, row) =
        [intention |-> p.intention, actions |-> Extend(p.actions, a, row)]
  BY DEF WithRow, IsPackage
<1> QED
  BY <1>1, <1>2, <1>3 DEF IsPackage

LEMMA WithBodyIsPackage ==
  ASSUME NEW p, IsPackage(p), NEW a \in Live(p), NEW b \in Texts
  PROVE  IsPackage(WithBody(p, a, b))
<1>1. a \in ActionIds /\ [p.actions[a] EXCEPT !.body = b] \in ActionRow
  BY DEF IsPackage, Live, ActionRow
<1> QED
  BY <1>1, WithRowIsPackage DEF WithBody

LEMMA WithoutActionIsPackage ==
  ASSUME NEW p, IsPackage(p), NEW a \in DOMAIN p.actions
  PROVE  IsPackage(WithoutAction(p, a))
<1>1. a \in ActionIds /\ [p.actions[a] EXCEPT !.removed = TRUE] \in ActionRow
  BY DEF IsPackage, ActionRow
<1> QED
  BY <1>1, WithRowIsPackage DEF WithoutAction

\* Positions stay numbers because a package has finitely many actions.
LEMMA WithNewActionIsPackage ==
  ASSUME NEW p, IsPackage(p), NEW a \in ActionIds, NEW b \in Texts
  PROVE  IsPackage(WithNewAction(p, a, b))
<1>1. NextPosition(p) \in Nat
  BY FS_CardinalityType DEF NextPosition, IsPackage
<1>2. [body |-> b, removed |-> FALSE, position |-> NextPosition(p)] \in ActionRow
  BY <1>1 DEF ActionRow
<1> QED
  BY <1>2, WithRowIsPackage DEF WithNewAction

LEMMA WithOrderIsPackage ==
  ASSUME NEW p, IsPackage(p), NEW o \in Orders(p)
  PROVE  IsPackage(WithOrder(p, o))
<1>1. DOMAIN o = Live(p) /\ \A a \in DOMAIN o : o[a] \in Nat
  <2>1. IsFiniteSet(Live(p))
    BY FS_Subset DEF Live, IsPackage
  <2>2. Cardinality(Live(p)) \in Nat
    BY <2>1, FS_CardinalityType
  <2> QED
    BY <2>2 DEF Orders
<1> DEFINE acts == [a \in DOMAIN p.actions |->
                      [p.actions[a] EXCEPT !.position =
                         IF a \in DOMAIN o THEN o[a] ELSE @]]
<1>2. acts \in [DOMAIN p.actions -> ActionRow]
  BY <1>1 DEF IsPackage, ActionRow
<1> HIDE DEF acts
<1>3. WithOrder(p, o) = [intention |-> p.intention, actions |-> acts]
  BY DEF WithOrder, IsPackage, acts
<1> QED
  BY <1>2, <1>3 DEF IsPackage

LEMMA SubmissionSnapshotIsPackage ==
  ASSUME NEW p, IsPackage(p)
  PROVE  IsPackage(SubmissionSnapshot(p))
<1>1. IsFiniteSet(Live(p))
  BY FS_Subset DEF Live, IsPackage
<1> QED
  BY <1>1 DEF IsPackage, SubmissionSnapshot, Live, ActionRow

-----------------------------------------------------------------------------
(* The kinds of step, with what the type invariant needs to know of each.   *)

SomeEdit ==
  \E k, p : \E op \in EditOperations, e \in 0 .. draft.version :
    IsPackage(p) /\ SaveEdit(op, k, e, p)

SomeSubmission(Kind(_, _, _, _)) ==
  \E k : \E u \in Users, e \in 0 .. draft.version, c \in Confirmations :
    Kind(u, k, e, c)

SomeDecision ==
  \E k, s : \E u \in Users, v \in DOMAIN amendments, d \in Verdicts :
    Decide(u, k, s, v, d)

LEMMA EditCases ==
  ASSUME TypeOK, Edit
  PROVE  SomeEdit
<1>1. IsPackage(draft.package) /\ draft.version \in Nat
  BY DEF TypeOK, DraftTypeOK
<1>2. PICK e \in 0 .. draft.version :
        \/ \E k \in KeysToTry("intention"), t \in Texts : EditIntention(k, e, t)
        \/ \E k \in KeysToTry("action"), a \in ActionIds, b \in Texts :
             AddAction(k, e, a, b) \/ EditAction(k, e, a, b)
        \/ \E k \in KeysToTry("remove"), a \in ActionIds : RemoveAction(k, e, a)
        \/ \E k \in KeysToTry("reorder"), o \in Orders(draft.package) :
             ReorderActions(k, e, o)
        \/ \E k \in KeysToTry("comment") : Comment(k, e)
  BY DEF Edit
<1>3. ASSUME NEW k, NEW t \in Texts, EditIntention(k, e, t)
      PROVE  SomeEdit
  BY <1>1, <1>3, WithIntentionIsPackage DEF EditIntention, SomeEdit, EditOperations
<1>4. ASSUME NEW k, NEW a \in ActionIds, NEW b \in Texts, AddAction(k, e, a, b)
      PROVE  SomeEdit
  <2>1. SaveEdit("action", k, draft.version, WithNewAction(draft.package, a, b))
    BY <1>4 DEF AddAction
  <2>2. /\ IsPackage(WithNewAction(draft.package, a, b)) /\ "action" \in EditOperations
        /\ draft.version \in 0 .. draft.version
    BY <1>1, WithNewActionIsPackage DEF EditOperations
  <2> QED
    BY <2>1, <2>2 DEF SomeEdit
<1>5. ASSUME NEW k, NEW a \in ActionIds, NEW b \in Texts, EditAction(k, e, a, b)
      PROVE  SomeEdit
  BY <1>1, <1>5, WithBodyIsPackage DEF EditAction, SomeEdit, EditOperations
<1>6. ASSUME NEW k, NEW a \in ActionIds, RemoveAction(k, e, a)
      PROVE  SomeEdit
  BY <1>1, <1>6, WithoutActionIsPackage DEF RemoveAction, SomeEdit, EditOperations
<1>7. ASSUME NEW k, NEW o \in Orders(draft.package), ReorderActions(k, e, o)
      PROVE  SomeEdit
  BY <1>1, <1>7, WithOrderIsPackage DEF ReorderActions, SomeEdit, EditOperations
<1>8. ASSUME NEW k, Comment(k, e)
      PROVE  SomeEdit
  BY <1>1, <1>8 DEF Comment, SomeEdit, EditOperations
<1> QED
  BY <1>2, <1>3, <1>4, <1>5, <1>6, <1>7, <1>8

LEMMA NextCases ==
  ASSUME TypeOK, [Next]_vars
  PROVE  \/ SomeEdit
         \/ SomeSubmission(Submit)
         \/ SomeSubmission(AmendImmediately)
         \/ SomeSubmission(ProposeAmendment)
         \/ SomeDecision
         \/ Tick
         \/ UNCHANGED vars
<1>1. CASE Edit
  BY <1>1, EditCases
<1>2. CASE Confirm
  <2>1. PICK u \in Users, e \in 0 .. draft.version,
             c \in [effective : 0 .. submission.effective,
                    consequence : Consequences, late : BOOLEAN] :
          \/ \E k \in KeysToTry("submit") : Submit(u, k, e, c)
          \/ \E k \in KeysToTry("amend") :
               AmendImmediately(u, k, e, c) \/ ProposeAmendment(u, k, e, c)
    BY <1>2 DEF Confirm
  <2>2. c \in Confirmations
    BY DEF TypeOK, LifecycleTypeOK, Confirmations
  <2> QED
    BY <2>1, <2>2 DEF SomeSubmission
<1>3. CASE Review
  BY <1>3 DEF Review, SomeDecision
<1>4. CASE \E op \in Operations : \E k \in UsedKeys(op) : Replay(op, k)
  BY <1>4 DEF Replay
<1> QED
  BY <1>1, <1>2, <1>3, <1>4 DEF Next

-----------------------------------------------------------------------------
(* The inductive invariant.  What restore checks is not inductive: it says  *)
(* nothing of the order of versions, of what a pending proposal rests on or *)
(* of when content was submitted, and the next step depends on all three.   *)

Count == Cardinality(DOMAIN contents)

\* Contents are numbered without gaps, and exist once there is a submission.
Numbered ==
  /\ DOMAIN contents = 1 .. Count
  /\ Submitted <=> Count > 0
  /\ Submitted => submission.deadline = Deadline

\* How each content got, or did not get, its effective event.
Provenance ==
  \A v \in DOMAIN contents :
    \/ /\ v = 1 /\ v \notin DOMAIN amendments /\ v \in DOMAIN events
       /\ events[v] = [mechanism |-> "initial", by |-> contents[v].by,
                       at |-> contents[v].at, decision |-> 0]
    \/ /\ v > 1 /\ v \notin DOMAIN amendments /\ v \in DOMAIN events
       /\ contents[v].at < Deadline
       /\ events[v] = [mechanism |-> "immediate_revision", by |-> contents[v].by,
                       at |-> contents[v].at, decision |-> 0]
    \/ /\ v > 1 /\ v \in DOMAIN amendments
       /\ contents[v].at >= Deadline
       /\ v \in DOMAIN events <=> amendments[v].status = "accepted"
       /\ v \in DOMAIN events =>
            events[v] = [mechanism |-> "adjudicator_acceptance", by |-> decisions[v].by,
                         at |-> decisions[v].at, decision |-> v]

Decided ==
  \A v \in DOMAIN amendments :
    IF amendments[v].status = "pending"
      THEN v \notin DOMAIN decisions
      ELSE v \in DOMAIN decisions /\ decisions[v].decision = amendments[v].status

EffectiveIsNewest ==
  IF Submitted
    THEN /\ submission.effective \in DOMAIN events
         /\ \A w \in DOMAIN events : w <= submission.effective
    ELSE submission.effective = 0

PendingIsNewest ==
  /\ \A v \in DOMAIN amendments : amendments[v].status = "pending" =>
       /\ v = Count
       /\ amendments[v].base = submission.effective
       /\ submission.status = "amendment_pending"
  /\ submission.status = "amendment_pending" =>
       Count \in DOMAIN amendments /\ amendments[Count].status = "pending"

BaseIsPredecessor ==
  \A v \in DOMAIN amendments \cap DOMAIN events :
    /\ amendments[v].base \in DOMAIN events
    /\ amendments[v].base < v
    /\ \A w \in DOMAIN events : w < v => w <= amendments[v].base

HistoryInv ==
  /\ Numbered
  /\ Provenance
  /\ Decided
  /\ EffectiveIsNewest
  /\ PendingIsNewest
  /\ BaseIsPredecessor

\* The newest saved version is the draft, and each content is the live part of the
\* version its submitter named.
PackageInv ==
  /\ draft.package = PackageAt(draft.version)
  /\ ReviewedIsSubmitted

IInv == TypeOK /\ HistoryInv /\ PackageInv

(* The initial state.                                                      *)

LEMMA InitIInv == Init => IInv
<1> SUFFICES ASSUME Init PROVE IInv
  OBVIOUS
<1>1. TypeOK
  BY EmptyPackageIsPackage, FS_EmptySet
  DEF Init, TypeOK, DraftTypeOK, LifecycleTypeOK, RequestTypeOK, Results
<1>2. Count = 0
  BY FS_EmptySet DEF Init, Count
<1>3. HistoryInv
  BY <1>2 DEF Init, HistoryInv, Numbered, Provenance, Decided, EffectiveIsNewest,
              PendingIsNewest, BaseIsPredecessor, Submitted
<1>4. PackageInv
  BY DEF Init, PackageInv, PackageAt, ReviewedIsSubmitted
<1> QED
  BY <1>1, <1>3, <1>4 DEF IInv

-----------------------------------------------------------------------------
(* Saving the draft, which every command but a decision does.              *)

LEMMA IntervalGrows == \A n \in Nat : (1 .. n) \cup {n + 1} = 1 .. (n + 1)
OBVIOUS

\* What a claim of a key keeps.
LEMMA ClaimTypes ==
  ASSUME RequestTypeOK, NEW op \in Operations, NEW k, NEW id \in Nat,
         NEW kind \in {"package_revision", "amendment_decision"},
         NEW c \in [confirmed : Confirmations, content : Nat],
         ClaimRequestKey(op, k, kind, id, c)
  PROVE  RequestTypeOK'
<1> DEFINE res == [kind |-> kind, id |-> id, completion |-> c]
<1>1. res \in Results
  BY DEF Results
<1>2. requests' = [requests EXCEPT ![op] = Extend(requests[op], k, res)]
  BY DEF ClaimRequestKey, RequestTypeOK
<1> HIDE DEF res
<1>3. DOMAIN requests' = Operations
  BY <1>2 DEF RequestTypeOK
<1>4. ASSUME NEW o \in Operations, NEW j \in DOMAIN requests'[o]
      PROVE  requests'[o][j] \in Results
  <2>1. requests'[o] = IF o = op THEN Extend(requests[op], k, res) ELSE requests[o]
    BY <1>2 DEF RequestTypeOK
  <2>2. j \in DOMAIN requests[o] => requests[o][j] \in Results
    BY DEF RequestTypeOK
  <2>3. CASE o = op
    BY <1>1, <2>1, <2>2, <2>3 DEF Extend
  <2>4. CASE o # op
    BY <2>1, <2>2, <2>4
  <2> QED
    BY <2>3, <2>4
<1> QED
  BY <1>3, <1>4 DEF RequestTypeOK

LEMMA SaveDraftTypes ==
  ASSUME TypeOK, NEW op \in Operations \ {"decide"}, NEW k,
         NEW e \in 0 .. draft.version, NEW p, IsPackage(p),
         NEW c \in [confirmed : Confirmations, content : Nat],
         SaveDraft(op, k, e, p, c)
  PROVE  /\ DraftTypeOK' /\ RequestTypeOK' /\ now' = now
         /\ draft'.version = draft.version + 1 /\ draft'.package = p
         /\ draft'.version \in DOMAIN revisions'
         /\ revisions'[draft'.version] = [package |-> p, op |-> op, base |-> e]
         /\ \A m \in DOMAIN revisions :
              m \in DOMAIN revisions' /\ revisions'[m] = revisions[m]
<1> DEFINE n == draft.version + 1
           rev == [package |-> p, op |-> op, base |-> e]
<1>1. /\ now' = now /\ draft' = [version |-> n, package |-> p]
      /\ revisions' = Extend(revisions, n, rev)
      /\ ClaimRequestKey(op, k, "package_revision", n, c)
  BY DEF SaveDraft
<1>2. draft.version \in Nat /\ DOMAIN revisions = 1 .. draft.version
  BY DEF TypeOK, DraftTypeOK
<1>3. DOMAIN revisions' = 1 .. n
  <2>1. DOMAIN revisions' = DOMAIN revisions \cup {n}
    BY <1>1, ExtendFacts
  <2> QED
    BY <1>2, <2>1, IntervalGrows
<1>4. revisions'[n] = rev /\ \A m \in DOMAIN revisions : revisions'[m] = revisions[m]
  <2>1. n \notin DOMAIN revisions
    BY <1>2
  <2> QED
    BY <1>1, <2>1 DEF Extend
<1>5. \A m \in DOMAIN revisions' : m = n \/ m \in DOMAIN revisions
  BY <1>2, <1>3
<1>6. RequestTypeOK'
  <2>1. op \in Operations /\ n \in Nat /\ RequestTypeOK
    BY <1>2 DEF TypeOK
  <2> HIDE DEF n
  <2> QED
    BY <1>1, <2>1, ClaimTypes
<1>7. ASSUME NEW m \in DOMAIN revisions'
      PROVE  /\ revisions'[m] = [package |-> revisions'[m].package,
                                 op |-> revisions'[m].op, base |-> revisions'[m].base]
             /\ IsPackage(revisions'[m].package)
             /\ revisions'[m].op \in Operations \ {"decide"}
             /\ revisions'[m].base \in 0 .. (m - 1)
  <2>1. CASE m = n
    BY <1>2, <1>4, <2>1
  <2>2. CASE m \in DOMAIN revisions
    BY <1>4, <2>2 DEF TypeOK, DraftTypeOK
  <2> QED
    BY <1>5, <2>1, <2>2
<1>8. DraftTypeOK'
  BY <1>1, <1>2, <1>3, <1>7 DEF DraftTypeOK, TypeOK
<1> QED
  BY <1>1, <1>2, <1>3, <1>4, <1>6, <1>8

LEMMA NoCompletionType ==
  NoCompletion \in [confirmed : Confirmations, content : Nat]
BY DEF NoCompletion, Confirmations, Consequences

LEMMA EditKeepsIInv ==
  ASSUME IInv, SomeEdit
  PROVE  IInv'
<1>1. PICK k, p : \E op \in EditOperations, e \in 0 .. draft.version :
        IsPackage(p) /\ SaveEdit(op, k, e, p)
  BY DEF SomeEdit
<1>2. PICK op \in EditOperations, e \in 0 .. draft.version :
        IsPackage(p) /\ SaveEdit(op, k, e, p)
  BY <1>1
<1>3. SaveDraft(op, k, e, p, NoCompletion) /\ UNCHANGED lifecycleVars
  BY <1>2 DEF SaveEdit
<1>4. /\ DraftTypeOK' /\ RequestTypeOK'
      /\ draft'.version = draft.version + 1 /\ draft'.package = p
      /\ draft'.version \in DOMAIN revisions'
      /\ revisions'[draft'.version] = [package |-> p, op |-> op, base |-> e]
      /\ \A m \in DOMAIN revisions :
           m \in DOMAIN revisions' /\ revisions'[m] = revisions[m]
  <2>1. op \in Operations \ {"decide"}
    BY DEF EditOperations, Operations
  <2> QED
    BY <1>2, <1>3, <2>1, NoCompletionType, SaveDraftTypes DEF IInv
<1>5. LifecycleTypeOK'
  BY <1>3 DEF IInv, TypeOK, LifecycleTypeOK, lifecycleVars
<1>6. HistoryInv'
  BY <1>3 DEF IInv, HistoryInv, Numbered, Provenance, Decided, EffectiveIsNewest,
              PendingIsNewest, BaseIsPredecessor, Submitted, Count, lifecycleVars
<1>7. PackageInv'
  <2>1. draft'.package = PackageAt(draft.version)'
    <3>1. draft'.version # 0
      BY <1>4 DEF IInv, TypeOK, DraftTypeOK
    <3> QED
      BY <1>4, <3>1 DEF PackageAt
  <2>2. ReviewedIsSubmitted'
    BY <1>3, <1>4 DEF IInv, PackageInv, ReviewedIsSubmitted, lifecycleVars
  <2> QED
    BY <2>1, <2>2 DEF PackageInv
<1> QED
  BY <1>4, <1>5, <1>6, <1>7 DEF IInv, TypeOK

-----------------------------------------------------------------------------
(* Submitting: the parts submit and amend share.                           *)

LEMMA CountFacts ==
  ASSUME IInv
  PROVE  /\ Count \in Nat /\ DOMAIN contents = 1 .. Count
         /\ NextContentVersion = Count + 1
<1>1. IsFiniteSet(DOMAIN contents)
  BY DEF IInv, TypeOK, LifecycleTypeOK
<1>2. Count \in Nat /\ DOMAIN contents = 1 .. Count
  BY <1>1, FS_CardinalityType DEF Count, IInv, HistoryInv, Numbered
<1>3. CASE Submitted
  <2>1. Count > 0
    BY <1>3 DEF IInv, HistoryInv, Numbered
  <2>2. Highest(1 .. Count) = Count
    <3>1. 1 .. Count \subseteq Int /\ Count \in 1 .. Count /\ \A n \in 1 .. Count : n <= Count
      BY <1>2, <2>1
    <3> QED
      BY <3>1, HighestIs, Zenon
  <2> QED
    BY <1>2, <1>3, <2>2 DEF NextContentVersion
<1>4. CASE ~Submitted
  <2>1. Count = 0
    BY <1>2, <1>4 DEF IInv, HistoryInv, Numbered
  <2> QED
    BY <1>2, <1>4, <2>1 DEF NextContentVersion
<1> QED
  BY <1>2, <1>3, <1>4

LEMMA SubmitPackageFacts ==
  ASSUME IInv, NEW op \in SubmitOperations, NEW u \in Users, NEW k,
         NEW e \in 0 .. draft.version, NEW c \in Confirmations,
         SubmitPackage(op, u, k, e, c)
  PROVE  /\ DraftTypeOK' /\ RequestTypeOK' /\ now' = now /\ now \in Nat
         /\ PackageInv'
         /\ DOMAIN contents' = 1 .. (Count + 1) /\ Count' = Count + 1
         /\ IsFiniteSet(DOMAIN contents')
         /\ \A v \in DOMAIN contents : contents'[v] = contents[v]
         /\ IsPackage(contents'[Count + 1].snapshot)
         /\ contents'[Count + 1] =
              [snapshot |-> SubmissionSnapshot(draft.package), by |-> u, at |-> now,
               reviewed |-> e]
         /\ e \in Nat
<1> DEFINE next == Count + 1
           new == [snapshot |-> SubmissionSnapshot(draft.package), by |-> u,
                   at |-> now, reviewed |-> e]
<1>1. /\ Count \in Nat /\ DOMAIN contents = 1 .. Count /\ NextContentVersion = next
  BY CountFacts
<1>2. /\ TypeOK /\ e \in Nat /\ IsPackage(draft.package)
      /\ DOMAIN revisions = 1 .. draft.version /\ now \in Nat
      /\ draft.version \in Nat
  BY DEF IInv, TypeOK, DraftTypeOK
<1>3. /\ e = draft.version /\ draft.package.intention # Blank
      /\ SaveDraft(op, k, e, draft.package, [confirmed |-> c, content |-> next])
      /\ contents' = Extend(contents, next, new)
  BY <1>1 DEF SubmitPackage, CurrentBaseline, Complete, AddContent
<1>4. /\ DraftTypeOK' /\ RequestTypeOK' /\ now' = now
      /\ draft'.version = draft.version + 1 /\ draft'.package = draft.package
      /\ draft'.version \in DOMAIN revisions'
      /\ revisions'[draft'.version] = [package |-> draft.package, op |-> op, base |-> e]
      /\ \A m \in DOMAIN revisions :
           m \in DOMAIN revisions' /\ revisions'[m] = revisions[m]
  <2>1. /\ op \in Operations \ {"decide"}
        /\ [confirmed |-> c, content |-> next] \in [confirmed : Confirmations, content : Nat]
    BY <1>1 DEF SubmitOperations, Operations
  <2> HIDE DEF next
  <2> QED
    BY <1>2, <1>3, <2>1, SaveDraftTypes
\* A package with nothing in it is refused, so version 0 is never submitted.
<1>5. e \in DOMAIN revisions /\ draft.package = revisions[e].package
  <2>1. e # 0
    BY <1>3 DEF IInv, PackageInv, PackageAt, EmptyPackage
  <2> QED
    BY <1>2, <1>3, <2>1 DEF IInv, PackageInv, PackageAt
<1>6. /\ DOMAIN contents' = 1 .. next /\ contents'[next] = new
      /\ \A v \in DOMAIN contents : contents'[v] = contents[v]
  <2>1. next \notin DOMAIN contents
    BY <1>1
  <2>2. DOMAIN contents \cup {next} = 1 .. next
    BY <1>1, IntervalGrows
  <2> HIDE DEF next, new
  <2> QED
    BY <1>3, <2>1, <2>2 DEF Extend
<1>7. IsFiniteSet(1 .. next) /\ Cardinality(1 .. next) = next
  BY <1>1, FS_Interval
<1>8. IsPackage(contents'[next].snapshot)
  BY <1>2, <1>6, SubmissionSnapshotIsPackage
<1>9. draft'.package = PackageAt(draft.version)'
  BY <1>2, <1>4 DEF PackageAt
<1>10. ASSUME NEW v \in DOMAIN contents'
       PROVE  /\ contents'[v].reviewed \in DOMAIN revisions'
              /\ contents'[v].snapshot =
                   SubmissionSnapshot(revisions'[contents'[v].reviewed].package)
  <2>1. CASE v \in DOMAIN contents
    BY <1>4, <1>6, <2>1 DEF IInv, PackageInv, ReviewedIsSubmitted
  <2>2. CASE v = next
    BY <1>4, <1>5, <1>6, <2>2
  <2>3. v \in DOMAIN contents \/ v = next
    BY <1>1, <1>6
  <2> QED
    BY <2>1, <2>2, <2>3
<1> QED
  BY <1>2, <1>4, <1>6, <1>7, <1>8, <1>9, <1>10
  DEF PackageInv, ReviewedIsSubmitted, Count


\* Content typing after a submission.
ContentsTypeOK ==
  /\ DOMAIN contents \subseteq Nat \ {0} /\ IsFiniteSet(DOMAIN contents)
  /\ \A v \in DOMAIN contents :
       /\ contents[v] = [snapshot |-> contents[v].snapshot, by |-> contents[v].by,
                         at |-> contents[v].at, reviewed |-> contents[v].reviewed]
       /\ IsPackage(contents[v].snapshot)
       /\ contents[v].by \in Users /\ contents[v].at \in Nat
       /\ contents[v].reviewed \in Nat

LEMMA SubmitPackageTypes ==
  ASSUME IInv, NEW op \in SubmitOperations, NEW u \in Users, NEW k,
         NEW e \in 0 .. draft.version, NEW c \in Confirmations,
         SubmitPackage(op, u, k, e, c)
  PROVE  ContentsTypeOK'
<1>1. /\ now \in Nat /\ e \in Nat /\ Count \in Nat /\ DOMAIN contents = 1 .. Count
      /\ DOMAIN contents' = 1 .. (Count + 1) /\ IsFiniteSet(DOMAIN contents')
      /\ IsPackage(contents'[Count + 1].snapshot)
      /\ contents'[Count + 1] =
           [snapshot |-> SubmissionSnapshot(draft.package), by |-> u, at |-> now,
            reviewed |-> e]
      /\ \A v \in DOMAIN contents : contents'[v] = contents[v]
  BY SubmitPackageFacts, CountFacts
<1>2. \A v \in DOMAIN contents' : v = Count + 1 \/ v \in DOMAIN contents
  BY <1>1
<1>3. ASSUME NEW v \in DOMAIN contents'
      PROVE  /\ contents'[v] = [snapshot |-> contents'[v].snapshot,
                                by |-> contents'[v].by, at |-> contents'[v].at,
                                reviewed |-> contents'[v].reviewed]
             /\ IsPackage(contents'[v].snapshot)
             /\ contents'[v].by \in Users /\ contents'[v].at \in Nat
             /\ contents'[v].reviewed \in Nat
  <2>1. CASE v = Count + 1
    BY <1>1, <2>1
  <2>2. CASE v \in DOMAIN contents
    BY <1>1, <2>2 DEF IInv, TypeOK, LifecycleTypeOK
  <2> QED
    BY <1>2, <2>1, <2>2
<1>4. DOMAIN contents' \subseteq Nat \ {0}
  BY <1>1
<1> QED
  BY <1>1, <1>3, <1>4 DEF ContentsTypeOK

LEMMA SubmitKeepsIInv ==
  ASSUME IInv, SomeSubmission(Submit)
  PROVE  IInv'
<1>1. PICK k : \E u \in Users, e \in 0 .. draft.version, c \in Confirmations :
        Submit(u, k, e, c)
  BY DEF SomeSubmission
<1>2. PICK u \in Users, e \in 0 .. draft.version, c \in Confirmations : Submit(u, k, e, c)
  BY <1>1
<1>3. /\ SubmitPackage("submit", u, k, e, c)
      /\ submission' = [status |-> "submitted", version |-> 1, effective |-> 1,
                        deadline |-> Deadline]
      /\ events' = Extend(events, 1, [mechanism |-> "initial", by |-> u, at |-> now,
                                      decision |-> 0])
      /\ UNCHANGED <<amendments, decisions>>
  BY <1>2 DEF Submit, RecordEvent
<1>4. "submit" \in SubmitOperations
  BY DEF SubmitOperations
<1>5. /\ DraftTypeOK' /\ RequestTypeOK' /\ PackageInv' /\ now \in Nat
      /\ DOMAIN contents' = 1 .. (Count + 1) /\ Count' = Count + 1
      /\ contents'[Count + 1].by = u /\ contents'[Count + 1].at = now
      /\ ContentsTypeOK'
  <2>1. ContentsTypeOK'
    BY <1>3, <1>4, SubmitPackageTypes
  <2>2. /\ DraftTypeOK' /\ RequestTypeOK' /\ PackageInv' /\ now \in Nat
        /\ DOMAIN contents' = 1 .. (Count + 1) /\ Count' = Count + 1
        /\ contents'[Count + 1] =
             [snapshot |-> SubmissionSnapshot(draft.package), by |-> u, at |-> now,
              reviewed |-> e]
    BY <1>3, <1>4, SubmitPackageFacts
  <2> QED
    BY <2>1, <2>2
<1>6. ~Submitted /\ Count = 0 /\ DOMAIN contents = {}
  <2>1. ~Submitted
    BY <1>3 DEF SubmitPackage, SubmittableStatus, Submitted
  <2> QED
    BY <2>1, CountFacts DEF IInv, HistoryInv, Numbered
<1>7. DOMAIN amendments = {} /\ DOMAIN decisions = {} /\ DOMAIN events = {}
  BY <1>6 DEF IInv, TypeOK, LifecycleTypeOK
<1>8. DOMAIN contents' = {1} /\ Count' = 1
  BY <1>5, <1>6
<1>9. /\ DOMAIN events' = {1}
       /\ events'[1] = [mechanism |-> "initial", by |-> u, at |-> now, decision |-> 0]
  BY <1>3, <1>7 DEF Extend
<1>10. LifecycleTypeOK'
  BY <1>3, <1>5, <1>7, <1>8, <1>9, NumberAssumption
  DEF LifecycleTypeOK, ContentsTypeOK
<1>11. HistoryInv'
  <2>1. Numbered'
    BY <1>3, <1>8 DEF Numbered, Submitted
  <2>2. Provenance'
    BY <1>3, <1>5, <1>6, <1>7, <1>8, <1>9 DEF Provenance
  <2>3. Decided' /\ BaseIsPredecessor'
    BY <1>3, <1>7 DEF Decided, BaseIsPredecessor
  <2>4. EffectiveIsNewest'
    BY <1>3, <1>9 DEF EffectiveIsNewest, Submitted
  <2>5. PendingIsNewest'
    BY <1>3, <1>7 DEF PendingIsNewest
  <2> QED
    BY <2>1, <2>2, <2>3, <2>4, <2>5 DEF HistoryInv
<1> QED
  BY <1>5, <1>10, <1>11 DEF IInv, TypeOK

\* What is known when a revision of submitted content is stored as version Count + 1.
LEMMA AmendFacts ==
  ASSUME IInv, NEW u \in Users, NEW k, NEW e \in 0 .. draft.version,
         NEW c \in Confirmations, SubmitPackage("amend", u, k, e, c)
  PROVE  /\ DraftTypeOK' /\ RequestTypeOK' /\ PackageInv' /\ ContentsTypeOK'
         /\ now \in Nat /\ now' = now
         /\ DOMAIN contents = 1 .. Count
         /\ DOMAIN contents' = 1 .. (Count + 1) /\ Count' = Count + 1
         /\ \A v \in DOMAIN contents : v # Count + 1 /\ contents'[v] = contents[v]
         /\ \A v \in DOMAIN contents' : v \in DOMAIN contents \/ v = Count + 1
         /\ contents'[Count + 1].by = u /\ contents'[Count + 1].at = now
         /\ Count \in Nat /\ Count > 0 /\ Count + 1 \in Nat
         /\ Submitted /\ submission.status = "submitted"
         /\ submission.deadline = Deadline /\ Deadline \in Nat
         /\ \A v \in DOMAIN amendments : amendments[v].status # "pending"
         /\ NextContentVersion = Count + 1
<1>1. "amend" \in SubmitOperations
  BY DEF SubmitOperations
<1>2. ContentsTypeOK'
  BY <1>1, SubmitPackageTypes
<1>3. /\ DraftTypeOK' /\ RequestTypeOK' /\ PackageInv' /\ now \in Nat /\ now' = now
      /\ DOMAIN contents' = 1 .. (Count + 1) /\ Count' = Count + 1
      /\ \A v \in DOMAIN contents : contents'[v] = contents[v]
      /\ contents'[Count + 1] =
           [snapshot |-> SubmissionSnapshot(draft.package), by |-> u, at |-> now,
            reviewed |-> e]
  BY <1>1, SubmitPackageFacts
<1>4. Submitted /\ submission.status = "submitted"
  BY DEF SubmitPackage, SubmittableStatus, Submitted
<1>5. /\ Count \in Nat /\ Count > 0 /\ DOMAIN contents = 1 .. Count
      /\ submission.deadline = Deadline /\ Deadline \in Nat
      /\ NextContentVersion = Count + 1
  BY <1>4, CountFacts, NumberAssumption DEF IInv, HistoryInv, Numbered
<1>6. \A v \in DOMAIN amendments : amendments[v].status # "pending"
  BY <1>4 DEF IInv, HistoryInv, PendingIsNewest
<1>7. /\ \A v \in DOMAIN contents : v # Count + 1
      /\ \A v \in DOMAIN contents' : v \in DOMAIN contents \/ v = Count + 1
      /\ Count + 1 \in Nat
  BY <1>3, <1>5
<1> QED
  BY <1>2, <1>3, <1>4, <1>5, <1>6, <1>7

LEMMA AmendImmediatelyKeepsIInv ==
  ASSUME IInv, SomeSubmission(AmendImmediately)
  PROVE  IInv'
<1>1. PICK k : \E u \in Users, e \in 0 .. draft.version, c \in Confirmations :
        AmendImmediately(u, k, e, c)
  BY DEF SomeSubmission
<1>2. PICK u \in Users, e \in 0 .. draft.version, c \in Confirmations :
        AmendImmediately(u, k, e, c)
  BY <1>1
<1> DEFINE n == Count + 1
<1>3. SubmitPackage("amend", u, k, e, c)
  BY <1>2 DEF AmendImmediately
<1>4. /\ DraftTypeOK' /\ RequestTypeOK' /\ PackageInv' /\ ContentsTypeOK'
      /\ now \in Nat /\ DOMAIN contents = 1 .. Count
      /\ DOMAIN contents' = 1 .. n /\ Count' = n
      /\ \A v \in DOMAIN contents : v # n /\ contents'[v] = contents[v]
      /\ \A v \in DOMAIN contents' : v \in DOMAIN contents \/ v = n
      /\ contents'[n].by = u /\ contents'[n].at = now
      /\ Count \in Nat /\ Count > 0 /\ n \in Nat
      /\ Submitted /\ submission.status = "submitted"
      /\ submission.deadline = Deadline /\ Deadline \in Nat
      /\ \A v \in DOMAIN amendments : amendments[v].status # "pending"
      /\ NextContentVersion = n
  BY <1>3, AmendFacts
<1>5. /\ submission' = [submission EXCEPT !.effective = n, !.version = @ + 1]
      /\ events' = Extend(events, n, [mechanism |-> "immediate_revision", by |-> u,
                                      at |-> now, decision |-> 0])
      /\ amendments' = amendments /\ decisions' = decisions
      /\ now < Deadline
  <2>1. now < Deadline
    <3>1. ~Late
      BY <1>2, <1>4 DEF AmendImmediately, ConsequenceNow
    <3> QED
      BY <1>4, <3>1 DEF Late, TurnDeadline
  <2> HIDE DEF n
  <2> QED
    BY <1>2, <1>4, <2>1 DEF AmendImmediately, RecordEvent
<1>6. /\ DOMAIN amendments \subseteq DOMAIN contents
      /\ DOMAIN decisions \subseteq DOMAIN amendments
      /\ DOMAIN events \subseteq DOMAIN contents
      /\ submission \in [status : {"none", "submitted", "amendment_pending"},
                         version : Nat, effective : Nat, deadline : Nat]
  BY DEF IInv, TypeOK, LifecycleTypeOK
<1>7. /\ DOMAIN events' = DOMAIN events \cup {n} /\ n \notin DOMAIN events
      /\ events'[n] = [mechanism |-> "immediate_revision", by |-> u, at |-> now,
                       decision |-> 0]
      /\ \A v \in DOMAIN events : events'[v] = events[v]
  BY <1>4, <1>5, <1>6 DEF Extend
<1>8. /\ submission'.status = "submitted" /\ submission'.effective = n
      /\ submission'.deadline = Deadline
      /\ submission' \in [status : {"none", "submitted", "amendment_pending"},
                          version : Nat, effective : Nat, deadline : Nat]
  <2> HIDE DEF n
  <2>1. submission.version + 1 \in Nat /\ n \in Nat
    BY <1>4, <1>6
  <2> QED
    BY <1>4, <1>5, <1>6, <2>1
<1> HIDE DEF n
<1>9. LifecycleTypeOK'
  <2>1. n \in DOMAIN contents' /\ DOMAIN contents \subseteq DOMAIN contents'
    BY <1>4 DEF n
  <2>2. DOMAIN amendments' \subseteq DOMAIN contents' /\ DOMAIN events' \subseteq DOMAIN contents'
    BY <1>5, <1>6, <1>7, <2>1
  <2>3. \A v \in DOMAIN events' :
          events'[v] \in [mechanism : {"initial", "adjudicator_acceptance",
                                       "immediate_revision"},
                          by : Users, at : Nat, decision : Nat]
    BY <1>4, <1>7 DEF IInv, TypeOK, LifecycleTypeOK
  <2>4. /\ \A v \in DOMAIN amendments' :
             amendments'[v] \in [base : Nat, status : Verdicts \cup {"pending"}]
        /\ DOMAIN decisions' \subseteq DOMAIN amendments'
        /\ \A v \in DOMAIN decisions' :
             decisions'[v] \in [decision : Verdicts, by : Users, at : Nat]
    BY <1>5 DEF IInv, TypeOK, LifecycleTypeOK
  <2> QED
    BY <1>4, <1>8, <2>2, <2>3, <2>4 DEF LifecycleTypeOK, ContentsTypeOK
<1>10. Numbered'
  BY <1>4, <1>8 DEF Numbered, Submitted, n
<1>11. Provenance'
  <2>1. n > 1 /\ n \notin DOMAIN amendments'
    BY <1>4, <1>5, <1>6 DEF n
  <2>2. \A v \in DOMAIN contents : v \in DOMAIN events' <=> v \in DOMAIN events
    BY <1>4, <1>7
  <2>3. ASSUME NEW v \in DOMAIN contents
        PROVE  \/ /\ v = 1 /\ v \notin DOMAIN amendments' /\ v \in DOMAIN events'
                  /\ events'[v] = [mechanism |-> "initial", by |-> contents'[v].by,
                                   at |-> contents'[v].at, decision |-> 0]
               \/ /\ v > 1 /\ v \notin DOMAIN amendments' /\ v \in DOMAIN events'
                  /\ contents'[v].at < Deadline
                  /\ events'[v] = [mechanism |-> "immediate_revision",
                                   by |-> contents'[v].by, at |-> contents'[v].at,
                                   decision |-> 0]
               \/ /\ v > 1 /\ v \in DOMAIN amendments'
                  /\ contents'[v].at >= Deadline
                  /\ v \in DOMAIN events' <=> amendments'[v].status = "accepted"
                  /\ v \in DOMAIN events' =>
                       events'[v] = [mechanism |-> "adjudicator_acceptance",
                                     by |-> decisions'[v].by, at |-> decisions'[v].at,
                                     decision |-> v]
    BY <1>4, <1>5, <1>7, <2>2 DEF IInv, HistoryInv, Provenance
  <2> QED
    BY <1>4, <1>5, <1>7, <2>1, <2>3 DEF Provenance
<1>12. Decided'
  BY <1>5 DEF IInv, HistoryInv, Decided
<1>13. EffectiveIsNewest'
  BY <1>4, <1>6, <1>7, <1>8 DEF EffectiveIsNewest, Submitted, n
<1>14. PendingIsNewest'
  BY <1>4, <1>5, <1>8 DEF PendingIsNewest
<1>15. BaseIsPredecessor'
  <2>1. \A v \in DOMAIN amendments : v \in DOMAIN events' => v \in DOMAIN events
    BY <1>4, <1>6, <1>7
  <2>2. \A v \in DOMAIN events, w \in DOMAIN events' : w < v => w \in DOMAIN events
    BY <1>4, <1>6, <1>7 DEF n
  <2> QED
    BY <1>5, <1>7, <2>1, <2>2 DEF IInv, HistoryInv, BaseIsPredecessor
<1> QED
  BY <1>4, <1>9, <1>10, <1>11, <1>12, <1>13, <1>14, <1>15 DEF IInv, TypeOK, HistoryInv


LEMMA ProposeAmendmentKeepsIInv ==
  ASSUME IInv, SomeSubmission(ProposeAmendment)
  PROVE  IInv'
<1>1. PICK k : \E u \in Users, e \in 0 .. draft.version, c \in Confirmations :
        ProposeAmendment(u, k, e, c)
  BY DEF SomeSubmission
<1>2. PICK u \in Users, e \in 0 .. draft.version, c \in Confirmations :
        ProposeAmendment(u, k, e, c)
  BY <1>1
<1> DEFINE n == Count + 1
           new == [base |-> submission.effective, status |-> "pending"]
<1>3. SubmitPackage("amend", u, k, e, c)
  BY <1>2 DEF ProposeAmendment
<1>4. /\ DraftTypeOK' /\ RequestTypeOK' /\ PackageInv' /\ ContentsTypeOK'
      /\ now \in Nat /\ DOMAIN contents = 1 .. Count
      /\ DOMAIN contents' = 1 .. n /\ Count' = n
      /\ \A v \in DOMAIN contents : v # n /\ contents'[v] = contents[v]
      /\ \A v \in DOMAIN contents' : v \in DOMAIN contents \/ v = n
      /\ contents'[n].by = u /\ contents'[n].at = now
      /\ Count \in Nat /\ Count > 0 /\ n \in Nat
      /\ Submitted /\ submission.status = "submitted"
      /\ submission.deadline = Deadline /\ Deadline \in Nat
      /\ \A v \in DOMAIN amendments : amendments[v].status # "pending"
      /\ NextContentVersion = n
  BY <1>3, AmendFacts
<1>5. /\ submission' = [submission EXCEPT !.status = "amendment_pending", !.version = @ + 1]
      /\ amendments' = Extend(amendments, n, new)
      /\ events' = events /\ decisions' = decisions
      /\ now >= Deadline
  <2>1. now >= Deadline
    <3>1. Late
      BY <1>2, <1>4 DEF ProposeAmendment, ConsequenceNow
    <3> QED
      BY <1>4, <3>1 DEF Late, TurnDeadline
  <2> HIDE DEF n
  <2> QED
    BY <1>2, <1>4, <2>1 DEF ProposeAmendment
<1>6. /\ DOMAIN amendments \subseteq DOMAIN contents
      /\ DOMAIN decisions \subseteq DOMAIN amendments
      /\ DOMAIN events \subseteq DOMAIN contents
      /\ submission \in [status : {"none", "submitted", "amendment_pending"},
                         version : Nat, effective : Nat, deadline : Nat]
  BY DEF IInv, TypeOK, LifecycleTypeOK
<1>7. /\ DOMAIN amendments' = DOMAIN amendments \cup {n} /\ n \notin DOMAIN amendments
      /\ n \notin DOMAIN events
      /\ amendments'[n] = new
      /\ \A v \in DOMAIN amendments : amendments'[v] = amendments[v]
  BY <1>4, <1>5, <1>6 DEF Extend
<1>8. /\ submission'.status = "amendment_pending"
      /\ submission'.effective = submission.effective
      /\ submission'.deadline = submission.deadline
      /\ submission' \in [status : {"none", "submitted", "amendment_pending"},
                          version : Nat, effective : Nat, deadline : Nat]
  <2>1. submission.version + 1 \in Nat
    BY <1>6
  <2> QED
    BY <1>5, <1>6, <2>1
<1> HIDE DEF n
<1>9. LifecycleTypeOK'
  <2>1. n \in DOMAIN contents' /\ DOMAIN contents \subseteq DOMAIN contents'
    BY <1>4 DEF n
  <2>2. /\ DOMAIN amendments' \subseteq DOMAIN contents'
        /\ DOMAIN events' \subseteq DOMAIN contents'
        /\ DOMAIN decisions' \subseteq DOMAIN amendments'
    BY <1>5, <1>6, <1>7, <2>1
  <2>3. \A v \in DOMAIN amendments' :
          amendments'[v] \in [base : Nat, status : Verdicts \cup {"pending"}]
    BY <1>6, <1>7 DEF IInv, TypeOK, LifecycleTypeOK
  <2>4. /\ \A v \in DOMAIN events' :
             events'[v] \in [mechanism : {"initial", "adjudicator_acceptance",
                                          "immediate_revision"},
                             by : Users, at : Nat, decision : Nat]
        /\ \A v \in DOMAIN decisions' :
             decisions'[v] \in [decision : Verdicts, by : Users, at : Nat]
    BY <1>5 DEF IInv, TypeOK, LifecycleTypeOK
  <2> QED
    BY <1>4, <1>8, <2>2, <2>3, <2>4 DEF LifecycleTypeOK, ContentsTypeOK
<1>10. Numbered'
  BY <1>4, <1>8 DEF Numbered, Submitted, n
<1>11. Provenance'
  <2>1. n > 1
    BY <1>4 DEF n
  <2>2. \A v \in DOMAIN contents : v \in DOMAIN amendments' <=> v \in DOMAIN amendments
    BY <1>4, <1>7
  <2>3. ASSUME NEW v \in DOMAIN contents
        PROVE  \/ /\ v = 1 /\ v \notin DOMAIN amendments' /\ v \in DOMAIN events'
                  /\ events'[v] = [mechanism |-> "initial", by |-> contents'[v].by,
                                   at |-> contents'[v].at, decision |-> 0]
               \/ /\ v > 1 /\ v \notin DOMAIN amendments' /\ v \in DOMAIN events'
                  /\ contents'[v].at < Deadline
                  /\ events'[v] = [mechanism |-> "immediate_revision",
                                   by |-> contents'[v].by, at |-> contents'[v].at,
                                   decision |-> 0]
               \/ /\ v > 1 /\ v \in DOMAIN amendments'
                  /\ contents'[v].at >= Deadline
                  /\ v \in DOMAIN events' <=> amendments'[v].status = "accepted"
                  /\ v \in DOMAIN events' =>
                       events'[v] = [mechanism |-> "adjudicator_acceptance",
                                     by |-> decisions'[v].by, at |-> decisions'[v].at,
                                     decision |-> v]
    BY <1>4, <1>5, <1>7, <2>2 DEF IInv, HistoryInv, Provenance
  <2> QED
    BY <1>4, <1>5, <1>7, <2>1, <2>3 DEF Provenance
<1>12. Decided'
  BY <1>5, <1>6, <1>7 DEF IInv, HistoryInv, Decided
<1>13. EffectiveIsNewest'
  BY <1>4, <1>5, <1>8 DEF IInv, HistoryInv, EffectiveIsNewest, Submitted
<1>14. PendingIsNewest'
  <2>1. n \in DOMAIN amendments' /\ amendments'[n].status = "pending"
        /\ amendments'[n].base = submission'.effective
    BY <1>7, <1>8
  <2>2. \A v \in DOMAIN amendments' : amendments'[v].status = "pending" => v = n
    BY <1>4, <1>7
  <2> QED
    BY <1>4, <1>8, <2>1, <2>2 DEF PendingIsNewest
<1>15. BaseIsPredecessor'
  <2>1. \A v \in DOMAIN amendments' \cap DOMAIN events' : v \in DOMAIN amendments
    BY <1>5, <1>7
  <2> QED
    BY <1>5, <1>7, <2>1 DEF IInv, HistoryInv, BaseIsPredecessor
<1> QED
  BY <1>4, <1>9, <1>10, <1>11, <1>12, <1>13, <1>14, <1>15 DEF IInv, TypeOK, HistoryInv

-----------------------------------------------------------------------------
LEMMA DecideKeepsIInv ==
  ASSUME IInv, SomeDecision
  PROVE  IInv'
<1>1. PICK k, s : \E u \in Users, v \in DOMAIN amendments, d \in Verdicts :
        Decide(u, k, s, v, d)
  BY DEF SomeDecision
<1>2. PICK u \in Users, v \in DOMAIN amendments, d \in Verdicts : Decide(u, k, s, v, d)
  BY <1>1
<1> DEFINE event == [mechanism |-> "adjudicator_acceptance", by |-> u, at |-> now,
                     decision |-> v]
           record == [decision |-> d, by |-> u, at |-> now]
<1>3. /\ amendments[v].status = "pending" /\ amendments[v].base = submission.effective
      /\ ClaimRequestKey("decide", k, "amendment_decision", v, NoCompletion)
      /\ amendments' = [amendments EXCEPT ![v].status = d]
      /\ decisions' = Extend(decisions, v, record)
      /\ submission' = [submission EXCEPT !.status = "submitted", !.version = @ + 1,
                          !.effective = IF d = "accepted" THEN v ELSE submission.effective]
      /\ now' = now /\ draft' = draft /\ revisions' = revisions /\ contents' = contents
  BY <1>2 DEF Decide, DecisionCurrent, EffectiveAfter
<1>4. /\ d = "accepted" => events' = Extend(events, v, event)
      /\ d # "accepted" => events' = events
  BY <1>2 DEF Decide, RecordEvent
<1>5. /\ DOMAIN amendments \subseteq DOMAIN contents
      /\ DOMAIN decisions \subseteq DOMAIN amendments
      /\ DOMAIN events \subseteq DOMAIN contents
      /\ submission \in [status : {"none", "submitted", "amendment_pending"},
                         version : Nat, effective : Nat, deadline : Nat]
      /\ amendments[v] \in [base : Nat, status : Verdicts \cup {"pending"}]
      /\ now \in Nat /\ RequestTypeOK /\ DraftTypeOK
      /\ d \in {"accepted", "rejected"}
  BY DEF IInv, TypeOK, LifecycleTypeOK, DraftTypeOK, Verdicts
\* The pending proposal is the newest content and sits above everything effective.
<1>6. /\ Count \in Nat /\ DOMAIN contents = 1 .. Count /\ v = Count /\ v \in Nat
      /\ Submitted /\ submission.status = "amendment_pending"
      /\ v \notin DOMAIN decisions /\ v \notin DOMAIN events
      /\ v > 1 /\ contents[v].at >= Deadline
      /\ \A w \in DOMAIN contents : w <= v
      /\ \A w \in DOMAIN amendments : amendments[w].status = "pending" => w = v
  <2>1. Count \in Nat /\ DOMAIN contents = 1 .. Count
    BY CountFacts
  <2>2. /\ submission.status = "amendment_pending"
        /\ \A w \in DOMAIN amendments : amendments[w].status = "pending" => w = Count
    BY <1>3 DEF IInv, HistoryInv, PendingIsNewest
  <2>3. v = Count /\ v \in DOMAIN contents
    BY <1>3, <1>5, <2>2
  <2>4. v \notin DOMAIN decisions
    BY <1>3 DEF IInv, HistoryInv, Decided
  <2>5. v > 1 /\ contents[v].at >= Deadline /\ v \notin DOMAIN events
    BY <1>3, <2>3 DEF IInv, HistoryInv, Provenance
  <2> QED
    BY <2>1, <2>2, <2>3, <2>4, <2>5 DEF Submitted
<1>7. /\ DOMAIN amendments' = DOMAIN amendments
      /\ amendments'[v] = [base |-> submission.effective, status |-> d]
      /\ \A w \in DOMAIN amendments : w # v => amendments'[w] = amendments[w]
      /\ \A w \in DOMAIN amendments : amendments'[w].base = amendments[w].base
  BY <1>3, <1>5
<1>8. /\ DOMAIN decisions' = DOMAIN decisions \cup {v} /\ decisions'[v] = record
      /\ \A w \in DOMAIN decisions : decisions'[w] = decisions[w]
  BY <1>3, <1>6 DEF Extend
<1>9. /\ d = "accepted" => DOMAIN events' = DOMAIN events \cup {v} /\ events'[v] = event
      /\ d # "accepted" => DOMAIN events' = DOMAIN events
      /\ \A w \in DOMAIN events : events'[w] = events[w]
  BY <1>4, <1>6 DEF Extend
<1>10. /\ submission'.status = "submitted" /\ submission'.deadline = submission.deadline
       /\ submission'.effective = IF d = "accepted" THEN v ELSE submission.effective
       /\ submission' \in [status : {"none", "submitted", "amendment_pending"},
                           version : Nat, effective : Nat, deadline : Nat]
  <2>1. submission.version + 1 \in Nat
    BY <1>5
  <2> QED
    BY <1>3, <1>5, <1>6, <2>1
<1>11. TypeOK'
  <2>1. RequestTypeOK'
    <3>1. "decide" \in Operations
          /\ "amendment_decision" \in {"package_revision", "amendment_decision"}
      BY DEF Operations
    <3> QED
      BY <1>3, <1>5, <1>6, <3>1, ClaimTypes, NoCompletionType
  <2>2. DraftTypeOK'
    BY <1>3, <1>5 DEF DraftTypeOK
  <2>3. /\ DOMAIN amendments' \subseteq DOMAIN contents'
        /\ DOMAIN events' \subseteq DOMAIN contents'
        /\ DOMAIN decisions' \subseteq DOMAIN amendments'
    BY <1>3, <1>5, <1>7, <1>8, <1>9
  <2>4. \A w \in DOMAIN amendments' :
          amendments'[w] \in [base : Nat, status : Verdicts \cup {"pending"}]
    BY <1>5, <1>7 DEF IInv, TypeOK, LifecycleTypeOK, Verdicts
  <2>5. \A w \in DOMAIN decisions' :
          decisions'[w] \in [decision : Verdicts, by : Users, at : Nat]
    BY <1>5, <1>8 DEF IInv, TypeOK, LifecycleTypeOK
  <2>6. \A w \in DOMAIN events' :
          events'[w] \in [mechanism : {"initial", "adjudicator_acceptance",
                                       "immediate_revision"},
                          by : Users, at : Nat, decision : Nat]
    BY <1>5, <1>6, <1>9 DEF IInv, TypeOK, LifecycleTypeOK
  <2>7. LifecycleTypeOK'
    BY <1>3, <1>10, <2>3, <2>4, <2>5, <2>6 DEF IInv, TypeOK, LifecycleTypeOK
  <2> QED
    BY <2>1, <2>2, <2>7 DEF TypeOK
<1>12. Numbered' /\ Count' = Count
  BY <1>3, <1>6, <1>10 DEF IInv, HistoryInv, Numbered, Submitted, Count
<1>13. Provenance'
  <2>1. ASSUME NEW w \in DOMAIN contents', w # v
        PROVE  /\ w \in DOMAIN contents /\ contents'[w] = contents[w]
               /\ w \in DOMAIN events' <=> w \in DOMAIN events
               /\ w \in DOMAIN events => events'[w] = events[w]
               /\ w \in DOMAIN amendments => amendments'[w] = amendments[w]
               /\ w \in DOMAIN decisions => decisions'[w] = decisions[w]
    BY <1>3, <1>7, <1>8, <1>9, <2>1
  <2>2. ASSUME NEW w \in DOMAIN amendments, w # v, w \in DOMAIN events
        PROVE  w \in DOMAIN decisions
    BY <1>5, <2>2 DEF IInv, HistoryInv, Provenance, Decided
  <2>3. \/ d = "accepted" /\ v \in DOMAIN events' /\ events'[v] = event
        \/ d # "accepted" /\ v \notin DOMAIN events'
    BY <1>6, <1>9
  <2>4. ASSUME NEW w \in DOMAIN contents', w # v
        PROVE  \/ /\ w = 1 /\ w \notin DOMAIN amendments' /\ w \in DOMAIN events'
                  /\ events'[w] = [mechanism |-> "initial", by |-> contents'[w].by,
                                   at |-> contents'[w].at, decision |-> 0]
               \/ /\ w > 1 /\ w \notin DOMAIN amendments' /\ w \in DOMAIN events'
                  /\ contents'[w].at < Deadline
                  /\ events'[w] = [mechanism |-> "immediate_revision",
                                   by |-> contents'[w].by, at |-> contents'[w].at,
                                   decision |-> 0]
               \/ /\ w > 1 /\ w \in DOMAIN amendments'
                  /\ contents'[w].at >= Deadline
                  /\ w \in DOMAIN events' <=> amendments'[w].status = "accepted"
                  /\ w \in DOMAIN events' =>
                       events'[w] = [mechanism |-> "adjudicator_acceptance",
                                     by |-> decisions'[w].by, at |-> decisions'[w].at,
                                     decision |-> w]
    <3>1. /\ w \in DOMAIN contents /\ contents'[w] = contents[w]
          /\ w \in DOMAIN events' <=> w \in DOMAIN events
          /\ w \in DOMAIN events => events'[w] = events[w]
          /\ w \in DOMAIN amendments' <=> w \in DOMAIN amendments
          /\ w \in DOMAIN amendments => amendments'[w] = amendments[w]
          /\ w \in DOMAIN amendments /\ w \in DOMAIN events => decisions'[w] = decisions[w]
      BY <1>7, <2>1, <2>2, <2>4
    <3>2. \/ /\ w = 1 /\ w \notin DOMAIN amendments /\ w \in DOMAIN events
             /\ events[w] = [mechanism |-> "initial", by |-> contents[w].by,
                             at |-> contents[w].at, decision |-> 0]
          \/ /\ w > 1 /\ w \notin DOMAIN amendments /\ w \in DOMAIN events
             /\ contents[w].at < Deadline
             /\ events[w] = [mechanism |-> "immediate_revision", by |-> contents[w].by,
                             at |-> contents[w].at, decision |-> 0]
          \/ /\ w > 1 /\ w \in DOMAIN amendments /\ contents[w].at >= Deadline
             /\ w \in DOMAIN events <=> amendments[w].status = "accepted"
             /\ w \in DOMAIN events =>
                  events[w] = [mechanism |-> "adjudicator_acceptance", by |-> decisions[w].by,
                               at |-> decisions[w].at, decision |-> w]
      BY <3>1 DEF IInv, HistoryInv, Provenance
    <3> QED
      BY <3>1, <3>2
  <2>5. /\ v > 1 /\ v \in DOMAIN amendments' /\ contents'[v].at >= Deadline
        /\ v \in DOMAIN events' <=> amendments'[v].status = "accepted"
        /\ v \in DOMAIN events' =>
             events'[v] = [mechanism |-> "adjudicator_acceptance",
                           by |-> decisions'[v].by, at |-> decisions'[v].at,
                           decision |-> v]
    BY <1>3, <1>6, <1>7, <1>8, <2>3
  <2> QED
    BY <2>4, <2>5 DEF Provenance
<1>14. Decided'
  BY <1>5, <1>7, <1>8 DEF IInv, HistoryInv, Decided
<1>15. EffectiveIsNewest'
  <2>1. Submitted'
    BY <1>10 DEF Submitted
  <2>2. CASE d = "accepted"
    BY <1>5, <1>6, <1>9, <1>10, <2>1, <2>2 DEF EffectiveIsNewest
  <2>3. CASE d # "accepted"
    BY <1>4, <1>6, <1>10, <2>1, <2>3 DEF IInv, HistoryInv, EffectiveIsNewest
  <2> QED
    BY <2>2, <2>3
<1>16. PendingIsNewest'
  BY <1>5, <1>6, <1>7, <1>10 DEF PendingIsNewest
<1>17. BaseIsPredecessor'
  <2>1. /\ submission.effective \in DOMAIN events /\ submission.effective # v
        /\ submission.effective <= v
        /\ \A w \in DOMAIN events : w <= submission.effective
    BY <1>5, <1>6 DEF IInv, HistoryInv, EffectiveIsNewest
  <2>2. /\ v \in DOMAIN amendments' /\ amendments'[v].base = submission.effective
        /\ DOMAIN events \subseteq DOMAIN events'
        /\ DOMAIN events' \subseteq DOMAIN events \cup {v}
    BY <1>7, <1>9
  <2>3. submission.effective < v /\ \A w \in DOMAIN events' : w < v => w <= submission.effective
    BY <1>5, <1>6, <2>1, <2>2
  <2>4. ASSUME NEW w \in DOMAIN amendments' \cap DOMAIN events', w # v
        PROVE  /\ amendments'[w].base \in DOMAIN events' /\ amendments'[w].base < w
               /\ \A x \in DOMAIN events' : x < w => x <= amendments'[w].base
    <3>1. w \in DOMAIN amendments \cap DOMAIN events
      BY <1>7, <2>2, <2>4
    <3>2. /\ amendments[w].base \in DOMAIN events /\ amendments[w].base < w
          /\ \A x \in DOMAIN events : x < w => x <= amendments[w].base
      BY <3>1 DEF IInv, HistoryInv, BaseIsPredecessor
    <3>3. ~(v < w) /\ amendments'[w].base = amendments[w].base
      BY <1>5, <1>6, <1>7, <3>1
    <3> QED
      BY <2>2, <3>2, <3>3
  <2> QED
    BY <2>1, <2>2, <2>3, <2>4 DEF BaseIsPredecessor
<1>18. PackageInv'
  BY <1>3 DEF IInv, PackageInv, PackageAt, ReviewedIsSubmitted
<1> QED
  BY <1>11, <1>12, <1>13, <1>14, <1>15, <1>16, <1>17, <1>18 DEF IInv, HistoryInv


LEMMA TickKeepsIInv ==
  ASSUME IInv, Tick
  PROVE  IInv'
<1>1. now \in Nat /\ now' \in Nat
  BY DEF Tick, IInv, TypeOK, DraftTypeOK
<1>2. UNCHANGED <<draft, revisions, lifecycleVars, requests>>
  BY DEF Tick
<1>3. TypeOK'
  BY <1>1, <1>2 DEF IInv, TypeOK, DraftTypeOK, LifecycleTypeOK, RequestTypeOK, lifecycleVars
<1>4. HistoryInv'
  BY <1>2 DEF IInv, HistoryInv, Numbered, Provenance, Decided, EffectiveIsNewest,
              PendingIsNewest, BaseIsPredecessor, Submitted, Count, lifecycleVars
<1>5. PackageInv'
  BY <1>2 DEF IInv, PackageInv, PackageAt, ReviewedIsSubmitted, lifecycleVars
<1> QED
  BY <1>3, <1>4, <1>5 DEF IInv

LEMMA StutterKeepsIInv ==
  ASSUME IInv, UNCHANGED vars
  PROVE  IInv'
BY DEF IInv, TypeOK, DraftTypeOK, LifecycleTypeOK, RequestTypeOK, HistoryInv, Numbered,
       Provenance, Decided, EffectiveIsNewest, PendingIsNewest, BaseIsPredecessor,
       Submitted, Count, PackageInv, PackageAt, ReviewedIsSubmitted, vars

-----------------------------------------------------------------------------
\* The invariant is inductive, for every set of users, actions and texts, every
\* deadline and every number of versions.
THEOREM Inductive == Spec => []IInv
<1>1. Init => IInv
  BY InitIInv
<1>2. IInv /\ [Next]_vars => IInv'
  <2> SUFFICES ASSUME IInv, [Next]_vars PROVE IInv'
    OBVIOUS
  <2>1. TypeOK
    BY DEF IInv
  <2> QED
    BY <2>1, NextCases, EditKeepsIInv, SubmitKeepsIInv, AmendImmediatelyKeepsIInv,
       ProposeAmendmentKeepsIInv, DecideKeepsIInv, TickKeepsIInv, StutterKeepsIInv
<1> QED
  BY <1>1, <1>2, PTL DEF Spec

\* Every reachable state is well formed: the rows the code writes have the columns
\* and the references between them that the schema of workspace.py declares.
THEOREM TypeCorrect == Spec => []TypeOK
<1>1. IInv => TypeOK
  BY DEF IInv
<1> QED
  BY <1>1, Inductive, PTL

\* What a submitter reviewed is what was stored, however the draft moved around it.
THEOREM ReviewedStored == Spec => []ReviewedIsSubmitted
<1>1. IInv => ReviewedIsSubmitted
  BY DEF IInv, PackageInv
<1> QED
  BY <1>1, Inductive, PTL

LEMMA EventsAreContents ==
  ASSUME IInv
  PROVE  DOMAIN events \subseteq Int /\ DOMAIN contents \subseteq Int
BY DEF IInv, TypeOK, LifecycleTypeOK

\* The mechanism of an effective event, read from its content.
LEMMA EventOf ==
  ASSUME IInv, NEW v \in DOMAIN contents
  PROVE  \/ /\ v = 1 /\ v \notin DOMAIN amendments /\ v \in DOMAIN events
            /\ events[v].mechanism = "initial" /\ events[v].decision = 0
            /\ events[v].by = contents[v].by /\ events[v].at = contents[v].at
         \/ /\ v > 1 /\ v # 1 /\ v \notin DOMAIN amendments /\ v \in DOMAIN events
            /\ events[v].mechanism = "immediate_revision" /\ events[v].decision = 0
            /\ events[v].by = contents[v].by /\ events[v].at = contents[v].at
            /\ events[v].at < Deadline
         \/ /\ v > 1 /\ v # 1 /\ v \in DOMAIN amendments
            /\ v \in DOMAIN events <=> amendments[v].status = "accepted"
            /\ v \in DOMAIN events =>
                 /\ events[v].mechanism = "adjudicator_acceptance"
                 /\ events[v].decision = v
                 /\ events[v].by = decisions[v].by /\ events[v].at = decisions[v].at
<1>1. v > 1 => v # 1
  OBVIOUS
<1>2. Provenance
  BY DEF IInv, HistoryInv
<1>3. CASE v \notin DOMAIN amendments /\ v = 1
  <2>1. /\ v \in DOMAIN events
        /\ events[v] = [mechanism |-> "initial", by |-> contents[v].by,
                        at |-> contents[v].at, decision |-> 0]
    BY <1>1, <1>2, <1>3 DEF Provenance
  <2> QED
    BY <1>3, <2>1
<1>4. CASE v \notin DOMAIN amendments /\ v # 1
  <2>1. /\ v > 1 /\ v \in DOMAIN events /\ contents[v].at < Deadline
        /\ events[v] = [mechanism |-> "immediate_revision", by |-> contents[v].by,
                        at |-> contents[v].at, decision |-> 0]
    BY <1>2, <1>4 DEF Provenance
  <2> QED
    BY <1>4, <2>1
<1>5. CASE v \in DOMAIN amendments
  <2>1. /\ v > 1
        /\ v \in DOMAIN events <=> amendments[v].status = "accepted"
        /\ v \in DOMAIN events =>
             events[v] = [mechanism |-> "adjudicator_acceptance",
                          by |-> decisions[v].by, at |-> decisions[v].at,
                          decision |-> v]
    BY <1>2, <1>5 DEF Provenance
  <2>2. v \in DOMAIN events =>
          /\ events[v].mechanism = "adjudicator_acceptance" /\ events[v].decision = v
          /\ events[v].by = decisions[v].by /\ events[v].at = decisions[v].at
    BY <2>1
  <2> QED
    BY <1>1, <1>5, <2>1, <2>2
<1> QED
  BY <1>3, <1>4, <1>5

\* At most one amendment awaits a decision, and that decision is never refused for a
\* moved base: the submission cannot be stuck.
THEOREM PendingStaysDecidable == Spec => []PendingIsDecidable
<1>1. IInv => PendingIsDecidable
  <2> SUFFICES ASSUME IInv PROVE PendingIsDecidable
    OBVIOUS
  <2>1. Count \in Nat /\ DOMAIN contents = 1 .. Count /\ DOMAIN amendments \subseteq DOMAIN contents
    BY CountFacts DEF IInv, TypeOK, LifecycleTypeOK
  <2>2. submission.status = "amendment_pending" <=> Pending # {}
    BY DEF IInv, HistoryInv, PendingIsNewest, Pending
  <2>3. ASSUME NEW v \in Pending
        PROVE  v = Highest(DOMAIN contents) /\ amendments[v].base = submission.effective
    <3>1. v = Count /\ amendments[v].base = submission.effective /\ v \in DOMAIN contents
      BY <2>1 DEF IInv, HistoryInv, PendingIsNewest, Pending
    <3>2. \A w \in DOMAIN contents : w <= v
      BY <2>1, <3>1
    <3>3. Highest(DOMAIN contents) = v
      BY <3>1, <3>2, EventsAreContents, HighestIs, Zenon
    <3> QED
      BY <3>1, <3>3
  <2> QED
    BY <2>2, <2>3 DEF PendingIsDecidable
<1> QED
  BY <1>1, Inductive, PTL

\* An accepted proposal replaced the very version it was compared with.
THEOREM AcceptedOverBase == Spec => []AcceptedOverReviewedBase
<1>1. IInv => AcceptedOverReviewedBase
  <2> SUFFICES ASSUME IInv, NEW v \in DOMAIN events,
                      events[v].mechanism = "adjudicator_acceptance"
               PROVE  amendments[v].base = Highest({w \in DOMAIN events : w < v})
    BY DEF AcceptedOverReviewedBase
  <2>1. v \in DOMAIN amendments
    <3>1. v \in DOMAIN contents
      BY DEF IInv, TypeOK, LifecycleTypeOK
    <3> QED
      BY <3>1, EventOf
  <2> DEFINE earlier == {w \in DOMAIN events : w < v}
  <2>2. amendments[v].base \in earlier /\ \A w \in earlier : w <= amendments[v].base
    BY <2>1 DEF IInv, HistoryInv, BaseIsPredecessor
  <2>3. earlier \subseteq Int
    BY EventsAreContents
  <2> HIDE DEF earlier
  <2>4. Highest(earlier) = amendments[v].base
    BY <2>2, <2>3, HighestIs, Zenon
  <2> QED
    BY <2>4 DEF earlier
<1> QED
  BY <1>1, Inductive, PTL


\* Whatever history the workspace writes, verification of its backup accepts it: what
\* was recorded step by step is what the verifier derives from the stored rows.
THEOREM HistoryRestores == Spec => []RestoreAccepts
<1>1. IInv => RestoreAccepts
  <2> SUFFICES ASSUME IInv PROVE RestoreAccepts
    OBVIOUS
  <2>1. /\ Count \in Nat /\ DOMAIN contents = 1 .. Count
        /\ DOMAIN amendments \subseteq DOMAIN contents
        /\ DOMAIN events \subseteq DOMAIN contents
    BY CountFacts DEF IInv, TypeOK, LifecycleTypeOK
  <2>2. Provenance /\ Decided /\ EffectiveIsNewest /\ Numbered
    BY DEF IInv, HistoryInv
  <2>3. RecordedEvents = ExpectedEvents
    <3>1. ASSUME NEW v \in DOMAIN events
          PROVE  <<v, events[v].mechanism, events[v].by, events[v].at,
                   events[v].decision>> \in ExpectedEvents
      <4>1. v \in DOMAIN contents
        BY <2>1
      <4>2. CASE v \notin DOMAIN amendments
        <5>1. CASE v = 1
          BY <4>1, <5>1, EventOf DEF ExpectedEvents
        <5>2. CASE v > 1
          BY <4>1, <4>2, <5>2, EventOf DEF ExpectedEvents
        <5> QED
          BY <4>1, <5>1, <5>2, EventOf
      <4>3. CASE v \in DOMAIN amendments
        <5>1. /\ amendments[v].status = "accepted"
              /\ events[v].mechanism = "adjudicator_acceptance" /\ events[v].decision = v
              /\ events[v].by = decisions[v].by /\ events[v].at = decisions[v].at
          BY <4>1, <4>3, EventOf
        <5>2. v \in DOMAIN decisions /\ decisions[v].decision = "accepted"
          BY <2>2, <4>3, <5>1 DEF Decided
        <5> QED
          BY <4>3, <5>1, <5>2 DEF ExpectedEvents
      <4> QED
        BY <4>2, <4>3
    <3>2. ASSUME NEW v \in DOMAIN contents, v = 1
          PROVE  <<v, "initial", contents[v].by, contents[v].at, 0>> \in RecordedEvents
      BY <3>2, EventOf DEF RecordedEvents
    <3>3. ASSUME NEW v \in DOMAIN amendments \cap DOMAIN decisions,
                 amendments[v].status = "accepted"
          PROVE  <<v, "adjudicator_acceptance", decisions[v].by, decisions[v].at, v>>
                   \in RecordedEvents
      <4>1. /\ v \in DOMAIN events
            /\ events[v].mechanism = "adjudicator_acceptance" /\ events[v].decision = v
            /\ events[v].by = decisions[v].by /\ events[v].at = decisions[v].at
        BY <2>1, <3>3, EventOf
      <4> QED
        BY <4>1 DEF RecordedEvents
    <3>4. ASSUME NEW v \in DOMAIN contents, v > 1, v \notin DOMAIN amendments
          PROVE  <<v, "immediate_revision", contents[v].by, contents[v].at, 0>>
                   \in RecordedEvents
      <4>1. /\ v \in DOMAIN events
            /\ events[v].mechanism = "immediate_revision" /\ events[v].decision = 0
            /\ events[v].by = contents[v].by /\ events[v].at = contents[v].at
        BY <3>4, EventOf
      <4> QED
        BY <4>1 DEF RecordedEvents
    <3>5. RecordedEvents \subseteq ExpectedEvents
      BY <3>1 DEF RecordedEvents
    <3>6. ExpectedEvents \subseteq RecordedEvents
      BY <3>2, <3>3, <3>4 DEF ExpectedEvents
    <3> QED
      BY <3>5, <3>6
  <2>4. \A v \in DOMAIN events :
          events[v].mechanism = "immediate_revision" => events[v].at < submission.deadline
    <3>1. ASSUME NEW v \in DOMAIN events, events[v].mechanism = "immediate_revision"
          PROVE  events[v].at < Deadline
      <4>1. v \in DOMAIN contents
        BY <2>1
      <4> QED
        BY <3>1, <4>1, EventOf
    <3>2. DOMAIN events # {} => submission.deadline = Deadline
      BY <2>1, <2>2 DEF Numbered
    <3> QED
      BY <3>1, <3>2
  <2>5. Submitted => /\ DOMAIN events # {}
                     /\ submission.effective = Highest(DOMAIN events)
    <3> SUFFICES ASSUME Submitted
                 PROVE  DOMAIN events # {} /\ submission.effective = Highest(DOMAIN events)
      OBVIOUS
    <3>1. /\ submission.effective \in DOMAIN events
          /\ \A w \in DOMAIN events : w <= submission.effective
      BY <2>2 DEF EffectiveIsNewest
    <3>2. Highest(DOMAIN events) = submission.effective
      BY <3>1, EventsAreContents, HighestIs, Zenon
    <3> QED
      BY <3>1, <3>2
  <2> QED
    BY <2>1, <2>2, <2>3, <2>4, <2>5 DEF RestoreAccepts, Decided, Count
<1> QED
  BY <1>1, Inductive, PTL


=============================================================================
