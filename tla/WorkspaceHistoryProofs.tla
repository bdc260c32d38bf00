----------------------- MODULE WorkspaceHistoryProofs -----------------------
(***************************************************************************)
(* What the drafts, request keys and history of Workspace keep from step   *)
(* to step, over the invariant of WorkspaceProofs.                         *)
(***************************************************************************)
EXTENDS WorkspaceProofs

-----------------------------------------------------------------------------
(***************************************************************************)
(* What one step writes.                                                   *)
(***************************************************************************)
\* A key is claimed once, and the others keep what they completed.
LEMMA Claimed ==
  ASSUME TypeOK, NEW op \in Operations, NEW k, NEW kind, NEW id, NEW c,
         ClaimRequestKey(op, k, kind, id, c)
  PROVE  /\ k \notin UsedKeys(op) /\ UsedKeys(op)' = UsedKeys(op) \cup {k}
         /\ requests'[op][k] = [kind |-> kind, id |-> id, completion |-> c]
         /\ \A j \in UsedKeys(op) : requests'[op][j] = requests[op][j]
         /\ \A o \in Operations \ {op} : requests'[o] = requests[o]
         /\ DOMAIN requests' = Operations
<1> DEFINE res == [kind |-> kind, id |-> id, completion |-> c]
<1>1. /\ k \notin DOMAIN requests[op] /\ DOMAIN requests = Operations
      /\ requests' = [requests EXCEPT ![op] = Extend(requests[op], k, res)]
  BY DEF ClaimRequestKey, KeyClaimable, UsedKeys, TypeOK, RequestTypeOK
<1> HIDE DEF res
<1>2. /\ requests'[op] = Extend(requests[op], k, res) /\ DOMAIN requests' = Operations
      /\ \A o \in Operations \ {op} : requests'[o] = requests[o]
  BY <1>1
<1> QED
  BY <1>1, <1>2 DEF Extend, UsedKeys, res

\* Every saved version is a new one.
LEMMA Saved ==
  ASSUME TypeOK, NEW op \in Operations \ {"decide"}, NEW k, NEW e, NEW p, NEW c,
         SaveDraft(op, k, e, p, c)
  PROVE  /\ draft.version \in Nat /\ DOMAIN revisions = 1 .. draft.version
         /\ draft.version + 1 \notin DOMAIN revisions
         /\ draft' = [version |-> draft.version + 1, package |-> p] /\ now' = now
         /\ DOMAIN revisions' = 1 .. (draft.version + 1)
         /\ revisions'[draft.version + 1] = [package |-> p, op |-> op, base |-> e]
         /\ \A m \in DOMAIN revisions : revisions'[m] = revisions[m]
         /\ ClaimRequestKey(op, k, "package_revision", draft.version + 1, c)
<1> DEFINE rev == [package |-> p, op |-> op, base |-> e]
           n == draft.version + 1
<1>1. /\ draft.version \in Nat /\ DOMAIN revisions = 1 .. draft.version
      /\ draft' = [version |-> n, package |-> p] /\ now' = now
      /\ revisions' = Extend(revisions, n, rev)
      /\ ClaimRequestKey(op, k, "package_revision", n, c)
  BY DEF SaveDraft, TypeOK, DraftTypeOK
<1>2. n \notin DOMAIN revisions /\ DOMAIN revisions \cup {n} = 1 .. n
  BY <1>1, IntervalGrows
<1> HIDE DEF rev, n
<1>3. /\ DOMAIN revisions' = 1 .. n /\ revisions'[n] = rev
      /\ \A m \in DOMAIN revisions : revisions'[m] = revisions[m]
  BY <1>1, <1>2 DEF Extend
<1> QED
  BY <1>1, <1>2, <1>3 DEF rev, n

\* A submission or a revision saves the draft as it is and adds a content.
LEMMA Stored ==
  ASSUME IInv, NEW op \in SubmitOperations, NEW u, NEW k, NEW e, NEW c,
         SubmitPackage(op, u, k, e, c)
  PROVE  /\ op \in Operations \ {"decide"} /\ e = draft.version /\ c = ConfirmationNow
         /\ SaveDraft(op, k, e, draft.package, [confirmed |-> c, content |-> Count + 1])
         /\ Count \in Nat /\ DOMAIN contents = 1 .. Count /\ NextContentVersion = Count + 1
         /\ Count + 1 \notin DOMAIN contents /\ DOMAIN contents' = 1 .. (Count + 1)
         /\ Count' = Count + 1
         /\ contents'[Count + 1].at = now
         /\ \A v \in DOMAIN contents : contents'[v] = contents[v]
<1> DEFINE row == [snapshot |-> SubmissionSnapshot(draft.package), by |-> u, at |-> now,
                   reviewed |-> e]
           n == Count + 1
<1>1. Count \in Nat /\ DOMAIN contents = 1 .. Count /\ NextContentVersion = n
  BY CountFacts
<1>2. /\ e = draft.version /\ c = ConfirmationNow
      /\ SaveDraft(op, k, e, draft.package, [confirmed |-> c, content |-> n])
      /\ contents' = Extend(contents, n, row)
  BY <1>1 DEF SubmitPackage, CurrentBaseline, ConfirmationAccepted, AddContent
<1>3. n \notin DOMAIN contents /\ DOMAIN contents \cup {n} = 1 .. n
  BY <1>1, IntervalGrows
<1>4. row.at = now
  OBVIOUS
<1>5. op \in Operations \ {"decide"}
  BY DEF SubmitOperations, Operations, EditOperations
<1> HIDE DEF row
<1>6. /\ DOMAIN contents' = 1 .. n /\ contents'[n] = row
      /\ \A v \in DOMAIN contents : contents'[v] = contents[v]
  BY <1>2, <1>3 DEF Extend
<1>7. Cardinality(1 .. n) = n
  BY <1>1, FS_Interval
<1> QED
  BY <1>1, <1>2, <1>3, <1>4, <1>5, <1>6, <1>7 DEF Count

\* The amendment that is decided is the newest content, undecided and without effect.
LEMMA DecidedNow ==
  ASSUME IInv, NEW u, NEW k, NEW s, NEW v \in DOMAIN amendments, NEW d \in Verdicts,
         Decide(u, k, s, v, d)
  PROVE  /\ Count \in Nat /\ DOMAIN contents = 1 .. Count /\ v = Count
         /\ v \notin DOMAIN decisions /\ v \notin DOMAIN events
         /\ amendments[v].status = "pending"
         /\ submission.effective \in DOMAIN events /\ submission.effective < v
         /\ submission.effective \in Nat /\ Submitted
         /\ submission' = [submission EXCEPT !.status = "submitted", !.version = @ + 1,
                             !.effective = EffectiveAfter(v, d)]
         /\ amendments' = [amendments EXCEPT ![v].status = d]
         /\ decisions' = Extend(decisions, v, [decision |-> d, by |-> u, at |-> now])
         /\ ClaimRequestKey("decide", k, "amendment_decision", v, NoCompletion)
         /\ UNCHANGED <<now, draft, revisions, contents>>
         /\ d = "accepted" => DOMAIN events' = DOMAIN events \cup {v}
                              /\ \A w \in DOMAIN events : events'[w] = events[w]
         /\ d # "accepted" => UNCHANGED events
<1>1. /\ amendments[v].status = "pending" /\ amendments' = [amendments EXCEPT ![v].status = d]
      /\ decisions' = Extend(decisions, v, [decision |-> d, by |-> u, at |-> now])
      /\ submission' = [submission EXCEPT !.status = "submitted", !.version = @ + 1,
                          !.effective = EffectiveAfter(v, d)]
      /\ ClaimRequestKey("decide", k, "amendment_decision", v, NoCompletion)
      /\ UNCHANGED <<now, draft, revisions, contents>>
  BY DEF Decide, DecisionCurrent
<1>2. Count \in Nat /\ DOMAIN contents = 1 .. Count /\ v = Count
  BY <1>1, CountFacts DEF IInv, HistoryInv, PendingIsNewest
<1>3. submission.status = "amendment_pending" /\ Submitted
  BY <1>1 DEF IInv, HistoryInv, PendingIsNewest, Submitted
<1>4. v \notin DOMAIN decisions
  BY <1>1 DEF IInv, HistoryInv, Decided
<1>5. v \in DOMAIN contents /\ DOMAIN events \subseteq DOMAIN contents
  BY DEF IInv, TypeOK, LifecycleTypeOK
<1>6. v \notin DOMAIN events
  BY <1>1, <1>5, EventOf
<1>7. submission.effective \in DOMAIN events
  BY <1>3 DEF IInv, HistoryInv, EffectiveIsNewest
<1>8. submission.effective \in Nat /\ submission.effective < v
  BY <1>2, <1>5, <1>6, <1>7
<1>9. /\ d = "accepted" => DOMAIN events' = DOMAIN events \cup {v}
                           /\ \A w \in DOMAIN events : events'[w] = events[w]
      /\ d # "accepted" => UNCHANGED events
  BY <1>6 DEF Decide, RecordEvent, Extend
<1> QED
  BY <1>1, <1>2, <1>3, <1>4, <1>6, <1>7, <1>8, <1>9

-----------------------------------------------------------------------------
(***************************************************************************)
(* History is append-only.                                                 *)
(***************************************************************************)
KeysKept == \A op \in Operations : Keeps(requests[op], requests'[op])

DecidedKept ==
  \A v \in DOMAIN amendments :
    /\ v \in DOMAIN amendments'
    /\ amendments'[v].base = amendments[v].base
    /\ amendments[v].status # "pending" => amendments'[v] = amendments[v]

RowsKept ==
  /\ Keeps(revisions, revisions') /\ Keeps(contents, contents') /\ Keeps(events, events')
  /\ Keeps(decisions, decisions') /\ KeysKept /\ DecidedKept

LEMMA ClaimKeeps ==
  ASSUME TypeOK, NEW op \in Operations, NEW k, NEW kind, NEW id, NEW c,
         ClaimRequestKey(op, k, kind, id, c)
  PROVE  KeysKept
<1>1. ASSUME NEW o \in Operations PROVE Keeps(requests[o], requests'[o])
  <2>1. CASE o = op
    BY <2>1, Claimed DEF Keeps, UsedKeys
  <2>2. CASE o # op
    BY <2>2, Claimed DEF Keeps
  <2> QED
    BY <2>1, <2>2
<1> QED
  BY <1>1 DEF KeysKept

LEMMA SaveKeeps ==
  ASSUME TypeOK, NEW op \in Operations \ {"decide"}, NEW k, NEW e, NEW p, NEW c,
         SaveDraft(op, k, e, p, c)
  PROVE  KeysKept /\ Keeps(revisions, revisions')
<1>1. KeysKept
  <2>1. ClaimRequestKey(op, k, "package_revision", draft.version + 1, c)
    BY Saved
  <2> QED
    BY <2>1, ClaimKeeps
<1>2. /\ draft.version \in Nat /\ DOMAIN revisions = 1 .. draft.version
      /\ DOMAIN revisions' = 1 .. (draft.version + 1)
      /\ \A m \in DOMAIN revisions : revisions'[m] = revisions[m]
  BY Saved
<1> QED
  BY <1>1, <1>2 DEF Keeps

LEMMA StoreKeeps ==
  ASSUME IInv, NEW op \in SubmitOperations, NEW u, NEW k, NEW e, NEW c,
         SubmitPackage(op, u, k, e, c)
  PROVE  KeysKept /\ Keeps(revisions, revisions') /\ Keeps(contents, contents')
<1>1. KeysKept /\ Keeps(revisions, revisions')
  BY Stored, SaveKeeps DEF IInv
<1>2. /\ Count \in Nat /\ DOMAIN contents = 1 .. Count /\ DOMAIN contents' = 1 .. (Count + 1)
      /\ \A v \in DOMAIN contents : contents'[v] = contents[v]
  BY Stored
<1> QED
  BY <1>1, <1>2 DEF Keeps

\* The rows of a submission that has not been made.
LEMMA NothingYet ==
  ASSUME IInv, ~Submitted
  PROVE  /\ Count = 0 /\ DOMAIN contents = {} /\ DOMAIN events = {} /\ DOMAIN amendments = {}
         /\ DOMAIN decisions = {} /\ submission.effective = 0
<1>1. Count = 0
  BY CountFacts DEF IInv, HistoryInv, Numbered
<1>2. DOMAIN contents = {}
  BY <1>1, CountFacts
<1> QED
  BY <1>1, <1>2 DEF IInv, TypeOK, LifecycleTypeOK, HistoryInv, EffectiveIsNewest

LEMMA StepKeepsRows == ASSUME IInv, [Next]_vars PROVE RowsKept
<1>1. TypeOK
  BY DEF IInv
<1>2. CASE SomeEdit
  <2>1. PICK k, p : \E op \in EditOperations, e \in 0 .. draft.version :
          IsPackage(p) /\ SaveEdit(op, k, e, p)
    BY <1>2 DEF SomeEdit
  <2>2. PICK op \in EditOperations, e \in 0 .. draft.version : SaveEdit(op, k, e, p)
    BY <2>1
  <2>3. op \in Operations \ {"decide"} /\ UNCHANGED lifecycleVars
    BY <2>2 DEF SaveEdit, EditOperations, Operations
  <2>4. KeysKept /\ Keeps(revisions, revisions')
    BY <1>1, <2>2, <2>3, SaveKeeps DEF SaveEdit
  <2> QED
    BY <2>3, <2>4 DEF RowsKept, Keeps, DecidedKept, lifecycleVars
<1>3. ASSUME NEW k, NEW u, NEW e, NEW c, Submit(u, k, e, c) PROVE RowsKept
  <2>1. KeysKept /\ Keeps(revisions, revisions') /\ Keeps(contents, contents')
    BY <1>3, StoreKeeps DEF Submit, SubmitOperations
  <2>2. ~Submitted
    BY <1>3 DEF Submit, SubmitPackage, SubmittableStatus, Submitted
  <2> QED
    BY <2>1, <2>2, NothingYet DEF RowsKept, Keeps, DecidedKept
<1>4. ASSUME NEW k, NEW u, NEW e, NEW c, AmendImmediately(u, k, e, c) PROVE RowsKept
  <2>1. /\ KeysKept /\ Keeps(revisions, revisions') /\ Keeps(contents, contents')
        /\ NextContentVersion = Count + 1 /\ Count + 1 \notin DOMAIN contents
    BY <1>4, StoreKeeps, Stored DEF AmendImmediately, SubmitOperations
  <2>2. Count + 1 \notin DOMAIN events
    BY <2>1 DEF IInv, TypeOK, LifecycleTypeOK
  <2>3. Keeps(events, events')
    BY <1>4, <2>1, <2>2 DEF AmendImmediately, RecordEvent, Extend, Keeps
  <2>4. UNCHANGED <<amendments, decisions>>
    BY <1>4 DEF AmendImmediately
  <2> QED
    BY <2>1, <2>3, <2>4 DEF RowsKept, Keeps, DecidedKept
<1>5. ASSUME NEW k, NEW u, NEW e, NEW c, ProposeAmendment(u, k, e, c) PROVE RowsKept
  <2>1. /\ KeysKept /\ Keeps(revisions, revisions') /\ Keeps(contents, contents')
        /\ NextContentVersion = Count + 1 /\ Count + 1 \notin DOMAIN contents
    BY <1>5, StoreKeeps, Stored DEF ProposeAmendment, SubmitOperations
  <2>2. Count + 1 \notin DOMAIN amendments
    BY <2>1 DEF IInv, TypeOK, LifecycleTypeOK
  <2>3. Keeps(amendments, amendments')
    BY <1>5, <2>1, <2>2 DEF ProposeAmendment, Extend, Keeps
  <2>4. UNCHANGED <<decisions, events>>
    BY <1>5 DEF ProposeAmendment
  <2> QED
    BY <2>1, <2>3, <2>4 DEF RowsKept, Keeps, DecidedKept
<1>6. ASSUME NEW k, NEW s, NEW u, NEW v \in DOMAIN amendments, NEW d \in Verdicts,
             Decide(u, k, s, v, d)
      PROVE  RowsKept
  <2>1. KeysKept
    BY <1>1, <1>6, DecidedNow, ClaimKeeps DEF Operations
  <2>2. UNCHANGED <<revisions, contents>>
    BY <1>6, DecidedNow
  <2>3. Keeps(decisions, decisions')
    <3>1. decisions' = Extend(decisions, v, [decision |-> d, by |-> u, at |-> now])
      BY <1>6 DEF Decide
    <3>2. v \notin DOMAIN decisions
      BY <1>6, DecidedNow
    <3> QED
      BY <3>1, <3>2 DEF Keeps, Extend
  <2>4. Keeps(events, events')
    BY <1>6, DecidedNow DEF Keeps
  <2>5. DecidedKept
    <3>1. amendments[v].status = "pending" /\ amendments' = [amendments EXCEPT ![v].status = d]
      BY <1>6 DEF Decide, DecisionCurrent
    <3>2. \A w \in DOMAIN amendments : amendments[w] \in [base : Nat, status : Verdicts \cup {"pending"}]
      BY <1>1 DEF TypeOK, LifecycleTypeOK
    <3> QED
      BY <3>1, <3>2 DEF DecidedKept
  <2> QED
    BY <2>1, <2>2, <2>3, <2>4, <2>5 DEF RowsKept, Keeps
<1>7. CASE Tick \/ UNCHANGED vars
  BY <1>7 DEF Tick, vars, lifecycleVars, RowsKept, Keeps, KeysKept, DecidedKept
<1> QED
  BY <1>1, <1>2, <1>3, <1>4, <1>5, <1>6, <1>7, NextCases DEF SomeSubmission, SomeDecision

\* No saved version, submitted content, event, decision or completed request is ever
\* changed or lost, whatever commands follow.
THEOREM HistoryStays == Spec => HistoryIsKept
<1>1. IInv /\ [Next]_vars =>
        [/\ Keeps(revisions, revisions')
         /\ Keeps(contents, contents')
         /\ Keeps(events, events')
         /\ Keeps(decisions, decisions')
         /\ \A op \in Operations : Keeps(requests[op], requests'[op])
         /\ \A v \in DOMAIN amendments :
              /\ v \in DOMAIN amendments'
              /\ amendments'[v].base = amendments[v].base
              /\ amendments[v].status # "pending" => amendments'[v] = amendments[v]]_vars
  BY StepKeepsRows DEF RowsKept, KeysKept, DecidedKept
<1> QED
  BY <1>1, Inductive, PTL DEF Spec, HistoryIsKept

-----------------------------------------------------------------------------
(***************************************************************************)
(* The effective version, as policy B-18 moves it.                         *)
(***************************************************************************)
MovesByRule ==
  submission'.effective # submission.effective =>
    /\ submission'.effective > submission.effective
    /\ Submitted /\ now >= submission.deadline =>
         /\ submission'.effective \in DOMAIN amendments
         /\ submission'.effective \in DOMAIN decisions' \ DOMAIN decisions

LEMMA StepMovesByRule == ASSUME IInv, [Next]_vars PROVE MovesByRule
<1>1. TypeOK
  BY DEF IInv
<1>2. CASE SomeEdit
  BY <1>2 DEF SomeEdit, SaveEdit, lifecycleVars, MovesByRule
<1>3. ASSUME NEW k, NEW u, NEW e, NEW c, Submit(u, k, e, c) PROVE MovesByRule
  <2>1. ~Submitted /\ submission'.effective = 1
    BY <1>3 DEF Submit, SubmitPackage, SubmittableStatus, Submitted
  <2> QED
    BY <2>1, NothingYet DEF MovesByRule
<1>4. ASSUME NEW k, NEW u, NEW e, NEW c, AmendImmediately(u, k, e, c) PROVE MovesByRule
  <2>1. /\ NextContentVersion = Count + 1 /\ Count \in Nat /\ DOMAIN contents = 1 .. Count
    BY <1>4, Stored DEF AmendImmediately, SubmitOperations
  <2>2. Submitted /\ ~Late
    BY <1>4 DEF AmendImmediately, SubmitPackage, SubmittableStatus, Submitted, ConsequenceNow
  <2>3. submission.effective \in DOMAIN contents
    BY <2>2 DEF IInv, HistoryInv, EffectiveIsNewest, TypeOK, LifecycleTypeOK
  <2>4. submission'.effective = Count + 1
    BY <1>1, <1>4, <2>1 DEF AmendImmediately, TypeOK, LifecycleTypeOK
  <2> QED
    BY <2>1, <2>2, <2>3, <2>4 DEF MovesByRule, Late, TurnDeadline
<1>5. ASSUME NEW k, NEW u, NEW e, NEW c, ProposeAmendment(u, k, e, c) PROVE MovesByRule
  <2>1. submission'.effective = submission.effective
    BY <1>1, <1>5 DEF ProposeAmendment, TypeOK, LifecycleTypeOK
  <2> QED
    BY <2>1 DEF MovesByRule
<1>6. ASSUME NEW k, NEW s, NEW u, NEW v \in DOMAIN amendments, NEW d \in Verdicts,
             Decide(u, k, s, v, d)
      PROVE  MovesByRule
  <2>1. submission'.effective = EffectiveAfter(v, d)
    <3>1. submission' = [submission EXCEPT !.status = "submitted", !.version = @ + 1,
                           !.effective = EffectiveAfter(v, d)]
      BY <1>6 DEF Decide
    <3>2. DOMAIN submission = DOMAIN submission' /\ "effective" \in DOMAIN submission
      BY <1>1, <3>1 DEF TypeOK, LifecycleTypeOK
    <3> QED
      BY <3>1, <3>2
  <2>2. /\ submission.effective < v /\ submission.effective \in Nat /\ v \in Nat
        /\ v \notin DOMAIN decisions
    BY <1>6, DecidedNow
  <2>3. decisions' = Extend(decisions, v, [decision |-> d, by |-> u, at |-> now])
    BY <1>6 DEF Decide
  <2>4. v \in DOMAIN decisions'
    BY <2>3 DEF Extend
  <2> QED
    BY <2>1, <2>2, <2>4 DEF EffectiveAfter, MovesByRule
<1>7. CASE Tick \/ UNCHANGED vars
  BY <1>7 DEF Tick, vars, lifecycleVars, MovesByRule
<1> QED
  BY <1>1, <1>2, <1>3, <1>4, <1>5, <1>6, <1>7, NextCases DEF SomeSubmission, SomeDecision

\* The effective version only moves forward; past the deadline only a decision moves it.
THEOREM EffectiveMoves == Spec => EffectiveMovesByRule
<1>1. IInv /\ [Next]_vars =>
        [submission'.effective # submission.effective =>
           /\ submission'.effective > submission.effective
           /\ Submitted /\ now >= submission.deadline =>
                /\ submission'.effective \in DOMAIN amendments
                /\ submission'.effective \in DOMAIN decisions' \ DOMAIN decisions]_vars
  BY StepMovesByRule DEF MovesByRule
<1> QED
  BY <1>1, Inductive, PTL DEF Spec, EffectiveMovesByRule

-----------------------------------------------------------------------------
(***************************************************************************)
(* The workspace implements SubmissionLedger.                              *)
(***************************************************************************)
Awaiting == IF Pending = {} THEN 0 ELSE Highest(Pending)

\* The content awaiting a decision, read from amendments a, the status st of the
\* submission and the number n of contents, in this state or the next.
LEMMA AwaitingIs ==
  ASSUME NEW a, NEW st, NEW n \in Nat,
         \A v \in DOMAIN a : a[v].status = "pending" => v = n /\ st = "amendment_pending",
         st = "amendment_pending" => n \in DOMAIN a /\ a[n].status = "pending"
  PROVE  (IF {v \in DOMAIN a : a[v].status = "pending"} = {} THEN 0
            ELSE Highest({v \in DOMAIN a : a[v].status = "pending"})) =
         IF st = "amendment_pending" THEN n ELSE 0
<1> DEFINE P == {v \in DOMAIN a : a[v].status = "pending"}
<1>1. CASE st = "amendment_pending"
  <2>1. P = {n}
    BY <1>1
  <2>2. Highest({n}) = n
    BY HighestIs, \A m \in {n} : m <= n, {n} \subseteq Int, n \in {n}
  <2> QED
    BY <1>1, <2>1, <2>2
<1>2. CASE st # "amendment_pending"
  BY <1>2
<1> QED
  BY <1>1, <1>2

LEMMA AwaitingNow ==
  ASSUME IInv
  PROVE  /\ Awaiting = IF submission.status = "amendment_pending" THEN Count ELSE 0
         /\ Count \in Nat
         /\ Submitted <=> Count > 0
         /\ Submitted => submission.deadline = Deadline
<1>1. Count \in Nat
  BY CountFacts
<1>2. PendingIsNewest /\ Numbered
  BY DEF IInv, HistoryInv
<1> QED
  BY <1>1, <1>2, AwaitingIs DEF PendingIsNewest, Numbered, Awaiting, Pending

LEMMA AwaitingNext ==
  ASSUME IInv'
  PROVE  Awaiting' = IF submission'.status = "amendment_pending" THEN Count' ELSE 0
<1>1. Count' \in Nat
  <2>1. IsFiniteSet(DOMAIN contents')
    BY DEF IInv, TypeOK, LifecycleTypeOK
  <2> QED
    BY <2>1, FS_CardinalityType DEF Count
<1>2. PendingIsNewest'
  BY DEF IInv, HistoryInv
<1>3. /\ \A v \in DOMAIN amendments' : amendments'[v].status = "pending" =>
           v = Count' /\ submission'.status = "amendment_pending"
      /\ submission'.status = "amendment_pending" =>
           Count' \in DOMAIN amendments' /\ amendments'[Count'].status = "pending"
  BY <1>2 DEF PendingIsNewest
<1> HIDE DEF Count
<1>4. Awaiting' = IF {v \in DOMAIN amendments' : amendments'[v].status = "pending"} = {} THEN 0
                    ELSE Highest({v \in DOMAIN amendments' : amendments'[v].status = "pending"})
  BY DEF Awaiting, Pending
<1> QED
  BY <1>1, <1>3, <1>4, AwaitingIs

LEMMA LedgerStep == ASSUME IInv, IInv', [Next]_vars PROVE [Ledger!Next]_(Ledger!vars)
<1>1. /\ TypeOK /\ Awaiting = (IF submission.status = "amendment_pending" THEN Count ELSE 0)
      /\ Count \in Nat
      /\ Submitted <=> Count > 0
      /\ Submitted => submission.deadline = Deadline
      /\ Awaiting' = (IF submission'.status = "amendment_pending" THEN Count' ELSE 0)
      /\ now \in Nat /\ Deadline \in Nat
  BY AwaitingNow, AwaitingNext, NumberAssumption DEF IInv, TypeOK, DraftTypeOK
<1>2. CASE SomeEdit
  <2>1. UNCHANGED <<now, submission, contents, amendments>>
    BY <1>2 DEF SomeEdit, SaveEdit, SaveDraft, lifecycleVars
  <2> QED
    BY <2>1 DEF Ledger!vars, Pending
<1>3. ASSUME NEW k, NEW u, NEW e, NEW c, Submit(u, k, e, c) PROVE Ledger!Take
  <2>1. Count' = Count + 1 /\ now' = now
    <3>1. SubmitPackage("submit", u, k, e, c) /\ "submit" \in SubmitOperations
      BY <1>3 DEF Submit, SubmitOperations
    <3>2. /\ Count' = Count + 1 /\ "submit" \in Operations \ {"decide"}
          /\ SaveDraft("submit", k, e, draft.package, [confirmed |-> c, content |-> Count + 1])
      BY <3>1, Stored
    <3> QED
      BY <1>1, <3>2, Saved
  <2>2. submission.status = "none" /\ submission'.status = "submitted" /\ submission'.effective = 1
    <3>1. /\ SubmittableStatus("submit")
          /\ submission' = [status |-> "submitted", version |-> 1, effective |-> 1,
                            deadline |-> Deadline]
      BY <1>3 DEF Submit, SubmitPackage
    <3> QED
      BY <3>1 DEF SubmittableStatus
  <2>3. Count = 0 /\ Awaiting = 0 /\ Awaiting' = 0
    BY <1>1, <2>2 DEF Submitted
  <2> QED
    BY <2>1, <2>2, <2>3 DEF Ledger!Take, Count, Awaiting
<1>4. ASSUME NEW k, NEW u, NEW e, NEW c, AmendImmediately(u, k, e, c) PROVE Ledger!Take
  <2>1. Count' = Count + 1 /\ now' = now /\ NextContentVersion = Count + 1
    <3>1. SubmitPackage("amend", u, k, e, c) /\ "amend" \in SubmitOperations
      BY <1>4 DEF AmendImmediately, SubmitOperations
    <3>2. /\ Count' = Count + 1 /\ NextContentVersion = Count + 1
          /\ "amend" \in Operations \ {"decide"}
          /\ SaveDraft("amend", k, e, draft.package, [confirmed |-> c, content |-> Count + 1])
      BY <3>1, Stored
    <3> QED
      BY <1>1, <3>2, Saved
  <2>2. submission.status = "submitted" /\ ConsequenceNow = "immediate"
    BY <1>4 DEF AmendImmediately, SubmitPackage, SubmittableStatus
  <2>3. ~(now >= Deadline)
    BY <1>1, <2>2 DEF ConsequenceNow, Submitted, Late, TurnDeadline
  <2>4. submission'.status = "submitted" /\ submission'.effective = Count + 1
    <3>1. submission' = [submission EXCEPT !.effective = NextContentVersion, !.version = @ + 1]
      BY <1>4 DEF AmendImmediately
    <3>2. submission \in [status : {"none", "submitted", "amendment_pending"},
                          version : Nat, effective : Nat, deadline : Nat]
      BY <1>1 DEF TypeOK, LifecycleTypeOK
    <3> QED
      BY <2>1, <2>2, <3>1, <3>2
  <2>5. Awaiting = 0 /\ Awaiting' = 0
    BY <1>1, <2>2, <2>4
  <2> QED
    BY <2>1, <2>3, <2>4, <2>5 DEF Ledger!Take, Count, Awaiting
<1>5. ASSUME NEW k, NEW u, NEW e, NEW c, ProposeAmendment(u, k, e, c) PROVE Ledger!Propose
  <2>1. Count' = Count + 1 /\ now' = now
    <3>1. SubmitPackage("amend", u, k, e, c) /\ "amend" \in SubmitOperations
      BY <1>5 DEF ProposeAmendment, SubmitOperations
    <3>2. /\ Count' = Count + 1 /\ "amend" \in Operations \ {"decide"}
          /\ SaveDraft("amend", k, e, draft.package, [confirmed |-> c, content |-> Count + 1])
      BY <3>1, Stored
    <3> QED
      BY <1>1, <3>2, Saved
  <2>2. submission.status = "submitted" /\ ConsequenceNow = "approval_required"
    BY <1>5 DEF ProposeAmendment, SubmitPackage, SubmittableStatus
  <2>3. now >= Deadline /\ Count > 0
    BY <1>1, <2>2 DEF ConsequenceNow, Submitted, Late, TurnDeadline
  <2>4. submission'.status = "amendment_pending" /\ submission'.effective = submission.effective
    BY <1>1, <1>5 DEF ProposeAmendment, TypeOK, LifecycleTypeOK
  <2>5. Awaiting = 0 /\ Awaiting' = Count + 1
    BY <1>1, <2>1, <2>2, <2>4
  <2> QED
    BY <2>1, <2>3, <2>4, <2>5 DEF Ledger!Propose, Count, Awaiting
<1>6. ASSUME NEW k, NEW s, NEW u, NEW v \in DOMAIN amendments, NEW d \in Verdicts,
             Decide(u, k, s, v, d)
      PROVE  Ledger!Settle
  <2>1. v = Count /\ Submitted
    BY <1>6, DecidedNow
  <2>2. submission.status = "amendment_pending"
    BY <1>6 DEF Decide, DecisionCurrent, IInv, HistoryInv, PendingIsNewest
  <2>3. /\ UNCHANGED <<now, contents>>
        /\ submission' = [submission EXCEPT !.status = "submitted", !.version = @ + 1,
                            !.effective = EffectiveAfter(v, d)]
    BY <1>6 DEF Decide
  <2>4. submission'.status = "submitted" /\ submission'.effective = EffectiveAfter(v, d)
    BY <1>1, <2>3 DEF TypeOK, LifecycleTypeOK
  <2>5. Awaiting = Count /\ Awaiting # 0 /\ Awaiting' = 0 /\ Count' = Count
    BY <1>1, <2>1, <2>2, <2>3, <2>4 DEF Count
  <2>6. submission'.effective \in {Awaiting, submission.effective}
    BY <2>1, <2>4, <2>5 DEF EffectiveAfter
  <2> QED
    BY <2>3, <2>5, <2>6 DEF Ledger!Settle, Count, Awaiting
<1>7. CASE Tick
  <2>1. now' = now + 1 /\ UNCHANGED <<submission, contents, amendments>>
    BY <1>7 DEF Tick, lifecycleVars
  <2>2. now >= Deadline => now' >= Deadline
    BY <1>1, <2>1
  <2>3. CASE ~(now >= Deadline) /\ now' >= Deadline
    BY <2>1, <2>3 DEF Ledger!PassDeadline, Ledger!Next, Pending
  <2>4. CASE ~(~(now >= Deadline) /\ now' >= Deadline)
    BY <2>1, <2>2, <2>4 DEF Ledger!vars, Pending
  <2> QED
    BY <2>3, <2>4
<1>8. CASE UNCHANGED vars
  BY <1>8 DEF vars, Ledger!vars, Pending
<1> QED
  BY <1>1, <1>2, <1>3, <1>4, <1>5, <1>6, <1>7, <1>8, NextCases
  DEF SomeSubmission, SomeDecision, Ledger!Next

\* Every history of drafts, submissions, revisions and decisions is one the ledger
\* allows, whoever acts, with whatever page and key, before or after the deadline.
THEOREM LedgerKept == Spec => KeepsLedger
<1>1. Init => Ledger!Init
  BY FS_EmptySet DEF Init, Ledger!Init, Pending
<1>2. IInv /\ IInv' /\ [Next]_vars => [Ledger!Next]_(Ledger!vars)
  BY LedgerStep
<1> QED
  BY <1>1, <1>2, Inductive, PTL DEF Spec, KeepsLedger, Ledger!Spec

-----------------------------------------------------------------------------
(***************************************************************************)
(* Request keys and what they made.                                        *)
(***************************************************************************)
SavingOperations == Operations \ {"decide"}

\* Key k of operation op is the one whose request saved version n.
MadeBy(n, op, k) ==
  \A o \in SavingOperations : \A j \in UsedKeys(o) :
    requests[o][j].id = n <=> o = op /\ j = k

MadeByOne(n) == \E k \in UsedKeys(revisions[n].op) : MadeBy(n, revisions[n].op, k)

Authored == \A n \in DOMAIN revisions : MadeByOne(n)

DecidedByOne ==
  \A v \in DOMAIN decisions :
    \E k \in UsedKeys("decide") :
      \A j \in UsedKeys("decide") : requests["decide"][j].id = v <=> j = k

KeysLead ==
  /\ \A op \in SavingOperations : \A k \in UsedKeys(op) : requests[op][k].id \in DOMAIN revisions
  /\ \A k \in UsedKeys("decide") : requests["decide"][k].id \in DOMAIN decisions

KInv == Authored /\ DecidedByOne /\ KeysLead

LEMMA KInvIsOnce == TypeOK /\ KInv => KeysMadeOneChange
<1> SUFFICES ASSUME TypeOK, KInv PROVE KeysMadeOneChange
  OBVIOUS
<1>1. DOMAIN revisions = 1 .. draft.version
  BY DEF TypeOK, DraftTypeOK
<1>2. \A n \in 1 .. draft.version :
        \E k \in UsedKeys(revisions[n].op) :
          \A op \in Operations \ {"decide"} : \A j \in UsedKeys(op) :
            requests[op][j].id = n <=> op = revisions[n].op /\ j = k
  BY <1>1 DEF KInv, Authored, MadeByOne, MadeBy, SavingOperations
<1>3. \A op \in Operations : \A k \in UsedKeys(op) :
        requests[op][k].id \in IF op = "decide" THEN DOMAIN decisions ELSE DOMAIN revisions
  BY DEF KInv, KeysLead, SavingOperations
<1> QED
  BY <1>2, <1>3 DEF KInv, DecidedByOne, KeysMadeOneChange

\* A saved version leaves every other with the key that made it.
LEMMA SaveKeepsKeys ==
  ASSUME TypeOK, KInv, NEW op \in SavingOperations, NEW k, NEW e, NEW p, NEW c,
         SaveDraft(op, k, e, p, c), UNCHANGED decisions
  PROVE  KInv'
<1> DEFINE new == draft.version + 1
<1>1. /\ DOMAIN revisions = 1 .. draft.version /\ draft.version \in Nat
      /\ new \notin DOMAIN revisions /\ DOMAIN revisions' = DOMAIN revisions \cup {new}
      /\ revisions'[new].op = op
      /\ \A m \in DOMAIN revisions : revisions'[m] = revisions[m]
      /\ ClaimRequestKey(op, k, "package_revision", new, c)
  <2>1. op \in Operations \ {"decide"}
    BY DEF SavingOperations
  <2>2. /\ draft.version \in Nat /\ DOMAIN revisions = 1 .. draft.version
        /\ draft.version + 1 \notin DOMAIN revisions
        /\ DOMAIN revisions' = 1 .. (draft.version + 1)
        /\ revisions'[draft.version + 1] = [package |-> p, op |-> op, base |-> e]
        /\ \A m \in DOMAIN revisions : revisions'[m] = revisions[m]
        /\ ClaimRequestKey(op, k, "package_revision", draft.version + 1, c)
    BY <2>1, Saved
  <2> QED
    BY <2>2, IntervalGrows
<1> HIDE DEF new
<1>2. /\ k \notin UsedKeys(op) /\ UsedKeys(op)' = UsedKeys(op) \cup {k}
      /\ requests'[op][k].id = new
      /\ \A j \in UsedKeys(op) : requests'[op][j] = requests[op][j]
      /\ \A o \in Operations \ {op} : requests'[o] = requests[o]
  <2>1. op \in Operations
    BY DEF SavingOperations
  <2>2. /\ k \notin UsedKeys(op) /\ UsedKeys(op)' = UsedKeys(op) \cup {k}
        /\ requests'[op][k] = [kind |-> "package_revision", id |-> new, completion |-> c]
        /\ \A j \in UsedKeys(op) : requests'[op][j] = requests[op][j]
        /\ \A o \in Operations \ {op} : requests'[o] = requests[o]
    BY <1>1, <2>1, Claimed
  <2> QED
    BY <2>2
<1>3. \A o \in Operations \ {op} : UsedKeys(o)' = UsedKeys(o)
  BY <1>2 DEF UsedKeys
<1>4. op # "decide" /\ "decide" \in Operations /\ SavingOperations \subseteq Operations
  BY DEF SavingOperations, Operations
<1>5. \A o \in SavingOperations : \A j \in UsedKeys(o) :
        j \in UsedKeys(o)' /\ requests'[o][j] = requests[o][j]
  BY <1>2, <1>3, <1>4
<1>6. \A o \in SavingOperations : \A j \in UsedKeys(o)' :
        j \in UsedKeys(o) \/ (o = op /\ j = k /\ requests'[o][j].id = new)
  BY <1>2, <1>3, <1>4
<1>7. KeysLead'
  <2>1. \A o \in SavingOperations : \A j \in UsedKeys(o)' : requests'[o][j].id \in DOMAIN revisions'
    BY <1>1, <1>5, <1>6 DEF KInv, KeysLead
  <2>2. \A j \in UsedKeys("decide")' : requests'["decide"][j].id \in DOMAIN decisions'
    BY <1>2, <1>3, <1>4 DEF KInv, KeysLead
  <2> QED
    BY <2>1, <2>2 DEF KeysLead
<1>8. DecidedByOne'
  BY <1>2, <1>3, <1>4 DEF KInv, DecidedByOne
<1>9. ASSUME NEW n \in DOMAIN revisions'
      PROVE  MadeByOne(n)'
  <2>1. CASE n = new
    <3>1. \A o \in SavingOperations : \A j \in UsedKeys(o) : requests'[o][j].id # new
      BY <1>1, <1>5 DEF KInv, KeysLead
    <3>2. ASSUME NEW o \in SavingOperations, NEW j \in UsedKeys(o)'
          PROVE  requests'[o][j].id = new <=> o = op /\ j = k
      <4>1. CASE j \in UsedKeys(o)
        BY <1>2, <3>1, <4>1
      <4>2. CASE o = op /\ j = k /\ requests'[o][j].id = new
        BY <4>2
      <4> QED
        BY <1>6, <4>1, <4>2
    <3>3. MadeBy(n, op, k)' /\ k \in UsedKeys(op)' /\ revisions'[n].op = op
      BY <1>1, <1>2, <2>1, <3>2 DEF MadeBy
    <3> QED
      BY <3>3 DEF MadeByOne
  <2>2. CASE n \in DOMAIN revisions
    <3>1. PICK j \in UsedKeys(revisions[n].op) : MadeBy(n, revisions[n].op, j)
      BY <2>2 DEF KInv, Authored, MadeByOne
    <3>2. revisions[n].op \in SavingOperations /\ revisions'[n].op = revisions[n].op
      BY <1>1, <2>2 DEF TypeOK, DraftTypeOK, SavingOperations
    <3>3. j \in UsedKeys(revisions[n].op)'
      BY <1>5, <3>1, <3>2
    <3>4. n # new
      BY <1>1, <2>2
    <3>5. ASSUME NEW o \in SavingOperations, NEW i \in UsedKeys(o)'
          PROVE  requests'[o][i].id = n <=> o = revisions[n].op /\ i = j
      <4>1. CASE i \in UsedKeys(o)
        BY <1>5, <3>1, <4>1 DEF MadeBy
      <4>2. CASE o = op /\ i = k /\ requests'[o][i].id = new
        BY <1>2, <3>1, <3>4, <4>2
      <4> QED
        BY <1>6, <4>1, <4>2
    <3> QED
      BY <3>2, <3>3, <3>5 DEF MadeByOne, MadeBy, UsedKeys
  <2> QED
    BY <1>1, <2>1, <2>2
<1> QED
  BY <1>7, <1>8, <1>9 DEF KInv, Authored

\* So does a decision, which saves no version.
LEMMA DecideKeepsKeys ==
  ASSUME IInv, KInv, NEW u, NEW k, NEW s, NEW v \in DOMAIN amendments, NEW d \in Verdicts,
         Decide(u, k, s, v, d)
  PROVE  KInv'
<1>1. /\ ClaimRequestKey("decide", k, "amendment_decision", v, NoCompletion)
      /\ decisions' = Extend(decisions, v, [decision |-> d, by |-> u, at |-> now])
      /\ UNCHANGED revisions
  BY DEF Decide
<1>2. v \notin DOMAIN decisions
  BY DecidedNow
<1>3. DOMAIN decisions' = DOMAIN decisions \cup {v}
  BY <1>1 DEF Extend
<1>4. "decide" \in Operations /\ SavingOperations \subseteq Operations \ {"decide"} /\ TypeOK
  BY DEF Operations, SavingOperations, IInv
<1>5. /\ k \notin UsedKeys("decide") /\ UsedKeys("decide")' = UsedKeys("decide") \cup {k}
      /\ requests'["decide"][k].id = v
      /\ \A j \in UsedKeys("decide") : requests'["decide"][j] = requests["decide"][j]
      /\ \A o \in Operations \ {"decide"} : requests'[o] = requests[o]
  <2>1. /\ k \notin UsedKeys("decide") /\ UsedKeys("decide")' = UsedKeys("decide") \cup {k}
        /\ requests'["decide"][k] =
             [kind |-> "amendment_decision", id |-> v, completion |-> NoCompletion]
        /\ \A j \in UsedKeys("decide") : requests'["decide"][j] = requests["decide"][j]
        /\ \A o \in Operations \ {"decide"} : requests'[o] = requests[o]
    BY <1>1, <1>4, Claimed
  <2> QED
    BY <2>1
<1>6. \A o \in SavingOperations : UsedKeys(o)' = UsedKeys(o) /\ requests'[o] = requests[o]
  BY <1>4, <1>5 DEF UsedKeys
<1>7. KeysLead'
  BY <1>1, <1>3, <1>5, <1>6 DEF KInv, KeysLead
<1>8. DecidedByOne'
  <2>1. ASSUME NEW w \in DOMAIN decisions'
        PROVE  \E i \in UsedKeys("decide")' :
                 \A j \in UsedKeys("decide")' : requests'["decide"][j].id = w <=> j = i
    <3>1. CASE w = v
      BY <1>2, <1>5, <3>1 DEF KInv, KeysLead
    <3>2. CASE w \in DOMAIN decisions
      <4>1. PICK i \in UsedKeys("decide") :
              \A j \in UsedKeys("decide") : requests["decide"][j].id = w <=> j = i
        BY <3>2 DEF KInv, DecidedByOne
      <4>2. i # k /\ w # v
        BY <1>2, <1>5, <3>2
      <4> QED
        BY <1>5, <4>1, <4>2
    <3> QED
      BY <1>3, <3>1, <3>2
  <2> QED
    BY <2>1 DEF DecidedByOne
<1>9. Authored'
  <2>1. ASSUME NEW n \in DOMAIN revisions'
        PROVE  MadeByOne(n)'
    <3>1. revisions'[n].op = revisions[n].op /\ revisions[n].op \in SavingOperations
      BY <1>1, <1>4 DEF TypeOK, DraftTypeOK, SavingOperations
    <3>2. PICK j \in UsedKeys(revisions[n].op) : MadeBy(n, revisions[n].op, j)
      BY <1>1 DEF KInv, Authored, MadeByOne
    <3>3. \A o \in SavingOperations : \A i \in UsedKeys(o)' :
            requests'[o][i].id = n <=> o = revisions[n].op /\ i = j
      BY <1>6, <3>2 DEF MadeBy
    <3>4. j \in UsedKeys(revisions[n].op)'
      BY <1>1, <1>6, <3>1, <3>2 DEF UsedKeys
    <3> QED
      BY <3>1, <3>3, <3>4 DEF MadeByOne, MadeBy, UsedKeys
  <2> QED
    BY <2>1 DEF Authored
<1> QED
  BY <1>7, <1>8, <1>9 DEF KInv

LEMMA StepKeepsKeys == ASSUME IInv, KInv, [Next]_vars PROVE KInv'
<1>1. TypeOK
  BY DEF IInv
<1>2. CASE SomeEdit
  <2>1. PICK k, p : \E op \in EditOperations, e \in 0 .. draft.version :
          IsPackage(p) /\ SaveEdit(op, k, e, p)
    BY <1>2 DEF SomeEdit
  <2>2. PICK op \in EditOperations, e \in 0 .. draft.version : SaveEdit(op, k, e, p)
    BY <2>1
  <2>3. op \in SavingOperations /\ SaveDraft(op, k, e, p, NoCompletion) /\ UNCHANGED decisions
    BY <2>2 DEF SaveEdit, lifecycleVars, EditOperations, Operations, SavingOperations
  <2> QED
    BY <1>1, <2>3, SaveKeepsKeys
<1>3. ASSUME NEW k, NEW u, NEW e, NEW c,
             Submit(u, k, e, c) \/ AmendImmediately(u, k, e, c) \/ ProposeAmendment(u, k, e, c)
      PROVE  KInv'
  <2>1. PICK op \in SubmitOperations : SubmitPackage(op, u, k, e, c)
    BY <1>3 DEF Submit, AmendImmediately, ProposeAmendment, SubmitOperations
  <2>2. op \in SavingOperations /\ UNCHANGED decisions
    BY <1>3 DEF Submit, AmendImmediately, ProposeAmendment, SubmitOperations, Operations,
                SavingOperations
  <2>3. SaveDraft(op, k, e, draft.package, [confirmed |-> c, content |-> Count + 1])
    BY <2>1, Stored
  <2> QED
    BY <1>1, <2>2, <2>3, SaveKeepsKeys
<1>4. ASSUME NEW k, NEW s, NEW u, NEW v \in DOMAIN amendments, NEW d \in Verdicts,
             Decide(u, k, s, v, d)
      PROVE  KInv'
  BY <1>4, DecideKeepsKeys
<1>5. CASE Tick \/ UNCHANGED vars
  <2>1. UNCHANGED <<revisions, decisions, requests>>
    BY <1>5 DEF Tick, vars, lifecycleVars
  <2> QED
    BY <2>1 DEF KInv, Authored, MadeByOne, MadeBy, DecidedByOne, KeysLead, UsedKeys
<1> QED
  BY <1>1, <1>2, <1>3, <1>4, <1>5, NextCases DEF SomeSubmission, SomeDecision

\* Each saved version and each decision was made by exactly one request key, and each
\* key made exactly one of them, however many duplicates and retries arrive.
THEOREM KeysOnce == Spec => []KeysMadeOneChange
<1>1. Init => KInv
  BY DEF Init, KInv, Authored, DecidedByOne, KeysLead, UsedKeys, Operations, SavingOperations
<1>2. IInv /\ KInv /\ [Next]_vars => KInv'
  BY StepKeepsKeys
<1>3. IInv /\ KInv => KeysMadeOneChange
  BY KInvIsOnce DEF IInv
<1> QED
  BY <1>1, <1>2, <1>3, Inductive, PTL DEF Spec

-----------------------------------------------------------------------------
(***************************************************************************)
(* What a submitter confirmed.                                             *)
(***************************************************************************)
\* The completion c of a request for a submission or a revision, against the rows.
Applied(c) ==
  LET before == {w \in DOMAIN events : w < c.content}
  IN /\ c.content \in DOMAIN contents
     /\ c.confirmed.effective = IF before = {} THEN 0 ELSE Highest(before)
     /\ c.confirmed.consequence = "approval_required" <=> c.content \in DOMAIN amendments
     /\ c.confirmed.late <=> contents[c.content].at >= Deadline

AInv == \A op \in SubmitOperations : \A k \in UsedKeys(op) : Applied(requests[op][k].completion)

\* Rows that come after content n leave what happened at n alone.
LEMMA LaterRows ==
  ASSUME NEW c, Applied(c), Keeps(contents, contents'), NEW N,
         DOMAIN events' \subseteq DOMAIN events \cup N, DOMAIN events \subseteq DOMAIN events',
         DOMAIN amendments' \subseteq DOMAIN amendments \cup N,
         DOMAIN amendments \subseteq DOMAIN amendments',
         \A w \in N : ~(w < c.content) /\ (w = c.content => c.content \in DOMAIN amendments)
  PROVE  Applied(c)'
<1>1. {w \in DOMAIN events' : w < c.content} = {w \in DOMAIN events : w < c.content}
  OBVIOUS
<1>2. c.content \in DOMAIN amendments' <=> c.content \in DOMAIN amendments
  OBVIOUS
<1>3. c.content \in DOMAIN contents' /\ contents'[c.content] = contents[c.content]
  BY DEF Keeps, Applied
<1> QED
  BY <1>1, <1>2, <1>3 DEF Applied

\* What is confirmed is what a new content records.
LEMMA NewApplied ==
  ASSUME IInv, NEW op \in SubmitOperations, NEW u, NEW k, NEW e, NEW c,
         SubmitPackage(op, u, k, e, c), NEW new, new = Count + 1,
         DOMAIN events' \subseteq DOMAIN events \cup {new}, DOMAIN events \subseteq DOMAIN events',
         c.consequence = "approval_required" <=> new \in DOMAIN amendments'
  PROVE  Applied([confirmed |-> c, content |-> new])'
<1>1. /\ c = ConfirmationNow /\ Count \in Nat /\ DOMAIN contents = 1 .. Count
      /\ new \in DOMAIN contents' /\ contents'[new].at = now
  <2>1. c = ConfirmationNow
    BY DEF SubmitPackage, ConfirmationAccepted
  <2>2. /\ Count \in Nat /\ DOMAIN contents = 1 .. Count
        /\ DOMAIN contents' = 1 .. (Count + 1) /\ contents'[Count + 1].at = now
    BY Stored
  <2> QED
    BY <2>1, <2>2
<1>2. DOMAIN events \subseteq 1 .. Count
  BY <1>1 DEF IInv, TypeOK, LifecycleTypeOK
<1>3. {w \in DOMAIN events' : w < new} = DOMAIN events
  <2>1. (\A w \in DOMAIN events : w < new) /\ ~(new < new)
    BY <1>1, <1>2
  <2> QED
    BY <2>1
<1>4. submission.effective = IF DOMAIN events = {} THEN 0 ELSE Highest(DOMAIN events)
  <2>1. CASE Submitted
    <3>1. /\ submission.effective \in DOMAIN events
          /\ \A w \in DOMAIN events : w <= submission.effective
      BY <2>1 DEF IInv, HistoryInv, EffectiveIsNewest
    <3>2. DOMAIN events \subseteq Int
      BY <1>2
    <3> QED
      BY <3>1, <3>2, HighestIs
  <2>2. CASE ~Submitted
    BY <2>2, NothingYet
  <2> QED
    BY <2>1, <2>2
<1>5. Late <=> now >= Deadline
  BY DEF Late, TurnDeadline, IInv, HistoryInv, Numbered
<1>6. /\ c.effective = submission.effective /\ c.late = Late
  BY <1>1 DEF ConfirmationNow
<1> QED
  BY <1>1, <1>3, <1>4, <1>5, <1>6 DEF Applied

AppliedAt(op, k) == Applied(requests[op][k].completion)

\* The rows a step adds come after every content there was.
OnlyLater(N) ==
  /\ DOMAIN events' \subseteq DOMAIN events \cup N
  /\ DOMAIN amendments' \subseteq DOMAIN amendments \cup N
  /\ \A w \in N : w \in Nat /\ w >= Count /\ (w = Count => Count \in DOMAIN amendments)

LEMMA OldApplied ==
  ASSUME IInv, AInv, RowsKept, NEW N, OnlyLater(N),
         NEW op \in SubmitOperations, NEW k \in UsedKeys(op)
  PROVE  AppliedAt(op, k)'
<1>1. PICK c : c = requests[op][k].completion
  OBVIOUS
<1>2. Applied(c)
  BY <1>1 DEF AInv
<1>3. op \in Operations
  BY DEF SubmitOperations, Operations
<1>4. requests'[op][k].completion = c
  BY <1>1, <1>3 DEF RowsKept, KeysKept, Keeps, UsedKeys
<1>5. c.content \in 1 .. Count /\ Count \in Nat
  BY <1>2, CountFacts DEF Applied
<1>6. \A w \in N : ~(w < c.content) /\ (w = c.content => c.content \in DOMAIN amendments)
  BY <1>5 DEF OnlyLater
<1>7. /\ Keeps(contents, contents')
      /\ DOMAIN events \subseteq DOMAIN events'
      /\ DOMAIN amendments \subseteq DOMAIN amendments'
      /\ DOMAIN events' \subseteq DOMAIN events \cup N
      /\ DOMAIN amendments' \subseteq DOMAIN amendments \cup N
  BY DEF RowsKept, Keeps, DecidedKept, OnlyLater
<1>8. Applied(c)'
  BY <1>2, <1>6, <1>7, LaterRows
<1> QED
  BY <1>4, <1>8 DEF AppliedAt, Applied

LEMMA StepKeepsApplied == ASSUME IInv, AInv, [Next]_vars PROVE AInv'
<1>1. TypeOK /\ RowsKept
  BY StepKeepsRows DEF IInv
<1>2. ASSUME NEW N, OnlyLater(N), \A op \in SubmitOperations : UsedKeys(op)' = UsedKeys(op)
      PROVE  AInv'
  BY <1>1, <1>2, OldApplied DEF AInv, AppliedAt
<1>3. ASSUME NEW op \in SubmitOperations, NEW u, NEW k, NEW e, NEW c,
             SubmitPackage(op, u, k, e, c), OnlyLater({Count + 1}),
             c.consequence = "approval_required" <=> Count + 1 \in DOMAIN amendments'
      PROVE  AInv'
  <2>1. PICK new : new = Count + 1
    OBVIOUS
  <2>2. Applied([confirmed |-> c, content |-> new])'
    BY <1>1, <1>3, <2>1, NewApplied DEF OnlyLater, RowsKept, Keeps
  <2>3. /\ UsedKeys(op)' = UsedKeys(op) \cup {k}
        /\ requests'[op][k].completion = [confirmed |-> c, content |-> new]
        /\ \A o \in Operations \ {op} : requests'[o] = requests[o]
    <3>1. op \in Operations \ {"decide"} /\ op \in Operations
          /\ SaveDraft(op, k, e, draft.package, [confirmed |-> c, content |-> Count + 1])
      BY <1>3, Stored
    <3>2. ClaimRequestKey(op, k, "package_revision", draft.version + 1,
                          [confirmed |-> c, content |-> Count + 1])
      BY <3>1 DEF SaveDraft
    <3>3. /\ UsedKeys(op)' = UsedKeys(op) \cup {k}
          /\ requests'[op][k] = [kind |-> "package_revision", id |-> draft.version + 1,
                                 completion |-> [confirmed |-> c, content |-> Count + 1]]
          /\ \A o \in Operations \ {op} : requests'[o] = requests[o]
      BY <1>1, <3>1, <3>2, Claimed
    <3> QED
      BY <2>1, <3>3
  <2>4. AppliedAt(op, k)'
    BY <2>2, <2>3 DEF AppliedAt, Applied
  <2>5. \A o \in SubmitOperations : \A j \in UsedKeys(o)' : j \in UsedKeys(o) \/ (o = op /\ j = k)
    BY <2>3 DEF UsedKeys, SubmitOperations, Operations
  <2> QED
    BY <1>1, <1>3, <2>4, <2>5, OldApplied DEF AInv, AppliedAt
<1>4. CASE SomeEdit
  <2>1. PICK k, p : \E op \in EditOperations, e \in 0 .. draft.version :
          IsPackage(p) /\ SaveEdit(op, k, e, p)
    BY <1>4 DEF SomeEdit
  <2>2. PICK op \in EditOperations, e \in 0 .. draft.version : SaveEdit(op, k, e, p)
    BY <2>1
  <2>3. /\ op \in Operations /\ op \notin SubmitOperations /\ UNCHANGED <<events, amendments>>
        /\ ClaimRequestKey(op, k, "package_revision", draft.version + 1, NoCompletion)
    BY <2>2 DEF SaveEdit, SaveDraft, lifecycleVars, EditOperations, Operations, SubmitOperations
  <2>4. \A o \in SubmitOperations : requests'[o] = requests[o]
    BY <1>1, <2>3, Claimed DEF SubmitOperations, Operations
  <2>5. OnlyLater({})
    BY <2>3 DEF OnlyLater
  <2>6. \A o \in SubmitOperations : UsedKeys(o)' = UsedKeys(o)
    BY <2>4 DEF UsedKeys
  <2> QED
    BY <1>2, <2>5, <2>6
<1>5. ASSUME NEW k, NEW u, NEW e, NEW c, Submit(u, k, e, c) PROVE AInv'
  <2>1. SubmitPackage("submit", u, k, e, c) /\ "submit" \in SubmitOperations
    BY <1>5 DEF Submit, SubmitOperations
  <2>2. ~Submitted
    BY <2>1 DEF SubmitPackage, SubmittableStatus, Submitted
  <2>3. Count = 0 /\ DOMAIN amendments = {} /\ UNCHANGED amendments
    BY <1>5, <2>2, NothingYet DEF Submit
  <2>4. DOMAIN events' = DOMAIN events \cup {Count + 1}
    BY <1>5, <2>3 DEF Submit, RecordEvent, Extend
  <2>5. c.consequence = "immediate"
    BY <2>1, <2>2
    DEF SubmitPackage, ConfirmationAccepted, ConfirmationNow, ConsequenceNow
  <2> QED
    BY <1>3, <2>1, <2>3, <2>4, <2>5 DEF OnlyLater
<1>6. ASSUME NEW k, NEW u, NEW e, NEW c, AmendImmediately(u, k, e, c) PROVE AInv'
  <2>1. SubmitPackage("amend", u, k, e, c) /\ "amend" \in SubmitOperations
    BY <1>6 DEF AmendImmediately, SubmitOperations
  <2>2. /\ Count \in Nat /\ NextContentVersion = Count + 1 /\ Count + 1 \notin DOMAIN contents
        /\ c = ConfirmationNow
    BY <2>1, CountFacts DEF SubmitPackage, ConfirmationAccepted
  <2>3. UNCHANGED amendments /\ Count + 1 \notin DOMAIN amendments
    BY <1>1, <1>6, <2>2 DEF AmendImmediately, TypeOK, LifecycleTypeOK
  <2>4. DOMAIN events' = DOMAIN events \cup {Count + 1}
    BY <1>6, <2>2 DEF AmendImmediately, RecordEvent, Extend
  <2>5. c.consequence = "immediate"
    BY <1>6, <2>2 DEF AmendImmediately, ConfirmationNow
  <2> QED
    BY <1>3, <2>1, <2>2, <2>3, <2>4, <2>5 DEF OnlyLater
<1>7. ASSUME NEW k, NEW u, NEW e, NEW c, ProposeAmendment(u, k, e, c) PROVE AInv'
  <2>1. SubmitPackage("amend", u, k, e, c) /\ "amend" \in SubmitOperations
    BY <1>7 DEF ProposeAmendment, SubmitOperations
  <2>2. Count \in Nat /\ NextContentVersion = Count + 1 /\ c = ConfirmationNow
    BY <2>1, CountFacts DEF SubmitPackage, ConfirmationAccepted
  <2>3. UNCHANGED events /\ DOMAIN amendments' = DOMAIN amendments \cup {Count + 1}
    BY <1>7, <2>2 DEF ProposeAmendment, Extend
  <2>4. c.consequence = "approval_required"
    BY <1>7, <2>2 DEF ProposeAmendment, ConfirmationNow
  <2> QED
    BY <1>3, <2>1, <2>2, <2>3, <2>4 DEF OnlyLater
<1>8. ASSUME NEW k, NEW s, NEW u, NEW v \in DOMAIN amendments, NEW d \in Verdicts,
             Decide(u, k, s, v, d)
      PROVE  AInv'
  <2>1. v = Count /\ Count \in Nat
    BY <1>8, DecidedNow
  <2>2. ClaimRequestKey("decide", k, "amendment_decision", v, NoCompletion)
    BY <1>8 DEF Decide
  <2>3. \A o \in SubmitOperations : requests'[o] = requests[o]
    BY <1>1, <2>2, Claimed, ZenonT(60) DEF SubmitOperations, Operations
  <2>4. DOMAIN events' \subseteq DOMAIN events \cup {v} /\ DOMAIN amendments' = DOMAIN amendments
    BY <1>8 DEF Decide, RecordEvent, Extend
  <2>5. OnlyLater({v})
    BY <2>1, <2>4 DEF OnlyLater
  <2>6. \A o \in SubmitOperations : UsedKeys(o)' = UsedKeys(o)
    BY <2>3 DEF UsedKeys
  <2> QED
    BY <1>2, <2>5, <2>6
<1>9. CASE Tick \/ UNCHANGED vars
  <2>1. UNCHANGED <<events, amendments, requests>>
    BY <1>9 DEF Tick, vars, lifecycleVars
  <2>2. OnlyLater({})
    BY <2>1 DEF OnlyLater
  <2>3. \A o \in SubmitOperations : UsedKeys(o)' = UsedKeys(o)
    BY <2>1 DEF UsedKeys
  <2> QED
    BY <1>2, <2>2, <2>3
<1> QED
  BY <1>1, <1>4, <1>5, <1>6, <1>7, <1>8, <1>9, NextCases DEF SomeSubmission, SomeDecision

LEMMA AppliedIsConfirmed == IInv /\ AInv => ConfirmedIsApplied
<1> SUFFICES ASSUME IInv, AInv, NEW op \in SubmitOperations, NEW k \in UsedKeys(op)
             PROVE  LET c == requests[op][k].completion
                        before == {w \in DOMAIN events : w < c.content}
                    IN /\ c.content \in DOMAIN contents
                       /\ c.confirmed.effective = IF before = {} THEN 0 ELSE Highest(before)
                       /\ c.confirmed.consequence = "approval_required" <=>
                            c.content \in DOMAIN amendments
                       /\ c.confirmed.late <=> contents[c.content].at >= submission.deadline
  BY DEF ConfirmedIsApplied
<1>1. Applied(requests[op][k].completion)
  BY DEF AInv
<1>2. DOMAIN contents # {}
  BY <1>1 DEF Applied
<1>3. submission.deadline = Deadline
  BY <1>2, NothingYet DEF IInv, HistoryInv, Numbered
<1> QED
  BY <1>1, <1>3 DEF Applied

\* The base, the consequence and the lateness a submitter confirmed are what happened,
\* and a replay of the request reports them however much followed.
THEOREM ConfirmedApplied == Spec => []ConfirmedIsApplied
<1>1. Init => AInv
  BY DEF Init, AInv, UsedKeys, SubmitOperations, Operations
<1>2. IInv /\ AInv /\ [Next]_vars => AInv'
  BY StepKeepsApplied
<1>3. IInv /\ AInv => ConfirmedIsApplied
  BY AppliedIsConfirmed
<1> QED
  BY <1>1, <1>2, <1>3, Inductive, PTL DEF Spec

-----------------------------------------------------------------------------
(***************************************************************************)
(* Drafts: nothing is overwritten unseen, and the order is authored.       *)
(***************************************************************************)
\* Saving package p over package q, by an author who saw package seen, replaces only
\* what that author saw.
Harmless(p, q, seen) ==
  /\ p.intention # q.intention => seen.intention = q.intention
  /\ \A a \in DOMAIN q.actions : ~SameActionScope(p, q, a) => SameActionScope(seen, q, a)

\* Live positions differ, and every position is below the number of rows, which is
\* where the next action goes.
Ordered(p) ==
  /\ \A a \in DOMAIN p.actions : p.actions[a].position < Cardinality(DOMAIN p.actions)
  /\ \A a, b \in Live(p) : p.actions[a].position = p.actions[b].position => a = b

LEMMA Unharmed ==
  ASSUME NEW p, IsPackage(p), NEW seen
  PROVE  Harmless(p, p, seen)
BY DEF Harmless, SameActionScope

\* The author of the newest version saw everything.
LEMMA CurrentIsHarmless ==
  ASSUME NEW p, NEW q, IsPackage(q)
  PROVE  Harmless(p, q, q)
BY DEF Harmless, SameActionScope

\* Only the row of action a differs.
LEMMA RowIsHarmless ==
  ASSUME NEW q, IsPackage(q), NEW a, NEW row, NEW seen,
         a \in DOMAIN q.actions => SameActionScope(seen, q, a)
  PROVE  Harmless(WithRow(q, a, row), q, seen)
<1> DEFINE p == WithRow(q, a, row)
<1>1. p = [intention |-> q.intention, actions |-> Extend(q.actions, a, row)]
  BY DEF WithRow, IsPackage
<1>2. p.intention = q.intention /\ p.actions = Extend(q.actions, a, row)
  BY <1>1
<1> HIDE DEF p
<1>3. \A b \in DOMAIN q.actions \ {a} : SameActionScope(p, q, b)
  BY <1>2 DEF Extend, SameActionScope
<1>4. Harmless(p, q, seen)
  BY <1>2, <1>3 DEF Harmless
<1> QED
  BY <1>4 DEF p

LEMMA IntentionIsHarmless ==
  ASSUME NEW q, IsPackage(q), NEW t, NEW seen, seen.intention = q.intention
  PROVE  Harmless(WithIntention(q, t), q, seen)
<1>1. WithIntention(q, t).actions = q.actions
  BY DEF WithIntention, IsPackage
<1> QED
  BY <1>1 DEF Harmless, SameActionScope

\* A row that keeps its position, live only if the row it replaces was.
LEMMA SameRowIsOrdered ==
  ASSUME NEW q, IsPackage(q), Ordered(q), NEW a \in DOMAIN q.actions, NEW row,
         row.position = q.actions[a].position, q.actions[a].removed => row.removed
  PROVE  Ordered(WithRow(q, a, row))
<1> DEFINE p == WithRow(q, a, row)
<1>1. p = [intention |-> q.intention, actions |-> Extend(q.actions, a, row)]
  BY DEF WithRow, IsPackage
<1>2. p.actions = Extend(q.actions, a, row)
  BY <1>1
<1> HIDE DEF p
<1>3. /\ DOMAIN p.actions = DOMAIN q.actions
      /\ \A b \in DOMAIN q.actions : /\ p.actions[b].position = q.actions[b].position
                                     /\ q.actions[b].removed => p.actions[b].removed
  BY <1>2 DEF Extend
<1>4. Live(p) \subseteq Live(q)
  BY <1>3 DEF Live
<1>5. Ordered(p)
  BY <1>3, <1>4 DEF Ordered, Live
<1> QED
  BY <1>5 DEF p

LEMMA NewActionIsOrdered ==
  ASSUME NEW q, IsPackage(q), Ordered(q), NEW a, a \notin DOMAIN q.actions, NEW b
  PROVE  Ordered(WithNewAction(q, a, b))
<1> DEFINE row == [body |-> b, removed |-> FALSE, position |-> NextPosition(q)]
           p == WithRow(q, a, row)
           n == Cardinality(DOMAIN q.actions)
<1>1. p = [intention |-> q.intention, actions |-> Extend(q.actions, a, row)]
  BY DEF WithRow, IsPackage
<1>2. p.actions = Extend(q.actions, a, row) /\ row.position = n /\ ~row.removed
  BY <1>1 DEF NextPosition
<1>3. IsFiniteSet(DOMAIN q.actions) /\ n \in Nat
  BY FS_CardinalityType DEF IsPackage
<1>4. Cardinality(DOMAIN q.actions \cup {a}) = n + 1
  BY <1>3, FS_AddElement
<1>5. WithNewAction(q, a, b) = p
  BY DEF WithNewAction
<1> HIDE DEF p, row, n
<1>6. /\ DOMAIN p.actions = DOMAIN q.actions \cup {a}
      /\ p.actions[a] = row /\ \A m \in DOMAIN q.actions : p.actions[m] = q.actions[m]
  BY <1>2 DEF Extend
<1>7. \A m \in DOMAIN q.actions : q.actions[m].position \in Nat /\ q.actions[m].position < n
  BY DEF Ordered, IsPackage, ActionRow, n
<1>8. \A m \in DOMAIN p.actions : p.actions[m].position < Cardinality(DOMAIN p.actions)
  BY <1>2, <1>3, <1>4, <1>6, <1>7
<1>9. \A m \in Live(p) : m = a \/ (m \in Live(q) /\ p.actions[m].position < n)
  BY <1>6, <1>7 DEF Live
<1>10. \A m, w \in Live(p) : p.actions[m].position = p.actions[w].position => m = w
  <2>1. \A m, w \in Live(q) : q.actions[m].position = q.actions[w].position => m = w
    BY DEF Ordered
  <2>2. Live(q) \subseteq DOMAIN q.actions
    BY DEF Live
  <2> QED
    BY <1>2, <1>3, <1>6, <1>7, <1>9, <2>1, <2>2
<1> QED
  BY <1>5, <1>8, <1>10 DEF Ordered

LEMMA OrderIsOrdered ==
  ASSUME NEW q, IsPackage(q), Ordered(q), NEW o \in Orders(q)
  PROVE  Ordered(WithOrder(q, o))
<1> DEFINE acts == [a \in DOMAIN q.actions |->
                      [q.actions[a] EXCEPT !.position = IF a \in DOMAIN o THEN o[a] ELSE @]]
           p == WithOrder(q, o)
<1>1. p.actions = acts
  BY DEF WithOrder, IsPackage
<1>2. /\ IsFiniteSet(Live(q)) /\ Cardinality(Live(q)) \in Nat
      /\ Cardinality(DOMAIN q.actions) \in Nat
      /\ Cardinality(Live(q)) <= Cardinality(DOMAIN q.actions)
  <2>1. IsFiniteSet(DOMAIN q.actions) /\ Live(q) \subseteq DOMAIN q.actions
    BY DEF IsPackage, Live
  <2> QED
    BY <2>1, FS_Subset, FS_CardinalityType
<1>3. /\ DOMAIN o = Live(q)
      /\ \A a \in Live(q) : o[a] \in Nat /\ o[a] < Cardinality(DOMAIN q.actions)
      /\ \A a, b \in Live(q) : o[a] = o[b] => a = b
  BY <1>2 DEF Orders
<1>4. \A a \in DOMAIN q.actions :
        acts[a].removed = q.actions[a].removed
        /\ acts[a].position = IF a \in Live(q) THEN o[a] ELSE q.actions[a].position
  BY <1>3 DEF IsPackage, ActionRow
<1>5. DOMAIN acts = DOMAIN q.actions
  OBVIOUS
<1> HIDE DEF acts, p
<1>6. Live(p) = Live(q)
  BY <1>1, <1>4, <1>5 DEF Live
<1>7. Live(q) \subseteq DOMAIN q.actions
  BY DEF Live
<1>8. Ordered(p)
  BY <1>1, <1>3, <1>4, <1>5, <1>6, <1>7 DEF Ordered
<1> QED
  BY <1>8 DEF p

\* A step saves one good version of the draft, or none.
SomeSave ==
  \E k, p, c : \E op \in SavingOperations, e \in 0 .. draft.version :
    /\ SaveDraft(op, k, e, p, c)
    /\ Harmless(p, draft.package, PackageAt(e))
    /\ Ordered(p)

LEMMA EditSaves ==
  ASSUME IInv, Ordered(draft.package), Edit
  PROVE  SomeSave
<1>1. /\ IsPackage(draft.package) /\ draft.version \in Nat
      /\ draft.version \in 0 .. draft.version
      /\ draft.package = PackageAt(draft.version)
  BY DEF IInv, TypeOK, DraftTypeOK, PackageInv
<1>2. PICK e \in 0 .. draft.version :
        \/ \E k \in KeysToTry("intention"), t \in Texts : EditIntention(k, e, t)
        \/ \E k \in KeysToTry("action"), a \in ActionIds, b \in Texts :
             AddAction(k, e, a, b) \/ EditAction(k, e, a, b)
        \/ \E k \in KeysToTry("remove"), a \in ActionIds : RemoveAction(k, e, a)
        \/ \E k \in KeysToTry("reorder"), o \in Orders(draft.package) :
             ReorderActions(k, e, o)
        \/ \E k \in KeysToTry("comment") : Comment(k, e)
  BY DEF Edit
<1>3. ASSUME NEW op \in EditOperations, NEW k, NEW f \in 0 .. draft.version, NEW p,
             SaveEdit(op, k, f, p), Harmless(p, draft.package, PackageAt(f)), Ordered(p)
      PROVE  SomeSave
  <2>1. op \in SavingOperations /\ SaveDraft(op, k, f, p, NoCompletion)
    BY <1>3 DEF SaveEdit, EditOperations, Operations, SavingOperations
  <2> QED
    BY <1>3, <2>1 DEF SomeSave
<1>4. /\ "intention" \in EditOperations /\ "action" \in EditOperations
      /\ "remove" \in EditOperations /\ "reorder" \in EditOperations
      /\ "comment" \in EditOperations
  BY DEF EditOperations
<1>5. ASSUME NEW k, NEW t \in Texts, EditIntention(k, e, t) PROVE SomeSave
  <2>1. /\ SaveEdit("intention", k, e, WithIntention(draft.package, t))
        /\ PackageAt(e).intention = draft.package.intention
    BY <1>1, <1>5 DEF EditIntention, IntentionBaseline, CurrentBaseline
  <2>2. WithIntention(draft.package, t).actions = draft.package.actions
    BY <1>1 DEF WithIntention, IsPackage
  <2>3. Ordered(WithIntention(draft.package, t))
    BY <2>2 DEF Ordered, Live
  <2> QED
    BY <1>1, <1>3, <1>4, <2>1, <2>3, IntentionIsHarmless
<1>6. ASSUME NEW k, NEW a \in ActionIds, NEW b \in Texts, AddAction(k, e, a, b) PROVE SomeSave
  <2>1. /\ SaveEdit("action", k, draft.version, WithNewAction(draft.package, a, b))
        /\ a \notin DOMAIN draft.package.actions
    BY <1>6 DEF AddAction
  <2>2. Harmless(WithNewAction(draft.package, a, b), draft.package, PackageAt(draft.version))
    BY <1>1, CurrentIsHarmless
  <2>3. Ordered(WithNewAction(draft.package, a, b))
    BY <1>1, <2>1, NewActionIsOrdered
  <2> QED
    BY <1>1, <1>3, <1>4, <2>1, <2>2, <2>3
<1>7. ASSUME NEW k, NEW a \in ActionIds, NEW b \in Texts, EditAction(k, e, a, b) PROVE SomeSave
  <2> DEFINE row == [draft.package.actions[a] EXCEPT !.body = b]
  <2>1. /\ SaveEdit("action", k, e, WithBody(draft.package, a, b))
        /\ a \in DOMAIN draft.package.actions
        /\ SameActionScope(PackageAt(e), draft.package, a)
    BY <1>1, <1>7 DEF EditAction, ActionBaseline, CurrentBaseline, Live, SameActionScope
  <2>2. WithBody(draft.package, a, b) = WithRow(draft.package, a, row)
    BY DEF WithBody
  <2>3. /\ row.position = draft.package.actions[a].position
        /\ row.removed = draft.package.actions[a].removed
    BY <1>1, <2>1 DEF IsPackage, ActionRow
  <2> HIDE DEF row
  <2>4. Harmless(WithBody(draft.package, a, b), draft.package, PackageAt(e))
    BY <1>1, <2>1, <2>2, RowIsHarmless
  <2>5. Ordered(WithBody(draft.package, a, b))
    BY <1>1, <2>1, <2>2, <2>3, SameRowIsOrdered
  <2> QED
    BY <1>3, <1>4, <2>1, <2>4, <2>5
<1>8. ASSUME NEW k, NEW a \in ActionIds, RemoveAction(k, e, a) PROVE SomeSave
  <2> DEFINE row == [draft.package.actions[a] EXCEPT !.removed = TRUE]
  <2>1. /\ SaveEdit("remove", k, e, WithoutAction(draft.package, a))
        /\ a \in DOMAIN draft.package.actions /\ e = draft.version
    BY <1>8 DEF RemoveAction, CurrentBaseline
  <2>2. WithoutAction(draft.package, a) = WithRow(draft.package, a, row)
    BY DEF WithoutAction
  <2>3. row.position = draft.package.actions[a].position /\ row.removed
    BY <1>1, <2>1 DEF IsPackage, ActionRow
  <2> HIDE DEF row
  <2>4. Harmless(WithoutAction(draft.package, a), draft.package, PackageAt(e))
    BY <1>1, <2>1, CurrentIsHarmless
  <2>5. Ordered(WithoutAction(draft.package, a))
    BY <1>1, <2>1, <2>2, <2>3, SameRowIsOrdered
  <2> QED
    BY <1>3, <1>4, <2>1, <2>4, <2>5
<1>9. ASSUME NEW k, NEW o \in Orders(draft.package), ReorderActions(k, e, o) PROVE SomeSave
  <2>1. SaveEdit("reorder", k, e, WithOrder(draft.package, o)) /\ e = draft.version
    BY <1>9 DEF ReorderActions, CurrentBaseline
  <2>2. Harmless(WithOrder(draft.package, o), draft.package, PackageAt(e))
    BY <1>1, <2>1, CurrentIsHarmless
  <2>3. Ordered(WithOrder(draft.package, o))
    BY <1>1, OrderIsOrdered
  <2> QED
    BY <1>3, <1>4, <2>1, <2>2, <2>3
<1>10. ASSUME NEW k, Comment(k, e) PROVE SomeSave
  <2>1. SaveEdit("comment", k, draft.version, draft.package)
    BY <1>10 DEF Comment
  <2>2. Harmless(draft.package, draft.package, PackageAt(draft.version))
    BY <1>1, Unharmed
  <2> QED
    BY <1>1, <1>3, <1>4, <2>1, <2>2
<1> QED
  BY <1>2, <1>5, <1>6, <1>7, <1>8, <1>9, <1>10

LEMMA StepSaves ==
  ASSUME IInv, Ordered(draft.package), [Next]_vars
  PROVE  SomeSave \/ UNCHANGED <<draft, revisions>>
<1>1. CASE Edit
  BY <1>1, EditSaves
<1>2. CASE Confirm
  <2>1. PICK u \in Users, e \in 0 .. draft.version,
             c \in [effective : 0 .. submission.effective,
                    consequence : Consequences, late : BOOLEAN] :
          \/ \E k \in KeysToTry("submit") : Submit(u, k, e, c)
          \/ \E k \in KeysToTry("amend") :
               AmendImmediately(u, k, e, c) \/ ProposeAmendment(u, k, e, c)
    BY <1>2 DEF Confirm
  <2>2. PICK k : Submit(u, k, e, c) \/ AmendImmediately(u, k, e, c) \/ ProposeAmendment(u, k, e, c)
    BY <2>1
  <2>3. PICK op \in SubmitOperations : SubmitPackage(op, u, k, e, c)
    BY <2>2 DEF Submit, AmendImmediately, ProposeAmendment, SubmitOperations
  <2>4. /\ SaveDraft(op, k, e, draft.package, [confirmed |-> c, content |-> NextContentVersion])
        /\ op \in SavingOperations
    BY <2>3 DEF SubmitPackage, SubmitOperations, SavingOperations, Operations
  <2>5. Harmless(draft.package, draft.package, PackageAt(e))
    BY Unharmed DEF IInv, TypeOK, DraftTypeOK
  <2> QED
    BY <2>4, <2>5 DEF SomeSave
<1>3. CASE Review
  BY <1>3 DEF Review, Decide
<1>4. CASE \E op \in Operations : \E k \in UsedKeys(op) : Replay(op, k)
  BY <1>4 DEF Replay, vars
<1>5. CASE Tick
  BY <1>5 DEF Tick
<1>6. CASE UNCHANGED vars
  BY <1>6 DEF vars
<1> QED
  BY <1>1, <1>2, <1>3, <1>4, <1>5, <1>6 DEF Next

UInv ==
  /\ Ordered(draft.package)
  /\ \A n \in DOMAIN revisions :
       Harmless(revisions[n].package, PackageAt(n - 1), PackageAt(revisions[n].base))

LEMMA StepKeepsDrafts == ASSUME IInv, UInv, [Next]_vars PROVE UInv'
<1>1. CASE SomeSave
  <2>1. PICK k, p, c : \E op \in SavingOperations, e \in 0 .. draft.version :
          /\ SaveDraft(op, k, e, p, c)
          /\ Harmless(p, draft.package, PackageAt(e))
          /\ Ordered(p)
    BY <1>1 DEF SomeSave
  <2>2. PICK op \in SavingOperations, e \in 0 .. draft.version :
          /\ SaveDraft(op, k, e, p, c)
          /\ Harmless(p, draft.package, PackageAt(e))
          /\ Ordered(p)
    BY <2>1
  <2>3. TypeOK /\ op \in Operations \ {"decide"}
    BY DEF IInv, SavingOperations
  <2>4. /\ draft.version \in Nat /\ DOMAIN revisions = 1 .. draft.version
        /\ draft' = [version |-> draft.version + 1, package |-> p]
        /\ DOMAIN revisions' = 1 .. (draft.version + 1)
        /\ revisions'[draft.version + 1] = [package |-> p, op |-> op, base |-> e]
        /\ \A m \in DOMAIN revisions : revisions'[m] = revisions[m]
    BY <2>2, <2>3, Saved
  <2>5. \A n \in 0 .. draft.version : PackageAt(n)' = PackageAt(n)
    BY <2>4 DEF PackageAt
  <2>6. draft.package = PackageAt(draft.version)
    BY DEF IInv, PackageInv
  <2>7. Ordered(draft.package)'
    BY <2>2, <2>4 DEF Ordered, Live
  <2>8. ASSUME NEW n \in DOMAIN revisions'
        PROVE  Harmless(revisions[n].package, PackageAt(n - 1), PackageAt(revisions[n].base))'
    <3>1. CASE n = draft.version + 1
      <4>1. /\ revisions'[n].package = p /\ revisions'[n].base = e
            /\ n - 1 = draft.version /\ draft.version \in 0 .. draft.version
        BY <2>4, <3>1
      <4>2. PackageAt(n - 1)' = draft.package /\ PackageAt(e)' = PackageAt(e)
        BY <2>5, <2>6, <4>1
      <4>3. PackageAt(revisions[n].base)' = PackageAt(e)
        BY <4>1, <4>2 DEF PackageAt
      <4>4. Harmless(revisions'[n].package, draft.package, PackageAt(e))
        BY <2>2, <4>1
      <4> QED
        BY <4>2, <4>3, <4>4 DEF Harmless, SameActionScope
    <3>2. CASE n \in DOMAIN revisions
      <4>1. revisions[n].base \in 0 .. draft.version /\ n - 1 \in 0 .. draft.version
        BY <2>3, <2>4, <3>2 DEF TypeOK, DraftTypeOK
      <4>2. revisions'[n] = revisions[n] /\ PackageAt(n - 1)' = PackageAt(n - 1)
        BY <2>4, <2>5, <3>2, <4>1
      <4>3. PackageAt(revisions[n].base)' = PackageAt(revisions[n].base)
        BY <2>5, <4>1, <4>2 DEF PackageAt
      <4>4. Harmless(revisions[n].package, PackageAt(n - 1), PackageAt(revisions[n].base))
        BY <3>2 DEF UInv
      <4> QED
        BY <4>2, <4>3, <4>4 DEF Harmless, SameActionScope
    <3> QED
      BY <2>4, <3>1, <3>2
  <2> QED
    BY <2>7, <2>8 DEF UInv
<1>2. CASE UNCHANGED <<draft, revisions>>
  BY <1>2 DEF UInv, Ordered, Live, Harmless, SameActionScope, PackageAt
<1> QED
  BY <1>1, <1>2, StepSaves DEF UInv

LEMMA DraftsInductive == Spec => []UInv
<1>1. Init => UInv
  BY DEF Init, UInv, Ordered, Live, EmptyPackage
<1>2. IInv /\ UInv /\ [Next]_vars => UInv'
  BY StepKeepsDrafts
<1> QED
  BY <1>1, <1>2, Inductive, PTL DEF Spec

\* Nobody's text is replaced unseen: what a saved edit replaced is what its author had
\* loaded, however many saves of others came between.
THEOREM NoneUnseen == Spec => []NoUnseenOverwrite
<1>1. UInv => NoUnseenOverwrite
  BY DEF UInv, Harmless, NoUnseenOverwrite
<1> QED
  BY <1>1, DraftsInductive, PTL

\* No two live actions share a position, however actions are added, removed and ordered:
\* a removed row keeps its number out of the way of the next one.
THEOREM OrderAuthored == Spec => []LiveOrderIsAuthored
<1>1. UInv => LiveOrderIsAuthored
  BY DEF UInv, Ordered, LiveOrderIsAuthored
<1> QED
  BY <1>1, DraftsInductive, PTL
=============================================================================
