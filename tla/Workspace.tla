------------------------------ MODULE Workspace -----------------------------
(***************************************************************************)
(* The player workspace of one team and turn: the shared draft, its        *)
(* submission, amendments, decisions and the effective-version history.    *)
(*                                                                         *)
(* workspace_service.execute takes the game row lock before it reads what  *)
(* it decides on, and everything it does is one transaction, so every      *)
(* command is one action here.  A command is built by a client from an     *)
(* older page: its expected draft version is any version there has been,   *)
(* and its request key is fresh or one an earlier command used (a          *)
(* duplicate, a retry, a delayed copy).  A refused command rolls back,     *)
(* claim of its key included, and is no step.  The actor of a command is   *)
(* any user the post-lock authorization accepts.                           *)
(*                                                                         *)
(* A definition marked "Fault" is not part of the specification: it is the *)
(* definition below it with a plausible bug, to see that a property fails. *)
(***************************************************************************)
EXTENDS Packages

CONSTANTS
  Users,       \* accounts that authorization accepts
  Deadline,    \* submission deadline of the turn, fixed once the turn started
  MaxVersion,  \* bound: draft versions
  MaxTime      \* bound: the clock

ASSUME NumberAssumption ==
  Deadline \in Nat /\ MaxVersion \in Nat /\ MaxTime \in Nat

VARIABLES
  now,         \* server time, read after all locks are held
  draft,       \* Draft and its DraftAction rows: version and package
  revisions,   \* PackageRevision rows by version
  submission,  \* Submission row
  contents,    \* SubmissionVersion rows (with SubmittedAction) by version
  amendments,  \* Amendment rows by proposed content version
  decisions,   \* AmendmentDecision rows by the amendment's version
  events,      \* EffectiveVersionEvent rows by content version
  requests     \* RequestKey rows by operation and key

vars == <<now, draft, revisions, submission, contents, amendments, decisions,
          events, requests>>

lifecycleVars == <<submission, contents, amendments, decisions, events>>

EditOperations == {"intention", "action", "remove", "reorder", "comment"}
SubmitOperations == {"submit", "amend"}
Operations == EditOperations \cup SubmitOperations \cup {"decide"}

Consequences == {"immediate", "approval_required"}
Verdicts == {"accepted", "rejected"}

\* What a submitter confirms, and what the completion of the request keeps.
\* Effective version 0 is "no submission yet".
Confirmations == [effective : Nat, consequence : Consequences, late : BOOLEAN]

NoCompletion ==
  [confirmed |-> [effective |-> 0, consequence |-> "immediate", late |-> FALSE],
   content |-> 0]

-----------------------------------------------------------------------------
DraftTypeOK ==
  /\ now \in Nat
  /\ draft = [version |-> draft.version, package |-> draft.package]
  /\ draft.version \in Nat /\ IsPackage(draft.package)
  /\ DOMAIN revisions = 1 .. draft.version
  /\ \A n \in DOMAIN revisions :
       /\ revisions[n] = [package |-> revisions[n].package, op |-> revisions[n].op,
                          base |-> revisions[n].base]
       /\ IsPackage(revisions[n].package)
       /\ revisions[n].op \in Operations \ {"decide"}
       /\ revisions[n].base \in 0 .. (n - 1)

LifecycleTypeOK ==
  /\ submission \in [status : {"none", "submitted", "amendment_pending"},
                     version : Nat, effective : Nat, deadline : Nat]
  /\ DOMAIN contents \subseteq Nat \ {0} /\ IsFiniteSet(DOMAIN contents)
  /\ \A v \in DOMAIN contents :
       /\ contents[v] = [snapshot |-> contents[v].snapshot, by |-> contents[v].by,
                         at |-> contents[v].at, reviewed |-> contents[v].reviewed]
       /\ IsPackage(contents[v].snapshot)
       /\ contents[v].by \in Users /\ contents[v].at \in Nat
       /\ contents[v].reviewed \in Nat
  /\ DOMAIN amendments \subseteq DOMAIN contents
  /\ \A v \in DOMAIN amendments :
       amendments[v] \in [base : Nat, status : Verdicts \cup {"pending"}]
  /\ DOMAIN decisions \subseteq DOMAIN amendments
  /\ \A v \in DOMAIN decisions :
       decisions[v] \in [decision : Verdicts, by : Users, at : Nat]
  /\ DOMAIN events \subseteq DOMAIN contents
  /\ \A v \in DOMAIN events :
       events[v] \in [mechanism : {"initial", "adjudicator_acceptance",
                                   "immediate_revision"},
                      by : Users, at : Nat, decision : Nat]

Results ==
  [kind : {"package_revision", "amendment_decision"}, id : Nat,
   completion : [confirmed : Confirmations, content : Nat]]

RequestTypeOK ==
  /\ DOMAIN requests = Operations
  /\ \A op \in Operations : \A k \in DOMAIN requests[op] : requests[op][k] \in Results

TypeOK == DraftTypeOK /\ LifecycleTypeOK /\ RequestTypeOK

Init ==
  /\ now = 0
  /\ draft = [version |-> 0, package |-> EmptyPackage]
  /\ revisions = [n \in {} |-> 0]
  /\ submission = [status |-> "none", version |-> 0, effective |-> 0, deadline |-> 0]
  /\ contents = [n \in {} |-> 0]
  /\ amendments = [n \in {} |-> 0]
  /\ decisions = [n \in {} |-> 0]
  /\ events = [n \in {} |-> 0]
  /\ requests = [op \in Operations |-> [k \in {} |-> 0]]

-----------------------------------------------------------------------------
(***************************************************************************)
(* Request keys.  A key that nobody used yet is named by the next number;  *)
(* keys are only compared, so which fresh name a client drew is no matter. *)
(***************************************************************************)
UsedKeys(op) == DOMAIN requests[op]

FreshKey(op) == Cardinality(UsedKeys(op)) + 1

KeysToTry(op) == UsedKeys(op) \cup {FreshKey(op)}

\* Fault: the unique constraint is missing.
KeyReclaimable(op, k) == TRUE

\* claim_request_key under UNIQUE (game_id, branch_id, operation, key): a key
\* that is taken ends in a replay or an IdempotencyConflict, never in a write.
KeyClaimable(op, k) == k \notin UsedKeys(op)

ClaimRequestKey(op, k, kind, id, completion) ==
  /\ KeyClaimable(op, k)
  /\ requests' = [requests EXCEPT ![op] =
                    Extend(@, k, [kind |-> kind, id |-> id, completion |-> completion])]

-----------------------------------------------------------------------------
(***************************************************************************)
(* The draft.                                                              *)
(***************************************************************************)
PackageAt(e) == IF e = 0 THEN EmptyPackage ELSE revisions[e].package

KnownVersion(e) == e \in 0 .. draft.version

\* Fault: any version the client has seen will do.
KnownBaseline(e) == KnownVersion(e)

\* _check_command_baseline.
CurrentBaseline(e) == e = draft.version

IntentionBaseline(e) ==
  \/ CurrentBaseline(e)
  \/ KnownVersion(e) /\ PackageAt(e).intention = draft.package.intention

\* Fault: the action must have been on the page, whatever its text was.
ActionWasThere(e, a) == KnownVersion(e) /\ a \in DOMAIN PackageAt(e).actions

ActionBaseline(e, a) ==
  \/ CurrentBaseline(e)
  \/ KnownVersion(e) /\ SameActionScope(PackageAt(e), draft.package, a)

\* Every command but a decision ends by saving a new draft version.
SaveDraft(op, k, e, p, completion) ==
  /\ draft.version < MaxVersion
  /\ ClaimRequestKey(op, k, "package_revision", draft.version + 1, completion)
  /\ draft' = [version |-> draft.version + 1, package |-> p]
  /\ revisions' = Extend(revisions, draft.version + 1,
                         [package |-> p, op |-> op, base |-> e])
  /\ UNCHANGED now

SaveEdit(op, k, e, p) ==
  /\ SaveDraft(op, k, e, p, NoCompletion)
  /\ UNCHANGED lifecycleVars

EditIntention(k, e, t) ==
  /\ IntentionBaseline(e)
  /\ SaveEdit("intention", k, e, WithIntention(draft.package, t))

\* A new action overwrites nothing, so any version the client knows will do.
AddAction(k, e, a, b) ==
  /\ KnownVersion(e)
  /\ a \notin DOMAIN draft.package.actions
  /\ SaveEdit("action", k, draft.version, WithNewAction(draft.package, a, b))

EditAction(k, e, a, b) ==
  /\ ActionBaseline(e, a)
  /\ a \in Live(draft.package)
  /\ SaveEdit("action", k, e, WithBody(draft.package, a, b))

RemoveAction(k, e, a) ==
  /\ CurrentBaseline(e)
  /\ a \in DOMAIN draft.package.actions
  /\ SaveEdit("remove", k, e, WithoutAction(draft.package, a))

ReorderActions(k, e, o) ==
  /\ CurrentBaseline(e)
  /\ SaveEdit("reorder", k, e, WithOrder(draft.package, o))

\* A DraftComment row is text beside the package; the version moves with it.
Comment(k, e) ==
  /\ KnownVersion(e)
  /\ SaveEdit("comment", k, draft.version, draft.package)

-----------------------------------------------------------------------------
(***************************************************************************)
(* Submission, revision and decision.                                      *)
(***************************************************************************)
Submitted == submission.status # "none"

TurnDeadline == IF Submitted THEN submission.deadline ELSE Deadline

\* Fault: the deadline itself still counts as early.
LateAfterDeadline == now > TurnDeadline

Late == now >= TurnDeadline

ConsequenceNow == IF Submitted /\ Late THEN "approval_required" ELSE "immediate"

\* confirmation_for, from state read after the locks.
ConfirmationNow ==
  [effective |-> submission.effective, consequence |-> ConsequenceNow, late |-> Late]

\* Fault: only the base is compared.
BaseAccepted(confirmed) == confirmed.effective = ConfirmationNow.effective

\* ConfirmationRequired otherwise: the command must carry today's consequence.
ConfirmationAccepted(confirmed) == confirmed = ConfirmationNow

\* Fault: rejected versions are numbered again.
NextAfterEffective == submission.effective + 1

\* Greatest existing version + 1, whether or not that one took effect.
NextContentVersion == IF Submitted THEN Highest(DOMAIN contents) + 1 ELSE 1

\* Fault: a pending amendment does not stop the next one.
SubmittableMeanwhile(op) ==
  IF op = "submit" THEN submission.status = "none" ELSE submission.status # "none"

\* Mid-decision there is nothing to submit over.
SubmittableStatus(op) ==
  submission.status = IF op = "submit" THEN "none" ELSE "submitted"

AddContent(u, e) ==
  contents' = Extend(contents, NextContentVersion,
                [snapshot |-> SubmissionSnapshot(draft.package), by |-> u,
                 at |-> now, reviewed |-> e])

\* Fault: the decision is not noted as the source of the event.
RecordBareEvent(v, mechanism, u, decision) ==
  events' = Extend(events, v, [mechanism |-> mechanism, by |-> u, at |-> now,
                               decision |-> 0])

RecordEvent(v, mechanism, u, decision) ==
  events' = Extend(events, v, [mechanism |-> mechanism, by |-> u, at |-> now,
                               decision |-> decision])

\* The checks and writes submit and amend share.
SubmitPackage(op, u, k, e, confirmed) ==
  /\ SubmittableStatus(op)
  /\ CurrentBaseline(e)
  /\ Complete(draft.package)
  /\ ConfirmationAccepted(confirmed)
  /\ SaveDraft(op, k, e, draft.package,
               [confirmed |-> confirmed, content |-> NextContentVersion])
  /\ AddContent(u, e)

\* A first submission is effective at once, even when it is late.
Submit(u, k, e, confirmed) ==
  /\ SubmitPackage("submit", u, k, e, confirmed)
  /\ submission' = [status |-> "submitted", version |-> 1, effective |-> 1,
                    deadline |-> Deadline]
  /\ RecordEvent(1, "initial", u, 0)
  /\ UNCHANGED <<amendments, decisions>>

AmendImmediately(u, k, e, confirmed) ==
  /\ ConsequenceNow = "immediate"
  /\ SubmitPackage("amend", u, k, e, confirmed)
  /\ submission' = [submission EXCEPT !.effective = NextContentVersion,
                                      !.version = @ + 1]
  /\ RecordEvent(NextContentVersion, "immediate_revision", u, 0)
  /\ UNCHANGED <<amendments, decisions>>

ProposeAmendment(u, k, e, confirmed) ==
  /\ ConsequenceNow = "approval_required"
  /\ SubmitPackage("amend", u, k, e, confirmed)
  /\ submission' = [submission EXCEPT !.status = "amendment_pending",
                                      !.version = @ + 1]
  /\ amendments' = Extend(amendments, NextContentVersion,
                          [base |-> submission.effective, status |-> "pending"])
  /\ UNCHANGED <<decisions, events>>

\* The decision names the submission version its author reviewed.
DecisionCurrent(s, v) ==
  /\ s = submission.version
  /\ amendments[v].status = "pending"
  /\ amendments[v].base = submission.effective

\* Fault: acceptance leaves the effective version alone.
EffectiveUnmoved(v, verdict) == submission.effective

EffectiveAfter(v, verdict) ==
  IF verdict = "accepted" THEN v ELSE submission.effective

Decide(u, k, s, v, verdict) ==
  /\ v \in DOMAIN amendments
  /\ DecisionCurrent(s, v)
  /\ ClaimRequestKey("decide", k, "amendment_decision", v, NoCompletion)
  /\ amendments' = [amendments EXCEPT ![v].status = verdict]
  /\ decisions' = Extend(decisions, v, [decision |-> verdict, by |-> u, at |-> now])
  /\ submission' = [submission EXCEPT
                      !.status = "submitted",
                      !.version = @ + 1,
                      !.effective = EffectiveAfter(v, verdict)]
  /\ IF verdict = "accepted"
       THEN RecordEvent(v, "adjudicator_acceptance", u, v)
       ELSE UNCHANGED events
  /\ UNCHANGED <<now, draft, revisions, contents>>

-----------------------------------------------------------------------------
\* A command whose key is taken returns the stored result and writes nothing.
Replay(op, k) == k \in UsedKeys(op) /\ UNCHANGED vars

Tick ==
  /\ now < MaxTime
  /\ now' = now + 1
  /\ UNCHANGED <<draft, revisions, lifecycleVars, requests>>

Edit ==
  \E e \in 0 .. draft.version :
    \/ \E k \in KeysToTry("intention"), t \in Texts : EditIntention(k, e, t)
    \/ \E k \in KeysToTry("action"), a \in ActionIds, b \in Texts :
         AddAction(k, e, a, b) \/ EditAction(k, e, a, b)
    \/ \E k \in KeysToTry("remove"), a \in ActionIds : RemoveAction(k, e, a)
    \/ \E k \in KeysToTry("reorder"), o \in Orders(draft.package) :
         ReorderActions(k, e, o)
    \/ \E k \in KeysToTry("comment") : Comment(k, e)

Confirm ==
  \E u \in Users, e \in 0 .. draft.version,
     confirmed \in [effective : 0 .. submission.effective,
                    consequence : Consequences, late : BOOLEAN] :
    \/ \E k \in KeysToTry("submit") : Submit(u, k, e, confirmed)
    \/ \E k \in KeysToTry("amend") :
         \/ AmendImmediately(u, k, e, confirmed)
         \/ ProposeAmendment(u, k, e, confirmed)

Review ==
  \E u \in Users, k \in KeysToTry("decide"), s \in 0 .. submission.version,
     v \in DOMAIN amendments, verdict \in Verdicts :
    Decide(u, k, s, v, verdict)

Next ==
  \/ Edit
  \/ Confirm
  \/ Review
  \/ \E op \in Operations : \E k \in UsedKeys(op) : Replay(op, k)
  \/ Tick

Spec == Init /\ [][Next]_vars

-----------------------------------------------------------------------------
(***************************************************************************)
(* What restore demands of this history: backup._verify_effective_history  *)
(* derives the events from contents and decisions and compares.            *)
(***************************************************************************)
ExpectedEvents ==
  {<<v, "initial", contents[v].by, contents[v].at, 0>> :
      v \in {w \in DOMAIN contents : w = 1}}
  \cup
  {<<v, "adjudicator_acceptance", decisions[v].by, decisions[v].at, v>> :
      v \in {w \in DOMAIN amendments \cap DOMAIN decisions :
              amendments[w].status = "accepted" /\ decisions[w].decision = "accepted"}}
  \cup
  {<<v, "immediate_revision", contents[v].by, contents[v].at, 0>> :
      v \in {w \in DOMAIN contents : w > 1 /\ w \notin DOMAIN amendments}}

RecordedEvents ==
  {<<v, events[v].mechanism, events[v].by, events[v].at, events[v].decision>> :
      v \in DOMAIN events}

\* Every history the workspace can write is one that restore accepts: a healthy
\* database never yields a backup that verification refuses.
RestoreAccepts ==
  /\ RecordedEvents = ExpectedEvents
  /\ DOMAIN contents = 1 .. Cardinality(DOMAIN contents)
  /\ \A v \in DOMAIN events :
       events[v].mechanism = "immediate_revision" => events[v].at < submission.deadline
  /\ Submitted => /\ DOMAIN events # {}
                  /\ submission.effective = Highest(DOMAIN events)
  /\ \A v \in DOMAIN amendments :
       IF amendments[v].status = "pending"
         THEN v \notin DOMAIN decisions
         ELSE v \in DOMAIN decisions /\ decisions[v].decision = amendments[v].status

Pending == {v \in DOMAIN amendments : amendments[v].status = "pending"}

\* No submission gets stuck.  An amendment awaits a decision exactly while the
\* submission says so, there is one at most, it proposes the newest content, and
\* its base is still what is effective: execute refuses every decision on a moved
\* base and every new revision while one is pending, so nothing else could end it.
PendingIsDecidable ==
  /\ submission.status = "amendment_pending" <=> Pending # {}
  /\ \A v \in Pending : /\ v = Highest(DOMAIN contents)
                        /\ amendments[v].base = submission.effective

\* An adjudicator compares a proposal with its base.  If it is accepted, it
\* replaces that base and nothing that took effect in between.
AcceptedOverReviewedBase ==
  \A v \in DOMAIN events :
    events[v].mechanism = "adjudicator_acceptance" =>
      amendments[v].base = Highest({w \in DOMAIN events : w < v})

\* The package a submitter reviewed at the named draft version is, live action for
\* live action, the content that was stored.
ReviewedIsSubmitted ==
  \A v \in DOMAIN contents :
    /\ contents[v].reviewed \in DOMAIN revisions
    /\ contents[v].snapshot = SubmissionSnapshot(revisions[contents[v].reviewed].package)

\* The consequence, base and lateness a submitter confirmed are what happened, and
\* stay what a replay of the request reports.
ConfirmedIsApplied ==
  \A op \in SubmitOperations : \A k \in UsedKeys(op) :
    LET c == requests[op][k].completion
        before == {w \in DOMAIN events : w < c.content}
    IN /\ c.content \in DOMAIN contents
       /\ c.confirmed.effective = IF before = {} THEN 0 ELSE Highest(before)
       /\ c.confirmed.consequence = "approval_required" <=> c.content \in DOMAIN amendments
       /\ c.confirmed.late <=> contents[c.content].at >= submission.deadline

\* Nobody's text is replaced unseen: what a saved edit replaced is what its author
\* had loaded, however many saves of others came between.
NoUnseenOverwrite ==
  \A n \in DOMAIN revisions :
    LET was == PackageAt(n - 1)
        seen == PackageAt(revisions[n].base)
        is == revisions[n].package
    IN /\ is.intention # was.intention => seen.intention = was.intention
       /\ \A a \in DOMAIN was.actions :
            ~SameActionScope(is, was, a) => SameActionScope(seen, was, a)

\* Each saved version and each decision was made by exactly one request key, and
\* each completed key made exactly one: retries and duplicates do nothing more.
KeysMadeOneChange ==
  /\ \A n \in 1 .. draft.version :
       \E k \in UsedKeys(revisions[n].op) :
         \A op \in Operations \ {"decide"} : \A j \in UsedKeys(op) :
           requests[op][j].id = n <=> op = revisions[n].op /\ j = k
  /\ \A v \in DOMAIN decisions :
       \E k \in UsedKeys("decide") :
         \A j \in UsedKeys("decide") : requests["decide"][j].id = v <=> j = k
  /\ \A op \in Operations : \A k \in UsedKeys(op) :
       requests[op][k].id \in IF op = "decide" THEN DOMAIN decisions ELSE DOMAIN revisions

\* The workspace keeps the promise of SubmissionLedger.
Ledger == INSTANCE SubmissionLedger WITH
  content <- Cardinality(DOMAIN contents),
  effective <- submission.effective,
  pending <- IF Pending = {} THEN 0 ELSE Highest(Pending),
  closed <- now >= Deadline

\* Every history of drafts, submissions, revisions and decisions is one the ledger
\* allows: a step of the code is a step of the ledger or leaves it alone.
KeepsLedger == Ledger!Spec

\* The order of a package is the one its authors made: no two live actions share
\* a position, so the tie-break by row identity never shows.
LiveOrderIsAuthored ==
  \A a, b \in Live(draft.package) :
    draft.package.actions[a].position = draft.package.actions[b].position => a = b

-----------------------------------------------------------------------------
\* f is kept: rows are added, none is changed or lost.
Keeps(f, g) == DOMAIN f \subseteq DOMAIN g /\ \A n \in DOMAIN f : g[n] = f[n]

\* History is append-only: saved versions, submitted content, effective events,
\* decisions and completed requests never change, and a decided amendment keeps
\* its verdict.
HistoryIsKept ==
  [][/\ Keeps(revisions, revisions')
     /\ Keeps(contents, contents')
     /\ Keeps(events, events')
     /\ Keeps(decisions, decisions')
     /\ \A op \in Operations : Keeps(requests[op], requests'[op])
     /\ \A v \in DOMAIN amendments :
          /\ v \in DOMAIN amendments'
          /\ amendments'[v].base = amendments[v].base
          /\ amendments[v].status # "pending" => amendments'[v] = amendments[v]]_vars

\* The effective version only moves forward, and after the deadline only a
\* decision moves it, other than a late first submission.
EffectiveMovesByRule ==
  [][submission'.effective # submission.effective =>
       /\ submission'.effective > submission.effective
       /\ Submitted /\ now >= submission.deadline =>
            /\ submission'.effective \in DOMAIN amendments
            /\ submission'.effective \in DOMAIN decisions' \ DOMAIN decisions]_vars
=============================================================================
