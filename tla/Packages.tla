------------------------------ MODULE Packages ------------------------------
(***************************************************************************)
(* The draft package of one team and turn as a value, and the pure         *)
(* functions workspace_service.py applies to it.  A package is the overall *)
(* intention and the native actions, removed ones included.                *)
(*                                                                         *)
(* Data abstraction.  A text is a member of Texts and Blank is the one the *)
(* submission validation refuses.  The body of an action stands for its    *)
(* four fields and its owner, which one edit always writes together.       *)
(***************************************************************************)
EXTENDS Integers, FiniteSets

CONSTANTS
  ActionIds,   \* identities a DraftAction row can get
  Texts,       \* authored values of an intention or of an action
  Blank        \* the incomplete one

ASSUME BlankAssumption == Blank \in Texts

\* f with value x at n, whether or not n was in its domain (an INSERT, or
\* an UPDATE of the row whose key is n).
Extend(f, n, x) == [m \in DOMAIN f \cup {n} |-> IF m = n THEN x ELSE f[m]]

\* The greatest member of a nonempty finite set of integers.
Highest(S) == CHOOSE m \in S : \A n \in S : n <= m

ActionRow == [body : Texts, removed : BOOLEAN, position : Nat]

IsPackage(p) ==
  /\ p = [intention |-> p.intention, actions |-> p.actions]
  /\ p.intention \in Texts
  /\ DOMAIN p.actions \subseteq ActionIds /\ IsFiniteSet(DOMAIN p.actions)
  /\ p.actions \in [DOMAIN p.actions -> ActionRow]

EmptyPackage == [intention |-> Blank, actions |-> [a \in {} |-> 0]]

Live(p) == {a \in DOMAIN p.actions : ~p.actions[a].removed}

\* submission_snapshot: exactly the live actions, in the saved order.
SubmissionSnapshot(p) ==
  [intention |-> p.intention, actions |-> [a \in Live(p) |-> p.actions[a]]]

\* Package.validate_submission: an intention, and every live action complete.
Complete(p) ==
  /\ p.intention # Blank
  /\ \A a \in Live(p) : p.actions[a].body # Blank

\* _action_scope: what an edit of one action must not overwrite unseen.  The
\* position of the action is not part of it.
SameActionScope(p, q, a) ==
  /\ a \in DOMAIN p.actions
  /\ a \in DOMAIN q.actions
  /\ p.actions[a].body = q.actions[a].body
  /\ p.actions[a].removed = q.actions[a].removed

WithIntention(p, t) == [p EXCEPT !.intention = t]

\* Fault: removed actions are not counted.
NextPositionOfLive(p) == Cardinality(Live(p))

\* A new action goes behind every action there is, removed ones included.
NextPosition(p) == Cardinality(DOMAIN p.actions)

WithRow(p, a, row) == [p EXCEPT !.actions = Extend(p.actions, a, row)]

WithNewAction(p, a, b) ==
  WithRow(p, a, [body |-> b, removed |-> FALSE, position |-> NextPosition(p)])

WithBody(p, a, b) == WithRow(p, a, [p.actions[a] EXCEPT !.body = b])

WithoutAction(p, a) == WithRow(p, a, [p.actions[a] EXCEPT !.removed = TRUE])

\* An order gives each live action its index in the list the author sent.
Orders(p) ==
  {o \in [Live(p) -> 0 .. (Cardinality(Live(p)) - 1)] :
     \A a, b \in Live(p) : o[a] = o[b] => a = b}

WithOrder(p, o) ==
  [p EXCEPT !.actions =
     [a \in DOMAIN p.actions |->
        [p.actions[a] EXCEPT !.position = IF a \in DOMAIN o THEN o[a] ELSE @]]]
=============================================================================
