-------------------------- MODULE SubmissionLedger --------------------------
(***************************************************************************)
(* What the workspace promises about one submission (policy B-18), apart   *)
(* from drafts, request keys, tables and who acted: numbered contents, of  *)
(* which one is effective.  A content takes effect as it is submitted when *)
(* it is the first or the deadline has not passed; otherwise it waits, and *)
(* nothing else is submitted until it is accepted or rejected.             *)
(***************************************************************************)
EXTENDS Integers

VARIABLES
  content,    \* contents submitted so far, numbered from 1
  effective,  \* the effective one, 0 before the first
  pending,    \* the one awaiting a decision, or 0
  closed      \* the deadline has passed

vars == <<content, effective, pending, closed>>

Init == content = 0 /\ effective = 0 /\ pending = 0 /\ closed \in BOOLEAN

Take ==
  /\ pending = 0
  /\ content = 0 \/ ~closed
  /\ content' = content + 1
  /\ effective' = content + 1
  /\ UNCHANGED <<pending, closed>>

Propose ==
  /\ pending = 0 /\ content > 0 /\ closed
  /\ content' = content + 1
  /\ pending' = content + 1
  /\ UNCHANGED <<effective, closed>>

Settle ==
  /\ pending # 0
  /\ effective' \in {pending, effective}
  /\ pending' = 0
  /\ UNCHANGED <<content, closed>>

PassDeadline ==
  /\ ~closed
  /\ closed' = TRUE
  /\ UNCHANGED <<content, effective, pending>>

Next == Take \/ Propose \/ Settle \/ PassDeadline

Spec == Init /\ [][Next]_vars
=============================================================================
