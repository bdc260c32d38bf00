----------------------------- MODULE DraftEditor ----------------------------
(***************************************************************************)
(* One open page of the player workspace and the text it edits together    *)
(* with everybody else: the overall intention of the shared draft.  The    *)
(* actors are the user, the page's script (app.js), a network that loses   *)
(* requests and answers or delivers a request long after the page gave it  *)
(* up, the web boundary (workspace_web.apply), and every other session,    *)
(* of which the page only sees that the saved text changes.                *)
(*                                                                         *)
(* The command and the page read that answers a refused command are two    *)
(* transactions, so they are two actions.  A handler of the script runs to *)
(* its next await, so each is one action.                                  *)
(*                                                                         *)
(* A refreshed view replaces a clean editor, also one whose save is in     *)
(* flight.  The form that was sent is then no longer on the page           *)
(* ("detached") and its handler goes on with it, under the same keys of    *)
(* sessionStorage as the form that took its place.                         *)
(***************************************************************************)
EXTENDS Integers, Sequences, FiniteSets

CONSTANTS
  Texts,      \* authored values of the overall intention
  Blank,      \* the one of a new draft
  MaxSaves,   \* bound: request keys this page draws
  MaxOthers,  \* bound: saves of other sessions
  MaxFaults   \* bound: reloads, refusals, lost requests and answers together

ASSUME EditorAssumption ==
  Blank \in Texts /\ MaxSaves \in Nat /\ MaxOthers \in Nat /\ MaxFaults \in Nat

VARIABLES
  history,  \* PackageRevision rows, by version
  form,     \* the editor: authored text, clean baseline, hidden fields
  panel,    \* the open edit-conflict comparison
  copy,     \* the recovery copy of the editor in sessionStorage
  stored,   \* the command kept there because its outcome is unknown; while
            \* there is one, the workspace is "unresolved"
  fetch,    \* the save in flight, until the view is refreshed after it
  reread,   \* the "Retry refresh" offered after that refresh failed
  copies,   \* requests the page gave up that may still arrive
  keys,     \* request keys drawn so far
  faults    \* faults so far

vars == <<history, form, panel, copy, stored, fetch, reread, copies, keys, faults>>

-----------------------------------------------------------------------------
(***************************************************************************)
(* The server: the saved text by version.                                  *)
(***************************************************************************)
Version == Len(history)

TextAt(v) == IF v = 0 THEN Blank ELSE history[v].text

CurrentText == TextAt(Version)

\* read: what a page rendered now carries.
CurrentPage == [text |-> CurrentText, version |-> Version]

(***************************************************************************)
(* Types.  A version anywhere is one there has been.  "shown" and          *)
(* "resolved" are history: the saved text the page presented together with *)
(* an expected version, and whether that version came with the answer to a *)
(* refused save.  Key 0 is one not drawn yet in a form, and a key of       *)
(* another session in a revision.  A form is "pending" when its control is *)
(* "Retry save"; "left" is the text of the form that was taken away.       *)
(***************************************************************************)
Versions == 0 .. Version
Keys == 0 .. MaxSaves

Commands == [text : Texts, base : Versions, key : Keys, shown : Texts, resolved : BOOLEAN]
NoCommand == [text |-> Blank, base |-> 0, key |-> 0, shown |-> Blank, resolved |-> FALSE]

Pages == [text : Texts, version : Versions]
NoPage == [text |-> Blank, version |-> 0]

Targets == [given : BOOLEAN, text : Texts, version : Versions, resolved : BOOLEAN]
NoTarget == [given |-> FALSE, text |-> Blank, version |-> 0, resolved |-> FALSE]

Forms == [text : Texts, baseline : Texts, version : Versions, key : Keys,
          shown : Texts, resolved : BOOLEAN, target : Targets, pending : BOOLEAN]

\* What mark stores of a dirty form.  "own" is history: it was last written, or
\* erased, for the form that is on the page.
Copies == [kept : BOOLEAN, text : Texts, version : Versions, shown : Texts,
           resolved : BOOLEAN, own : BOOLEAN]
NoCopy == [kept |-> FALSE, text |-> Blank, version |-> 0, shown |-> Blank,
           resolved |-> FALSE, own |-> TRUE]

Panels == [open : BOOLEAN, mine : Texts, current : Texts, version : Versions]
NoPanel == [open |-> FALSE, mine |-> Blank, current |-> Blank, version |-> 0]

Phases == {"idle", "sent", "refused", "committed", "conflict", "key_conflict",
           "rejected", "refreshing", "refreshed"}
Fetches == [phase : Phases, cmd : Commands, retry : BOOLEAN, page : Pages,
            detached : BOOLEAN, left : Texts]
NoFetch == [phase |-> "idle", cmd |-> NoCommand, retry |-> FALSE, page |-> NoPage,
            detached |-> FALSE, left |-> Blank]

Rereads == [phase : {"none", "offered", "asked", "read"}, page : Pages]
NoReread == [phase |-> "none", page |-> NoPage]

TypeOK ==
  /\ history \in Seq(Commands)
  /\ form \in Forms
  /\ panel \in Panels
  /\ copy \in Copies
  /\ stored \in Commands
  /\ fetch \in Fetches
  /\ reread \in Rereads
  /\ copies \subseteq Commands
  /\ keys \in Keys
  /\ faults \in 0 .. MaxFaults

-----------------------------------------------------------------------------
(***************************************************************************)
(* The server: what becomes of a command.                                  *)
(***************************************************************************)
\* Fault: the claim of a key is not looked up.
Unclaimed(c) == {}

ClaimedBy(c) == {v \in 1 .. Version : history[v].key = c.key}

\* Same key, same content: the completed request, whatever happened since.
SameRequest(v, c) == history[v].text = c.text /\ history[v].base = c.base

\* Fault: a stale command is compared with nothing.
AnyBaseline(c) == c.base \in 0 .. Version

\* _check_command_baseline for the operation "intention".
Baseline(c) ==
  \/ c.base = Version
  \/ c.base \in 0 .. Version /\ TextAt(c.base) = CurrentText

\* execute: what the locked transaction makes of a command.
Outcome(c) ==
  IF ClaimedBy(c) # {}
    THEN IF \E v \in ClaimedBy(c) : SameRequest(v, c) THEN "replayed" ELSE "key_conflict"
    ELSE IF Baseline(c) THEN "saved" ELSE "conflict"

NextVersion == Version + 1

Save(c) == history' = Append(history, c)

\* Any other session saves the text it has brought up to date.
SavedElsewhere(t) ==
  /\ Cardinality({v \in 1 .. Version : history[v].key = 0}) < MaxOthers
  /\ Save([text |-> t, base |-> Version, key |-> 0, shown |-> CurrentText,
           resolved |-> FALSE])
  /\ UNCHANGED <<form, panel, copy, stored, fetch, reread, copies, keys, faults>>

Answered(phase, page) == fetch' = [fetch EXCEPT !.phase = phase, !.page = page]

\* work() of workspace_web.apply, one transaction.  A conflict rolls it back,
\* claim of the key included; exc.conflict keeps the text it met.
ServerExecutes ==
  /\ fetch.phase = "sent"
  /\ LET c == fetch.cmd IN
       \/ /\ Outcome(c) = "saved"
          /\ Save(c)
          /\ Answered("committed", [text |-> c.text, version |-> NextVersion])
       \/ /\ Outcome(c) = "replayed"
          /\ \E v \in ClaimedBy(c) :
               /\ SameRequest(v, c)
               /\ Answered("committed", [text |-> c.text, version |-> v])
          /\ UNCHANGED history
       \/ /\ Outcome(c) = "key_conflict"
          /\ Answered("key_conflict", NoPage)
          /\ UNCHANGED history
       \/ /\ Outcome(c) = "conflict"
          /\ Answered("refused", [text |-> CurrentText, version |-> 0])
          /\ UNCHANGED history
  /\ UNCHANGED <<form, panel, copy, stored, reread, copies, keys, faults>>

\* enhanced_error: the answer to a refused command is built from a later read.
ServerReads ==
  /\ fetch.phase = "refused"
  /\ Answered("conflict", [fetch.page EXCEPT !.version = Version])
  /\ UNCHANGED <<history, form, panel, copy, stored, reread, copies, keys, faults>>

\* 401, 403 or 404: the session ended or the authority is gone for now.
ServerRejects ==
  /\ fetch.phase = "sent" /\ faults < MaxFaults
  /\ Answered("rejected", NoPage)
  /\ faults' = faults + 1
  /\ UNCHANGED <<history, form, panel, copy, stored, reread, copies, keys>>

\* A request nobody waits for arrives; its answer goes nowhere.
CopyArrives(c) ==
  /\ c \in copies
  /\ copies' = copies \ {c}
  /\ IF Outcome(c) = "saved" THEN Save(c) ELSE UNCHANGED history
  /\ UNCHANGED <<form, panel, copy, stored, fetch, reread, keys, faults>>

-----------------------------------------------------------------------------
(***************************************************************************)
(* The page: editing and sending.                                          *)
(***************************************************************************)
Dirty == form.text # form.baseline

\* mark: the copy of a dirty form is stored, that of a clean one erased.
CopyOf(f) ==
  IF f.text # f.baseline
    THEN [kept |-> TRUE, text |-> f.text, version |-> f.version, shown |-> f.shown,
          resolved |-> f.resolved, own |-> TRUE]
    ELSE NoCopy

\* A form as it comes with a page.
FormOf(page) ==
  [text |-> page.text, baseline |-> page.text, version |-> page.version, key |-> 0,
   shown |-> page.text, resolved |-> FALSE, target |-> NoTarget, pending |-> FALSE]

\* initialize, restore: the recovery copy, and the retry of the stored command.
Restored(f) ==
  LET back == IF copy.kept
                THEN [f EXCEPT !.text = copy.text, !.version = copy.version,
                               !.shown = copy.shown, !.resolved = copy.resolved]
                ELSE f IN
    [back EXCEPT !.pending = stored # NoCommand]

\* The editor becomes that of a page.
Replaced(page) ==
  /\ form' = Restored(FormOf(page))
  /\ copy' = CopyOf(form')
  /\ panel' = NoPanel

Init ==
  /\ history = <<>>
  /\ form = FormOf(NoPage)
  /\ panel = NoPanel
  /\ copy = NoCopy
  /\ stored = NoCommand
  /\ fetch = NoFetch
  /\ reread = NoReread
  /\ copies = {}
  /\ keys = 0
  /\ faults = 0

Type(t) ==
  /\ t # form.text
  /\ form' = [form EXCEPT !.text = t]
  /\ copy' = CopyOf(form')
  /\ UNCHANGED <<history, panel, stored, fetch, reread, copies, keys, faults>>

Freeze(f) == [text |-> f.text, base |-> f.version, key |-> f.key, shown |-> f.shown,
              resolved |-> f.resolved]

Dispatch(c, again) ==
  fetch' = [NoFetch EXCEPT !.phase = "sent", !.cmd = c, !.retry = again]

Idle == fetch.phase = "idle"

\* submit(form): freeze the form and send it.  The key of the form is drawn
\* at its first use and stays until something renews it.
SendForm(f) ==
  LET named == IF f.key = 0 THEN [f EXCEPT !.key = keys + 1] ELSE f IN
    /\ named.key \in Keys
    /\ form' = named
    /\ keys' = IF f.key = 0 THEN keys + 1 ELSE keys
    /\ Dispatch(Freeze(named), FALSE)

\* The save control, with no unknown outcome outstanding.
Submit ==
  /\ Idle /\ stored = NoCommand /\ ~form.pending
  /\ SendForm(form)
  /\ UNCHANGED <<history, panel, copy, stored, reread, copies, faults>>

\* The same control as "Retry save": exactly the stored command, if there still
\* is one.
Retry ==
  /\ Idle /\ stored # NoCommand /\ form.pending
  /\ Dispatch(stored, TRUE)
  /\ UNCHANGED <<history, form, panel, copy, stored, reread, copies, keys, faults>>

\* discardToAuthoritative: the remembered saved value, its version and key;
\* without one the baseline, and the hidden fields stay.
Discarded ==
  IF form.target.given
    THEN [form EXCEPT !.text = form.target.text, !.baseline = form.target.text,
                      !.version = form.target.version, !.key = 0,
                      !.shown = form.target.text, !.resolved = form.target.resolved]
    ELSE [form EXCEPT !.text = form.baseline]

\* Cancel, confirmed.
Discard ==
  /\ Dirty
  /\ form' = Discarded
  /\ panel' = NoPanel
  /\ copy' = NoCopy
  /\ UNCHANGED <<history, stored, fetch, reread, copies, keys, faults>>

-----------------------------------------------------------------------------
(***************************************************************************)
(* The page: answers.                                                      *)
(***************************************************************************)
\* Fault: what the form now holds counts as saved.
AcknowledgeForm(f, c, version) ==
  [f EXCEPT !.baseline = f.text, !.version = version, !.key = 0, !.shown = c.text,
            !.resolved = FALSE, !.target = NoTarget, !.pending = FALSE]

\* acknowledgeEditor: the frozen text is the saved one; newer typing stays.
AcknowledgeEditor(f, c, version) ==
  [f EXCEPT !.baseline = c.text, !.version = version, !.key = 0, !.shown = c.text,
            !.resolved = FALSE, !.target = NoTarget, !.pending = FALSE]

\* Fault: an acknowledged editor has nothing left to recover.
ForgetNewer(f) == copy' = NoCopy

\* Newer typing stays in the recovery copy.
KeepNewer(f) == copy' = CopyOf(f)

\* The handler of a form that is no longer on the page writes the recovery copy
\* of the one that is: it erases it, or stores what was typed in the old form.
Overtake(c) == copy' = [c EXCEPT !.own = FALSE]

AcknowledgeSender ==
  LET acknowledged(f) == AcknowledgeEditor(f, fetch.cmd, fetch.page.version) IN
    \/ /\ ~fetch.detached
       /\ form' = acknowledged(form)
       /\ panel' = NoPanel
       /\ KeepNewer(form')
    \/ /\ fetch.detached
       /\ Overtake(CopyOf(acknowledged([form EXCEPT !.text = fetch.left])))
       /\ UNCHANGED <<form, panel>>

\* Fault: the stored command is not cleared.
AcknowledgedKeepsStored ==
  /\ fetch.phase = "committed"
  /\ AcknowledgeSender
  /\ fetch' = [NoFetch EXCEPT !.phase = "refreshing"]
  /\ UNCHANGED <<history, stored, reread, copies, keys, faults>>

Acknowledged ==
  /\ fetch.phase = "committed"
  /\ AcknowledgeSender
  /\ stored' = NoCommand
  /\ fetch' = [NoFetch EXCEPT !.phase = "refreshing"]
  /\ UNCHANGED <<history, reread, copies, keys, faults>>

\* showConflict: the comparison opens, and the current value together with the
\* fields of the page in the answer become the discard target; all of it in the
\* form that was sent.
ConflictShown ==
  /\ fetch.phase = "conflict"
  /\ LET page == fetch.page IN
       \/ /\ ~fetch.detached
          /\ panel' = [open |-> TRUE, mine |-> fetch.cmd.text, current |-> page.text,
                       version |-> page.version]
          /\ form' = [form EXCEPT !.pending = FALSE,
                        !.target = [given |-> TRUE, text |-> page.text,
                                    version |-> page.version, resolved |-> TRUE]]
       \/ fetch.detached /\ UNCHANGED <<form, panel>>
  /\ stored' = NoCommand
  /\ fetch' = NoFetch
  /\ UNCHANGED <<history, copy, reread, copies, keys, faults>>

\* The key is renewed and the form marked, which was clean when it was taken away.
KeyRefused ==
  /\ fetch.phase = "key_conflict"
  /\ \/ ~fetch.detached /\ form' = [form EXCEPT !.key = 0, !.pending = FALSE] /\ UNCHANGED copy
     \/ fetch.detached /\ Overtake(NoCopy) /\ UNCHANGED form
  /\ stored' = NoCommand
  /\ fetch' = NoFetch
  /\ UNCHANGED <<history, panel, reread, copies, keys, faults>>

\* What the answer makes of the offer to retry, in the form that was sent.
Offering(retry) ==
  form' = IF fetch.detached THEN form ELSE [form EXCEPT !.pending = retry]

\* Fault: the early return does not release the page.
RejectedHeld ==
  /\ fetch.phase = "rejected"
  /\ Offering(fetch.retry)
  /\ stored' = IF fetch.retry THEN stored ELSE NoCommand
  /\ UNCHANGED <<history, panel, copy, fetch, reread, copies, keys, faults>>

\* A rejected retry leaves the first attempt as unknown as it was.
Rejected ==
  /\ fetch.phase = "rejected"
  /\ Offering(fetch.retry)
  /\ stored' = IF fetch.retry THEN stored ELSE NoCommand
  /\ fetch' = NoFetch
  /\ UNCHANGED <<history, panel, copy, reread, copies, keys, faults>>

Unanswered == {"sent", "refused", "committed", "conflict", "key_conflict", "rejected"}

\* The request on its way is lost, or arrives when nobody waits for it.
LeaveBehind == copies' \in {copies} \cup
                 (IF fetch.phase = "sent" THEN {copies \cup {fetch.cmd}} ELSE {})

\* The catch of submit: no answer, a 5xx, or one that cannot be read.
FetchFails ==
  /\ fetch.phase \in Unanswered /\ faults < MaxFaults
  /\ LeaveBehind
  /\ Offering(TRUE)
  /\ stored' = fetch.cmd
  /\ fetch' = NoFetch
  /\ faults' = faults + 1
  /\ UNCHANGED <<history, panel, copy, reread, keys>>

-----------------------------------------------------------------------------
(***************************************************************************)
(* The page: choices of the conflict comparison.                           *)
(***************************************************************************)
UseCurrent ==
  /\ panel.open
  /\ form' = Discarded
  /\ panel' = NoPanel
  /\ copy' = NoCopy
  /\ UNCHANGED <<history, stored, fetch, reread, copies, keys, faults>>

Mine == [form EXCEPT !.text = panel.mine, !.version = panel.version, !.key = 0,
                     !.shown = panel.current, !.resolved = TRUE]

\* "Save mine" fills the form and submits it as a command of its own, if the
\* page takes one.  The comparison stays open.
SaveMine ==
  /\ panel.open
  /\ IF Idle /\ (stored = NoCommand \/ form.pending)
       THEN SendForm(Mine)
       ELSE form' = Mine /\ UNCHANGED <<fetch, keys>>
  /\ copy' = CopyOf(Mine)
  /\ UNCHANGED <<history, panel, stored, reread, copies, faults>>

\* "Edit combined value": the same fields, and the choices are disabled.
Combine ==
  /\ panel.open
  /\ form' = Mine
  /\ copy' = CopyOf(Mine)
  /\ panel' = NoPanel
  /\ UNCHANGED <<history, stored, fetch, reread, copies, keys, faults>>

-----------------------------------------------------------------------------
(***************************************************************************)
(* The page: fresh views.                                                  *)
(***************************************************************************)
\* Fault: a dirty editor takes over the version of the page.
AdoptRevision(page) ==
  IF Dirty
    THEN form' = [form EXCEPT !.version = page.version] /\ UNCHANGED <<copy, panel>>
    ELSE Replaced(page)

\* replaceCleanRegions: a clean editor is replaced by the one of the page; a
\* dirty one stays, and only its discard target moves.
AdoptPage(page) ==
  IF Dirty
    THEN /\ form' = [form EXCEPT !.target = [given |-> TRUE, text |-> page.text,
                                             version |-> page.version, resolved |-> FALSE]]
         /\ UNCHANGED <<copy, panel>>
    ELSE Replaced(page)

RefreshRead ==
  /\ fetch.phase = "refreshing"
  /\ Answered("refreshed", CurrentPage)
  /\ UNCHANGED <<history, form, panel, copy, stored, reread, copies, keys, faults>>

\* A refresh that succeeds takes the offer of an earlier one away.  The form it
\* follows is marked once more, if it is on the page: the copy is its own then.
Refreshed ==
  /\ fetch.phase = "refreshed"
  /\ AdoptPage(fetch.page)
  /\ fetch' = NoFetch
  /\ reread' = IF reread.phase = "offered" THEN NoReread ELSE reread
  /\ UNCHANGED <<history, stored, copies, keys, faults>>

RefreshFails ==
  /\ fetch.phase \in {"refreshing", "refreshed"} /\ faults < MaxFaults
  /\ fetch' = NoFetch
  /\ reread' = IF reread.phase = "none" THEN [reread EXCEPT !.phase = "offered"] ELSE reread
  /\ faults' = faults + 1
  /\ UNCHANGED <<history, form, panel, copy, stored, copies, keys>>

\* "Retry refresh" reads the view again, whatever is sent meanwhile.
RetryRefresh ==
  /\ reread.phase = "offered"
  /\ reread' = [reread EXCEPT !.phase = "asked"]
  /\ UNCHANGED <<history, form, panel, copy, stored, fetch, copies, keys, faults>>

Reread ==
  /\ reread.phase = "asked"
  /\ reread' = [phase |-> "read", page |-> CurrentPage]
  /\ UNCHANGED <<history, form, panel, copy, stored, fetch, copies, keys, faults>>

\* A clean editor is replaced although its save is in flight.
Rereaded ==
  /\ reread.phase = "read"
  /\ AdoptPage(reread.page)
  /\ fetch' = IF ~Dirty /\ fetch.phase \in Unanswered /\ ~fetch.detached
                THEN [fetch EXCEPT !.detached = TRUE, !.left = form.text]
                ELSE fetch
  /\ reread' = NoReread
  /\ UNCHANGED <<history, stored, copies, keys, faults>>

\* The page is loaded again and restores what it kept; what was in flight is
\* forgotten.
Reload ==
  /\ faults < MaxFaults
  /\ Replaced(CurrentPage)
  /\ LeaveBehind
  /\ fetch' = NoFetch
  /\ reread' = NoReread
  /\ faults' = faults + 1
  /\ UNCHANGED <<history, stored, keys>>

-----------------------------------------------------------------------------
Author ==
  \/ \E t \in Texts : Type(t)
  \/ Discard
  \/ UseCurrent \/ SaveMine \/ Combine

Server == ServerExecutes \/ ServerReads \/ RefreshRead \/ Reread

Script ==
  \/ Acknowledged \/ ConflictShown \/ KeyRefused \/ Rejected
  \/ Refreshed \/ Rereaded

Faulty ==
  \/ ServerRejects \/ FetchFails \/ RefreshFails \/ Reload
  \/ \E c \in copies : CopyArrives(c)

Next ==
  \/ Author \/ Submit \/ Retry \/ RetryRefresh
  \/ Server \/ Script \/ Faulty
  \/ \E t \in Texts : SavedElsewhere(t)

Spec == Init /\ [][Next]_vars

\* The server answers, the page handles an answer it received, and a user who
\* is told of an unknown outcome eventually presses "Retry save".
Fairness == WF_vars(Server) /\ WF_vars(Script) /\ WF_vars(Retry)

FairSpec == Spec /\ Fairness

-----------------------------------------------------------------------------
(***************************************************************************)
(* The saved text as the draft of module Workspace: the revisions are its  *)
(* draft revisions, and keys are named in the order they were claimed.     *)
(***************************************************************************)
PackageOf(v) == [intention |-> TextAt(v), actions |-> [a \in {} |-> 0]]

Unconfirmed == [confirmed |-> [effective |-> 0, consequence |-> "immediate", late |-> FALSE],
                content |-> 0]

Draft == INSTANCE Workspace WITH
  ActionIds <- {}, Users <- {}, Deadline <- 0, MaxTime <- 0,
  MaxVersion <- MaxSaves + MaxOthers,
  now <- 0,
  draft <- [version |-> Version, package |-> PackageOf(Version)],
  revisions <- [v \in 1 .. Version |->
                  [package |-> PackageOf(v), op |-> "intention", base |-> history[v].base]],
  submission <- [status |-> "none", version |-> 0, effective |-> 0, deadline |-> 0],
  contents <- <<>>, amendments <- <<>>, decisions <- <<>>, events <- <<>>,
  requests <- [op \in {"intention", "action", "remove", "reorder", "comment", "submit",
                       "amend", "decide"} |->
                 IF op = "intention"
                   THEN [v \in 1 .. Version |-> [kind |-> "package_revision", id |-> v,
                                                 completion |-> Unconfirmed]]
                   ELSE <<>>]

\* Whatever the page, the network and the other sessions do, the server sees
\* saves of the intention as module Workspace allows them, and nothing else.
SavesAreDraftEdits == Draft!Spec

-----------------------------------------------------------------------------
(***************************************************************************)
(* Properties.                                                             *)
(***************************************************************************)
\* A text the editor takes for saved (it drops its recovery copy, and leaving
\* the page does not warn) is one the server stored, at the version the editor
\* would save over or later.  Texts typed while a save was in flight, kept over
\* a reload or left by a retry from another text are not.
CleanTextIsStored ==
  form.resolved \/ \E v \in form.version .. Version : TextAt(v) = form.baseline

\* A save that did not come out of a conflict comparison replaces the text the
\* page presented with the version it names: no reload, late acknowledgement,
\* refresh or delayed copy moves a version under a text nobody compared it with
\* ("never silently overwrite").
ReplacesWhatWasShown ==
  \A v \in 1 .. Version : history[v].resolved \/ history[v].shown = TextAt(v - 1)

\* One key is one revision, however often its command was retried, was in
\* flight over a reload, or arrived after the page had moved on.
OneRevisionPerKey ==
  \A v, w \in 1 .. Version : history[v].key = history[w].key => v = w \/ history[v].key = 0

\* A revision named to the page is the one of the text and the baseline it sent
\* under that key, so the version the editor moves to holds its text.
AnswerNamesItsRevision ==
  fetch.phase = "committed" =>
    /\ fetch.page.version \in 1 .. Version
    /\ LET named == history[fetch.page.version] IN
         named.key = fetch.cmd.key /\ named.text = fetch.cmd.text /\ named.base = fetch.cmd.base

\* Text with unsaved changes is only ever changed by its author: an answer, a
\* refreshed view and a reload leave it alone.  Except a reload after the answer
\* to a save whose form a retried refresh had taken away: that answer erases or
\* overwrites the recovery copy of what was typed in the form that took its place.
UnsavedTextIsKept ==
  [][Dirty /\ form'.text # form.text => Author \/ (Reload /\ ~copy.own)]_vars

\* Under Fairness a save in flight ends, so the other controls come back.
SaveEnds == fetch.phase # "idle" ~> fetch.phase = "idle"

\* Under Fairness an unknown outcome the page offers to retry becomes known once
\* the faults stop; the offer survives refreshed views and reloads till then.  It
\* is not made when the form that was sent had been taken away.
OutcomeBecomesKnown == stored # NoCommand /\ form.pending ~> stored = NoCommand

\* contracts.md on a version mismatch: it "provides an authorized
\* base/current/submitted comparison; never silently overwrite".  Every save
\* replaces the text that was presented with the version it names.
NeverSilentlyOverwrites ==
  \A v \in 1 .. Version : history[v].shown = TextAt(v - 1)

\* app.js: "Retry will use the exact original save; other saves are paused."
\* While an outcome is unknown nothing but the stored command is sent.
OtherSavesArePaused ==
  [][stored # NoCommand /\ fetch'.phase = "sent" /\ fetch.phase = "idle"
       => fetch'.cmd = stored]_vars
=============================================================================
