----------------------------- MODULE ActionEditor ---------------------------
(***************************************************************************)
(* The action forms of one open workspace page: the form that creates an   *)
(* action and becomes the editor of the action it created, the editors of  *)
(* the actions on the page, and the forms a refreshed page no longer has a *)
(* place for.  DraftEditor follows one editor of a text that is always     *)
(* there; here editors appear, change their identity and disappear, while  *)
(* answers are lost, requests arrive late, other sessions create, edit and *)
(* remove actions, and the page is loaded again from what it keeps in      *)
(* sessionStorage.                                                         *)
(*                                                                         *)
(* An action is a number, in the order of creation; 0 is the one a form    *)
(* is still to create ("new-action").  The fields of an action are one     *)
(* text.  A form has a place: the number of the action it was rendered     *)
(* for, 0 for the one that creates, and -a for a creator that had become   *)
(* the editor of a when a lost its place.  In document order the form of   *)
(* an action comes before the creator that became its editor too.          *)
(*                                                                         *)
(* A page replaces a clean form also while a save sent from it is in       *)
(* flight.  That form is then no longer on the page ("detached"), and its  *)
(* handler goes on with it under the recovery copy of its identity.        *)
(***************************************************************************)
EXTENDS Integers, Sequences, FiniteSets, Functions

CONSTANTS
  Texts,      \* contents of an action's fields
  Blank,      \* those of an empty form
  Opened,     \* the actions of the draft the page is first opened on
  MaxKeys,    \* bound: request keys this page draws
  MaxOthers,  \* bound: saves of other sessions
  MaxFaults   \* bound: reloads, refusals, lost requests and answers together

ASSUME ActionAssumption ==
  /\ Blank \in Texts /\ Opened \in Seq(Texts \ {Blank})
  /\ MaxKeys \in Nat /\ MaxOthers \in Nat /\ MaxFaults \in Nat

VARIABLES
  revisions,  \* PackageRevision rows, by version: each keeps the whole package
  forms,      \* the action forms of the page, by place
  store,      \* the recovery copy per editor identity
  stored,     \* per editor identity, the command whose outcome is unknown
  unknown,    \* the last of them, the "unresolved command" of the workspace
  paused,     \* "unresolved": other saves wait
  orphan,     \* the panel of a command that has no form
  fetch,      \* the save in flight, until the view is refreshed after it
  reread,     \* the "Retry refresh" offered after that refresh failed
  copies,     \* requests the page gave up that may still arrive
  keys,       \* request keys drawn so far
  faults,     \* faults so far
  told,       \* history: creations the page was told of, or gave up
  met         \* history: two forms of one action met, the first one in use

offers == <<stored, unknown, paused, orphan>>
client == <<forms, store, offers, met>>
vars == <<revisions, client, fetch, reread, copies, keys, faults, told>>

-----------------------------------------------------------------------------
(***************************************************************************)
(* The server: the package by version.                                     *)
(***************************************************************************)
Version == Len(revisions)

\* package_at_version
PackageAt(v) == IF v = 0 THEN <<>> ELSE revisions[v].package

\* _action_scope: none for an action that is not in the package.
ScopeAt(v, a) ==
  IF a \in DOMAIN PackageAt(v) THEN PackageAt(v)[a] ELSE [text |-> Blank, removed |-> TRUE]

\* The editors of a page rendered from a version.
Live(v) == {a \in DOMAIN PackageAt(v) : ~PackageAt(v)[a].removed}

MostActions == Len(Opened) + MaxKeys + MaxOthers
Editors == 0 .. MostActions
Places == -MostActions .. MostActions
Keys == 0 .. MaxKeys
Versions == 0 .. Version

Commands == [editor : Editors, text : Texts, base : Versions, key : Keys]
NoCommand == [editor |-> 0, text |-> Blank, base |-> 0, key |-> 0]

Orphans == [cmd : Commands, pending : BOOLEAN]
NoOrphan == [cmd |-> NoCommand, pending |-> FALSE]

\* What mark stores of a dirty form.  "own" is history: it was last written, or
\* erased, for a form that was on the page then.
Copies == [kept : BOOLEAN, text : Texts, version : Versions, own : BOOLEAN]
NoCopy == [kept |-> FALSE, text |-> Blank, version |-> 0, own |-> TRUE]

Targets == [given : BOOLEAN, text : Texts, version : Versions, key : Keys]
NoTarget == [given |-> FALSE, text |-> Blank, version |-> 0, key |-> 0]

\* "listed": the page that came with the conflict still had this editor.
Panels == [open : BOOLEAN, mine : Texts, current : Texts, version : Versions,
           listed : BOOLEAN]
NoPanel == [open |-> FALSE, mine |-> Blank, current |-> Blank, version |-> 0,
            listed |-> FALSE]

(***************************************************************************)
(* "inflight" marks the form the save in flight was sent from, "pending"   *)
(* the one that offers the retry, "gone" one whose editor is no longer     *)
(* available, "unrefreshed" the one whose refresh "Retry refresh" repeats. *)
(***************************************************************************)
Forms == [editor : Editors, text : Texts, baseline : Texts, version : Versions,
          key : Keys, target : Targets, panel : Panels, inflight : BOOLEAN,
          pending : BOOLEAN, gone : BOOLEAN, unrefreshed : BOOLEAN]
NoForm == [editor |-> 0, text |-> Blank, baseline |-> Blank, version |-> 0, key |-> 0,
           target |-> NoTarget, panel |-> NoPanel, inflight |-> FALSE, pending |-> FALSE,
           gone |-> FALSE, unrefreshed |-> FALSE]

\* "text" is the saved value a conflict met, "page" the version a page or an
\* answer carries, "action" the one a creation made.  A sender that was taken
\* off the page is "left".
Phases == {"idle", "sent", "refused", "committed", "conflict", "key_conflict",
           "invalid", "rejected", "refreshing", "refreshed"}
Fetches == [phase : Phases, cmd : Commands, retry : BOOLEAN, page : Versions,
            text : Texts, removed : BOOLEAN, action : Editors,
            detached : BOOLEAN, left : Forms]
NoFetch == [phase |-> "idle", cmd |-> NoCommand, retry |-> FALSE, page |-> 0,
            text |-> Blank, removed |-> FALSE, action |-> 0,
            detached |-> FALSE, left |-> NoForm]

Rereads == [phase : {"none", "offered", "read"}, page : Versions]
NoReread == [phase |-> "none", page |-> 0]

TypeOK ==
  /\ revisions \in Seq([cmd : Commands, package : Seq([text : Texts, removed : BOOLEAN])])
  /\ DOMAIN forms \subseteq Places /\ forms \in [DOMAIN forms -> Forms]
  /\ store \in [Editors -> Copies]
  /\ stored \in [Editors -> Commands] /\ unknown \in Commands /\ paused \in BOOLEAN
  /\ orphan \in Orphans
  /\ fetch \in Fetches /\ reread \in Rereads
  /\ copies \subseteq Commands
  /\ keys \in Keys /\ faults \in 0 .. MaxFaults
  /\ told \in Nat /\ met \in BOOLEAN

-----------------------------------------------------------------------------
(***************************************************************************)
(* The server: what becomes of a command.                                  *)
(***************************************************************************)
\* Fault: the claim of a key is not looked up.
Unclaimed(c) == {}

ClaimedBy(c) == {v \in 1 .. Version : revisions[v].cmd.key = c.key}

\* Same key, same content: the completed request.
SameRequest(v, c) ==
  LET done == revisions[v].cmd IN
    done.editor = c.editor /\ done.text = c.text /\ done.base = c.base

\* Fault: an edit conflicts with whatever was saved since.
AnyChange(c) == c.editor = 0 \/ c.base = Version

\* _check_command_baseline for the operation "action": a creation has none, an
\* edit compares the scope of its own action.
Baseline(c) ==
  \/ c.editor = 0
  \/ c.base = Version
  \/ c.editor \in DOMAIN PackageAt(c.base) /\ ScopeAt(c.base, c.editor) = ScopeAt(Version, c.editor)

\* execute: what the locked transaction makes of a command.  A removed action is
\* not edited, even over the version that removed it.
Outcome(c) ==
  IF ClaimedBy(c) # {}
    THEN IF \E v \in ClaimedBy(c) : SameRequest(v, c) THEN "replayed" ELSE "key_conflict"
    ELSE IF ~Baseline(c) THEN "conflict"
    ELSE IF c.editor # 0 /\ ScopeAt(Version, c.editor).removed THEN "invalid" ELSE "saved"

\* The package a command leaves: an appended action or a new body.
PackageAfter(c) ==
  LET saved == [text |-> c.text, removed |-> FALSE] IN
    IF c.editor = 0 THEN Append(PackageAt(Version), saved)
    ELSE [PackageAt(Version) EXCEPT ![c.editor] = saved]

Save(c) == revisions' = Append(revisions, [cmd |-> c, package |-> PackageAfter(c)])

\* Fault: the action last added to the draft as it is now.
NewestAction(v) == Len(PackageAt(Version))

\* apply.work: a creation is named by what its revision added to the one before.
AddedIn(v) == CHOOSE a \in DOMAIN PackageAt(v) : a \notin DOMAIN PackageAt(v - 1)

\* The editor a committed answer names.
EditorNamed(c, v) == IF c.editor = 0 THEN AddedIn(v) ELSE c.editor

Elsewhere == Cardinality({v \in 1 .. Version : revisions[v].cmd.key = 0}) <
             MaxOthers + Len(Opened)

\* Another session creates an action, or saves one it read at this version.
SavedElsewhere(a, t) ==
  /\ Elsewhere /\ a \in {0} \cup Live(Version)
  /\ Save([NoCommand EXCEPT !.editor = a, !.text = t, !.base = Version])
  /\ UNCHANGED <<client, fetch, reread, copies, keys, faults, told>>

\* Another session's "remove": the command marks the action.
RemovedElsewhere(a) ==
  /\ Elsewhere /\ a \in Live(Version)
  /\ revisions' = Append(revisions,
       [cmd |-> [NoCommand EXCEPT !.editor = a, !.base = Version],
        package |-> [PackageAt(Version) EXCEPT ![a].removed = TRUE]])
  /\ UNCHANGED <<client, fetch, reread, copies, keys, faults, told>>

\* work() of workspace_web.apply, one transaction; a conflict keeps the scope
\* it met.
ServerExecutes ==
  /\ fetch.phase = "sent"
  /\ LET c == fetch.cmd IN
       \/ /\ Outcome(c) = "saved"
          /\ Save(c)
          /\ fetch' = [fetch EXCEPT !.phase = "committed", !.page = Version + 1,
                         !.action = IF c.editor = 0 THEN Len(PackageAt(Version)) + 1 ELSE c.editor]
       \/ /\ Outcome(c) = "replayed"
          /\ \E v \in ClaimedBy(c) :
               fetch' = [fetch EXCEPT !.phase = "committed", !.page = v,
                           !.action = EditorNamed(c, v)]
          /\ UNCHANGED revisions
       \/ /\ Outcome(c) \in {"conflict", "key_conflict", "invalid"}
          /\ LET current == ScopeAt(Version, c.editor) IN
               fetch' = [fetch EXCEPT !.text = current.text, !.removed = current.removed,
                           !.phase = IF Outcome(c) = "conflict" THEN "refused" ELSE Outcome(c)]
          /\ UNCHANGED revisions
  /\ UNCHANGED <<client, reread, copies, keys, faults, told>>

\* enhanced_error: the answer to a refused command carries a later page.
ServerReads ==
  /\ fetch.phase = "refused"
  /\ fetch' = [fetch EXCEPT !.phase = "conflict", !.page = Version]
  /\ UNCHANGED <<revisions, client, reread, copies, keys, faults, told>>

\* 401, 403 or 404: the session ended or the authority is gone for now.
ServerRejects ==
  /\ fetch.phase = "sent" /\ faults < MaxFaults
  /\ fetch' = [fetch EXCEPT !.phase = "rejected"]
  /\ faults' = faults + 1
  /\ UNCHANGED <<revisions, client, reread, copies, keys, told>>

\* A request nobody waits for arrives; its answer goes nowhere.
CopyArrives(c) ==
  /\ c \in copies
  /\ copies' = copies \ {c}
  /\ IF Outcome(c) = "saved" THEN Save(c) ELSE UNCHANGED revisions
  /\ UNCHANGED <<client, fetch, reread, keys, faults, told>>

-----------------------------------------------------------------------------
(***************************************************************************)
(* The page: forms and their recovery copies.                              *)
(***************************************************************************)
Dirty(f) == f.text # f.baseline

DirtyFormsOf(fs, e) == {i \in DOMAIN fs : Dirty(fs[i]) /\ fs[i].editor = e}

\* What a reload would bring back of a form.
CopyOf(f) ==
  IF Dirty(f) THEN [kept |-> TRUE, text |-> f.text, version |-> f.version, own |-> TRUE]
  ELSE NoCopy

\* mark: forms of the same editor share one copy.
Marked(f) == [store EXCEPT ![f.editor] = CopyOf(f)]

\* Copies the handler of a detached form writes or erases are those of the forms
\* in its place.
Overtaken(st, editors) ==
  [e \in Editors |-> IF e \in editors THEN [st[e] EXCEPT !.own = FALSE] ELSE st[e]]

\* A form as a page of version v has it.
FormOf(e, v) ==
  LET saved == ScopeAt(v, e).text IN
    [editor |-> e, text |-> saved, baseline |-> saved, version |-> v, key |-> 0,
     target |-> NoTarget, panel |-> NoPanel, inflight |-> FALSE, pending |-> FALSE,
     gone |-> FALSE, unrefreshed |-> FALSE]

\* initialize, restore: the recovery copy of its editor, and the retry of the
\* command kept for it.
Restored(f, kept) ==
  LET copy == store[f.editor]
      back == IF copy.kept
                THEN [f EXCEPT !.text = copy.text, !.version = copy.version]
                ELSE f IN
    [back EXCEPT !.pending = kept[f.editor] # NoCommand]

(***************************************************************************)
(* replaceCleanRegions: every editor of the page of version v, where fs    *)
(* are the forms there are now.  A dirty form takes the place of the form  *)
(* of its editor and remembers that one's text as its discard target; of   *)
(* two with the same editor the second replaces the first.  A dirty form   *)
(* the page has no place for stays, disabled.                              *)
(***************************************************************************)
LastOf(places) == CHOOSE i \in places : \A j \in places : i <= j

Grafted(fs, e, v) ==
  LET last == LastOf(DirtyFormsOf(fs, e))
      replaced == DirtyFormsOf(fs, e) \ {last} IN
    [fs[last] EXCEPT !.target =
       IF replaced = {}
         THEN [given |-> TRUE, text |-> ScopeAt(v, e).text, version |-> v, key |-> 0]
         ELSE LET first == fs[LastOf(replaced)] IN
                [given |-> TRUE, text |-> first.text, version |-> first.version,
                 key |-> first.key]]

EditorOn(fs, e, v, kept) ==
  IF DirtyFormsOf(fs, e) = {} THEN Restored(FormOf(e, v), kept) ELSE Grafted(fs, e, v)

WithoutPlace(fs, v) ==
  {i \in DOMAIN fs : Dirty(fs[i]) /\ fs[i].editor \notin {0} \cup Live(v)}

\* Where a form without a place stays.
KeptAt(fs, i) == IF i = 0 THEN -fs[i].editor ELSE i

Page(fs, v, kept) ==
  [p \in {0} \cup Live(v) \cup {KeptAt(fs, i) : i \in WithoutPlace(fs, v)} |->
     IF p \in {0} \cup Live(v) THEN EditorOn(fs, p, v, kept)
     ELSE [fs[LastOf({i \in WithoutPlace(fs, v) : KeptAt(fs, i) = p})] EXCEPT !.gone = TRUE]]

\* The form whose save a refresh follows, if it is on the page.
Followed(f, who) ==
  \/ who = "sender" /\ f.inflight
  \/ who = "offerer" /\ f.unrefreshed

\* mark of the forms that were restored and of the one that is followed.
StoreOf(fs, page, who) ==
  [e \in Editors |->
     LET touched == {i \in DOMAIN page : /\ page[i].editor = e
                                         /\ Followed(page[i], who) \/ DirtyFormsOf(fs, e) = {}} IN
       IF touched = {} THEN store[e] ELSE CopyOf(page[CHOOSE i \in touched : TRUE])]

\* restoreOrphanedCommand: one panel, for the unresolved command if it has no form.
OrphanOn(page, panel, last) ==
  IF panel.cmd # NoCommand \/ last = NoCommand \/ \E i \in DOMAIN page : page[i].editor = last.editor
    THEN panel
    ELSE [cmd |-> last, pending |-> TRUE]

NoForms == <<>>

\* The forms become those of version v; fs, panel and pause are what it finds.
\* What is offered for retry pauses other saves.
Adopt(fs, v, panel, pause, who) ==
  LET page == Page(fs, v, stored')
      offered == {e \in {0} \cup Live(v) : DirtyFormsOf(fs, e) = {} /\ stored'[e] # NoCommand} IN
    /\ forms' = [i \in DOMAIN page |->
                   [page[i] EXCEPT !.inflight = @ /\ fetch'.phase # "idle",
                                   !.unrefreshed = @ /\ reread'.phase # "none"]]
    /\ store' = StoreOf(fs, page, who)
    /\ orphan' = OrphanOn(page, panel, unknown')
    /\ paused' = (pause \/ offered # {} \/ orphan' # panel)

Init ==
  /\ revisions = [v \in DOMAIN Opened |->
       [cmd |-> [NoCommand EXCEPT !.text = Opened[v], !.base = v - 1],
        package |-> [a \in 1 .. v |-> [text |-> Opened[a], removed |-> FALSE]]]]
  /\ store = [e \in Editors |-> NoCopy]
  /\ stored = [e \in Editors |-> NoCommand]
  /\ forms = Page(NoForms, Version, stored)
  /\ unknown = NoCommand /\ paused = FALSE /\ orphan = NoOrphan
  /\ fetch = NoFetch /\ reread = NoReread
  /\ copies = {} /\ keys = 0 /\ faults = 0 /\ told = 0 /\ met = FALSE

-----------------------------------------------------------------------------
(***************************************************************************)
(* The page: editing and sending.                                          *)
(***************************************************************************)
\* Unsaved, sending, compared or unavailable.
InUse(f) == Dirty(f) \/ f.inflight \/ f.panel.open \/ f.gone

\* Two forms of one action, the first of them in use: a creation whose answer
\* was lost is on the page as an action beside the form that retries it.
Twins(fs) ==
  \E i, j \in DOMAIN fs : j < i /\ fs[i].editor = fs[j].editor /\ InUse(fs[i])

Put(i, f) ==
  /\ forms' = [forms EXCEPT ![i] = f]
  /\ met' = (met \/ Twins(forms'))

\* Typing, in a form that has not lost its editor.
Type(i, t) ==
  /\ ~forms[i].gone /\ t # forms[i].text
  /\ LET f == [forms[i] EXCEPT !.text = t] IN Put(i, f) /\ store' = Marked(f)
  /\ UNCHANGED <<revisions, offers, fetch, reread, copies, keys, faults, told>>

Idle == fetch.phase = "idle"

Freeze(f) == [editor |-> f.editor, text |-> f.text, base |-> f.version, key |-> f.key]

Dispatch(c, again) ==
  fetch' = [NoFetch EXCEPT !.phase = "sent", !.cmd = c, !.retry = again]

\* submit(form): freeze the form and send it.  Its key is drawn at first use.
SendForm(i, f) ==
  LET named == IF f.key = 0 THEN [f EXCEPT !.key = keys + 1] ELSE f IN
    /\ named.key \in Keys
    /\ Put(i, [named EXCEPT !.inflight = TRUE])
    /\ keys' = IF f.key = 0 THEN keys + 1 ELSE keys
    /\ Dispatch(Freeze(named), FALSE)

\* The fields are required, and the button of an unavailable editor disabled.
Sendable(f) == ~f.gone /\ f.text # Blank

Submit(i) ==
  /\ Idle /\ ~paused
  /\ Sendable(forms[i]) /\ ~forms[i].pending
  /\ SendForm(i, forms[i])
  /\ told' = IF forms[i].editor = 0 /\ stored[0] # NoCommand THEN told + 1 ELSE told
  /\ UNCHANGED <<revisions, store, offers, reread, copies, faults>>

\* "Retry save": exactly the command kept for the editor, whatever the form holds now.
Retry(i) ==
  /\ Idle
  /\ Sendable(forms[i]) /\ forms[i].pending
  /\ LET c == stored[forms[i].editor] IN
       /\ c # NoCommand
       /\ Put(i, [forms[i] EXCEPT !.inflight = TRUE])
       /\ Dispatch(c, TRUE)
  /\ UNCHANGED <<revisions, store, offers, reread, copies, keys, faults, told>>

\* "Retry original operation" of the panel.
RetryOrphan ==
  /\ Idle /\ orphan.pending
  /\ LET c == stored[orphan.cmd.editor] IN c # NoCommand /\ Dispatch(c, TRUE)
  /\ UNCHANGED <<revisions, client, reread, copies, keys, faults, told>>

\* The panel stays when its command was refused, now as an ordinary package
\* command: not over unsaved text or a view that failed to refresh.
ResendOrphan ==
  /\ Idle /\ ~paused /\ orphan.cmd # NoCommand /\ ~orphan.pending
  /\ reread.phase # "offered" /\ \A i \in DOMAIN forms : ~Dirty(forms[i])
  /\ Dispatch(orphan.cmd, FALSE)
  /\ UNCHANGED <<revisions, client, reread, copies, keys, faults, told>>

\* discardToAuthoritative: the remembered saved value, its version and key;
\* without one the baseline, and the hidden fields stay.
Discarded(f) ==
  LET t == f.target
      back == IF t.given
                THEN [f EXCEPT !.text = t.text, !.baseline = t.text, !.version = t.version,
                               !.key = t.key]
                ELSE [f EXCEPT !.text = f.baseline] IN
    [back EXCEPT !.panel = NoPanel]

\* Cancel, confirmed.
Discard(i) ==
  /\ Dirty(forms[i])
  /\ Put(i, Discarded(forms[i]))
  /\ store' = Marked(Discarded(forms[i]))
  /\ UNCHANGED <<revisions, offers, fetch, reread, copies, keys, faults, told>>

\* "Discard retained text" of an unavailable editor, not while it is sending.
DiscardRetained(i) ==
  /\ forms[i].gone /\ ~forms[i].inflight
  /\ forms' = Restrict(forms, DOMAIN forms \ {i})
  /\ store' = [store EXCEPT ![forms[i].editor] = NoCopy]
  /\ UNCHANGED <<revisions, offers, fetch, reread, copies, keys, faults, told, met>>

-----------------------------------------------------------------------------
(***************************************************************************)
(* The page: answers.                                                      *)
(***************************************************************************)
Senders == {i \in DOMAIN forms : forms[i].inflight}

\* Fault: the form shows the saved text.
AcknowledgeText(f) ==
  [f EXCEPT !.editor = fetch.action, !.text = fetch.cmd.text, !.baseline = fetch.cmd.text,
            !.version = fetch.page, !.key = 0, !.target = NoTarget, !.panel = NoPanel,
            !.pending = FALSE]

\* The creator becomes the editor of the action it created; the frozen text is
\* the saved one, newer typing stays.
AcknowledgeEditor(f) ==
  [f EXCEPT !.editor = fetch.action, !.baseline = fetch.cmd.text, !.version = fetch.page,
            !.key = 0, !.target = NoTarget, !.panel = NoPanel, !.pending = FALSE]

\* Fault: an acknowledged editor has nothing left to recover.
StoreForgotten(f) ==
  [store EXCEPT ![fetch.cmd.editor] = NoCopy, ![f.editor] = NoCopy]

\* The copy moves with the identity, if there is newer typing.
StoreAcknowledged(f) ==
  [store EXCEPT ![fetch.cmd.editor] = NoCopy, ![f.editor] = CopyOf(f)]

\* retainPending, clearPending: of the editor whose command was sent.
RetainPending ==
  /\ stored' = [stored EXCEPT ![fetch.cmd.editor] = fetch.cmd]
  /\ unknown' = fetch.cmd

ClearPending ==
  /\ stored' = [stored EXCEPT ![fetch.cmd.editor] = NoCommand]
  /\ unknown' = IF unknown.editor = fetch.cmd.editor THEN NoCommand ELSE unknown

\* The panel sends when no form does.
SentByPanel == Senders = {} /\ ~fetch.detached

OrphanPends(still) ==
  orphan' = IF SentByPanel THEN [orphan EXCEPT !.pending = still] ELSE orphan

CreationInFlight == fetch.phase \in {"sent", "committed"} /\ fetch.cmd.editor = 0

Acknowledged ==
  /\ fetch.phase = "committed"
  /\ told' = IF CreationInFlight THEN told + 1 ELSE told
  /\ \/ \E i \in Senders :
          LET f == AcknowledgeEditor(forms[i]) IN
            Put(i, f) /\ store' = StoreAcknowledged(f) /\ UNCHANGED orphan
     \/ /\ fetch.detached
        /\ LET f == AcknowledgeEditor(fetch.left) IN
             store' = Overtaken(StoreAcknowledged(f), {fetch.cmd.editor, f.editor})
        /\ UNCHANGED <<forms, orphan, met>>
     \/ SentByPanel /\ orphan' = NoOrphan /\ UNCHANGED <<forms, store, met>>
  /\ ClearPending /\ paused' = FALSE
  /\ fetch' = [NoFetch EXCEPT !.phase = "refreshing"]
  /\ UNCHANGED <<revisions, reread, copies, keys, faults>>

Answered(f) == [f EXCEPT !.inflight = FALSE, !.pending = FALSE]

WithoutPending == [i \in DOMAIN forms |->
                     IF forms[i].inflight THEN [forms[i] EXCEPT !.pending = FALSE] ELSE forms[i]]

\* showConflict: the comparison opens, and the current value with the fields of
\* the page in the answer becomes the discard target, if that has the editor.
Compared(f) ==
  LET listed == f.editor \in Live(fetch.page) IN
    [Answered(f) EXCEPT
       !.panel = [open |-> TRUE, mine |-> fetch.cmd.text, current |-> fetch.text,
                  version |-> fetch.page, listed |-> listed],
       !.target = IF listed THEN [given |-> TRUE, text |-> fetch.text, version |-> fetch.page,
                                  key |-> 0]
                  ELSE @]

\* An action that was removed has no comparison: the page in the answer is
\* shown, where unsaved text of it stays for copying.
ConflictShown ==
  /\ fetch.phase = "conflict"
  /\ ClearPending /\ fetch' = NoFetch
  /\ UNCHANGED <<revisions, reread, copies, keys, faults, told>>
  /\ \/ /\ fetch.removed
        /\ Adopt(WithoutPending, fetch.page,
                 IF SentByPanel THEN [orphan EXCEPT !.pending = FALSE] ELSE orphan, FALSE,
                 "nobody")
        /\ UNCHANGED met
     \/ /\ ~fetch.removed
        /\ \/ \E i \in Senders : Put(i, Compared(forms[i]))
           \/ Senders = {} /\ UNCHANGED <<forms, met>>
        /\ OrphanPends(FALSE) /\ paused' = FALSE
        /\ UNCHANGED store

\* mark of the form that was sent; the panel has no copy.
SenderMarked ==
  \/ \E i \in Senders : store' = Marked(forms[i])
  \/ fetch.detached /\ store' = Overtaken(Marked(fetch.left), {fetch.left.editor})
  \/ SentByPanel /\ UNCHANGED store

\* Rejected, invalid, or a key used for different content, which is then renewed.
\* A rejected retry leaves the first attempt as unknown as it was.
Refused ==
  /\ fetch.phase \in {"rejected", "key_conflict", "invalid"}
  /\ LET still == fetch.phase = "rejected" /\ fetch.retry IN
       /\ forms' = [i \in DOMAIN forms |->
            IF forms[i].inflight
              THEN [Answered(forms[i]) EXCEPT !.pending = still,
                      !.key = IF fetch.phase = "key_conflict" THEN 0 ELSE @]
              ELSE forms[i]]
       /\ OrphanPends(still) /\ paused' = still
       /\ IF still THEN UNCHANGED <<stored, unknown>> ELSE ClearPending
  /\ IF fetch.phase = "rejected" THEN UNCHANGED store ELSE SenderMarked
  /\ fetch' = NoFetch
  /\ UNCHANGED <<revisions, reread, copies, keys, faults, told, met>>

Unanswered ==
  {"sent", "refused", "committed", "conflict", "key_conflict", "invalid", "rejected"}

\* The request on its way is lost, or arrives when nobody waits for it.
LeaveBehind == copies' \in {copies} \cup
                 (IF fetch.phase = "sent" THEN {copies \cup {fetch.cmd}} ELSE {})

\* The catch of submit: no answer, a 5xx, or one that cannot be read.
FetchFails ==
  /\ fetch.phase \in Unanswered /\ faults < MaxFaults
  /\ LeaveBehind
  /\ forms' = [i \in DOMAIN forms |->
       IF forms[i].inflight THEN [forms[i] EXCEPT !.inflight = FALSE, !.pending = TRUE]
       ELSE forms[i]]
  /\ RetainPending /\ paused' = TRUE
  /\ OrphanPends(TRUE)
  /\ fetch' = NoFetch
  /\ faults' = faults + 1
  /\ UNCHANGED <<revisions, store, reread, keys, told, met>>

-----------------------------------------------------------------------------
(***************************************************************************)
(* The page: choices of the conflict comparison.                           *)
(***************************************************************************)
CurrentUsed(f) ==
  IF f.panel.listed THEN Discarded(f)
  ELSE [f EXCEPT !.text = f.panel.current, !.baseline = f.panel.current, !.panel = NoPanel]

UseCurrent(i) ==
  /\ forms[i].panel.open
  /\ Put(i, CurrentUsed(forms[i]))
  /\ store' = Marked(CurrentUsed(forms[i]))
  /\ UNCHANGED <<revisions, offers, fetch, reread, copies, keys, faults, told>>

Mine(f) == [f EXCEPT !.text = f.panel.mine, !.version = f.panel.version, !.key = 0]

\* "Save mine" fills the form and submits it as a command of its own, if the
\* page takes one.  The comparison stays open.
SaveMine(i) ==
  /\ forms[i].panel.open
  /\ IF Idle /\ (~paused \/ forms[i].pending)
       THEN SendForm(i, Mine(forms[i]))
       ELSE Put(i, Mine(forms[i])) /\ UNCHANGED <<fetch, keys>>
  /\ store' = Marked(Mine(forms[i]))
  /\ UNCHANGED <<revisions, offers, reread, copies, faults, told>>

\* "Edit combined value": the same fields, and the choices are disabled.
Combine(i) ==
  /\ forms[i].panel.open
  /\ Put(i, [Mine(forms[i]) EXCEPT !.panel = NoPanel])
  /\ store' = Marked(Mine(forms[i]))
  /\ UNCHANGED <<revisions, offers, fetch, reread, copies, keys, faults, told>>

-----------------------------------------------------------------------------
(***************************************************************************)
(* The page: fresh views.                                                  *)
(***************************************************************************)
RefreshRead ==
  /\ fetch.phase = "refreshing"
  /\ fetch' = [fetch EXCEPT !.phase = "refreshed", !.page = Version]
  /\ UNCHANGED <<revisions, client, reread, copies, keys, faults, told>>

\* A refresh that succeeds takes the offer of an earlier one away.
Refreshed ==
  /\ fetch.phase = "refreshed"
  /\ fetch' = NoFetch
  /\ UNCHANGED <<stored, unknown>>
  /\ reread' = IF reread.phase = "offered" THEN NoReread ELSE reread
  /\ Adopt(forms, fetch.page, orphan, paused, "sender")
  /\ UNCHANGED <<revisions, copies, keys, faults, told, met>>

RefreshFails ==
  /\ fetch.phase \in {"refreshing", "refreshed"} /\ faults < MaxFaults
  /\ fetch' = NoFetch
  /\ forms' = [i \in DOMAIN forms |->
       [forms[i] EXCEPT !.inflight = FALSE,
                        !.unrefreshed = IF reread.phase = "read" THEN @ ELSE forms[i].inflight]]
  /\ reread' = IF reread.phase = "none" THEN [reread EXCEPT !.phase = "offered"] ELSE reread
  /\ faults' = faults + 1
  /\ UNCHANGED <<revisions, store, offers, copies, keys, told, met>>

\* "Retry refresh", with the read that answers it; one that fails is offered
\* again.
RetryRefresh ==
  /\ reread.phase = "offered"
  /\ reread' = [phase |-> "read", page |-> Version]
  /\ UNCHANGED <<revisions, client, fetch, copies, keys, faults, told>>

\* The sender a page of version v has no place for.
TakenAway(v) ==
  LET page == Page(forms, v, stored) IN
    {i \in Senders : \A p \in DOMAIN page : ~page[p].inflight}

\* A clean form is replaced although its save is in flight.
Rereaded ==
  /\ reread.phase = "read"
  /\ LET taken == TakenAway(reread.page) IN
       \/ \E i \in taken : fetch' = [fetch EXCEPT !.detached = TRUE, !.left = forms[i]]
       \/ taken = {} /\ UNCHANGED fetch
  /\ reread' = NoReread
  /\ UNCHANGED <<stored, unknown>>
  /\ Adopt(forms, reread.page, orphan, paused, "offerer")
  /\ UNCHANGED <<revisions, copies, keys, faults, told, met>>

\* The page is loaded again; what was in flight is forgotten, unless it was the
\* retry of an outcome already unknown.
Reload ==
  /\ faults < MaxFaults
  /\ told' = IF CreationInFlight /\ stored[0] = NoCommand THEN told + 1 ELSE told
  /\ UNCHANGED <<stored, unknown>>
  /\ fetch' = NoFetch
  /\ reread' = NoReread
  /\ Adopt(NoForms, Version, NoOrphan, FALSE, "nobody")
  /\ LeaveBehind
  /\ faults' = faults + 1
  /\ UNCHANGED <<revisions, keys, met>>

-----------------------------------------------------------------------------
Author ==
  \/ \E i \in DOMAIN forms, t \in Texts \ {Blank} : Type(i, t)
  \/ \E i \in DOMAIN forms : Discard(i)
  \/ \E i \in DOMAIN forms : DiscardRetained(i)
  \/ \E i \in DOMAIN forms : UseCurrent(i)
  \/ \E i \in DOMAIN forms : SaveMine(i)
  \/ \E i \in DOMAIN forms : Combine(i)

Send ==
  \/ \E i \in DOMAIN forms : Submit(i)
  \/ \E i \in DOMAIN forms : Retry(i)
  \/ RetryOrphan \/ ResendOrphan \/ RetryRefresh

Server == ServerExecutes \/ ServerReads \/ RefreshRead

Script == Acknowledged \/ ConflictShown \/ Refused \/ Refreshed \/ Rereaded

Faulty ==
  \/ ServerRejects \/ FetchFails \/ RefreshFails \/ Reload
  \/ \E c \in copies : CopyArrives(c)

Others ==
  \/ \E a \in Editors, t \in Texts \ {Blank} : SavedElsewhere(a, t)
  \/ \E a \in Editors : RemovedElsewhere(a)

Next == Author \/ Send \/ Server \/ Script \/ Faulty \/ Others

Spec == Init /\ [][Next]_vars

-----------------------------------------------------------------------------
(***************************************************************************)
(* Properties.                                                             *)
(***************************************************************************)
\* Actions this page's commands created.
Creations == {v \in 1 .. Version : revisions[v].cmd.editor = 0 /\ revisions[v].cmd.key # 0}

\* A creation has no baseline that would refuse a repetition, only its key does.
\* The page has no more actions created than it was told of, plus the one in
\* flight or offered for retry: what a user submits once is one action, however
\* often it is retried and however late a request arrives.  Except over a reload
\* with a request in flight, whose text comes back without its key, and when
\* another is created while no form offers the retry of the first.
CreatedOnce ==
  Cardinality(Creations) <=
    told + (IF CreationInFlight \/ stored[0] # NoCommand THEN 1 ELSE 0)

\* The action a creation is told it made is the one of its own revision, also
\* when the answer is a replay and other actions have come since: the form
\* edits what it created.
AnswerNamesItsAction ==
  fetch.phase = "committed" =>
    /\ revisions[fetch.page].cmd.key = fetch.cmd.key
    /\ fetch.action \in DOMAIN PackageAt(fetch.page)
    /\ PackageAt(fetch.page)[fetch.action] = [text |-> fetch.cmd.text, removed |-> FALSE]
    /\ fetch.cmd.editor \in {0, fetch.action}

\* An edit is refused only if its own action was saved or removed since the
\* version it was made over: no save of another action, and no creation, comes
\* between the author and a save.
ConflictsAreOfTheAction ==
  fetch.phase \in {"refused", "conflict"} =>
    \E v \in fetch.cmd.base + 1 .. Version : revisions[v].cmd.editor = fetch.cmd.editor

\* Whatever is typed and not saved can be brought back by a reload: it is in the
\* recovery copy of the editor the form now has, with the version it is to be
\* saved over, through creation, refreshes, conflicts and removal.  Except that a
\* copy overtaken by the answer to a save, whose form a retried refresh had taken
\* away, lacks what was typed before that answer in the form in its place.
RecoveryKept ==
  met \/ \A i \in DOMAIN forms : Dirty(forms[i]) =>
           LET copy == store[forms[i].editor] IN copy = CopyOf(forms[i]) \/ ~copy.own

\* The text of f is on the page, in the editor it was typed into or the one that
\* editor became.
OnPage(f, fs) == \E i \in DOMAIN fs : fs[i].text = f.text /\ f.editor \in {0, fs[i].editor}

Available(f, fs) == \E i \in DOMAIN fs : fs[i].text = f.text /\ fs[i].editor = f.editor

\* Only its author takes unsaved text off the page: no answer, refresh, reload
\* or removal does, except that a reload leaves the text of a removed action in
\* its recovery copy, and loses the text of an overtaken one.
UnsavedTextIsKept ==
  [][~Author /\ ~met' =>
       \A i \in DOMAIN forms : Dirty(forms[i]) =>
         \/ OnPage(forms[i], forms')
         \/ forms[i].editor \notin Live(Version) /\ store'[forms[i].editor] = CopyOf(forms[i])
         \/ Reload /\ ~store[forms[i].editor].own]_vars

\* contracts.md: "dirty editor DOM and its older baseline remain in place until
\* save, discard or explicit conflict recovery".  A refreshed view takes no form
\* with unsaved text away.
DirtyEditorsStay ==
  [][fetch.phase = "refreshed" /\ Script =>
       \A i \in DOMAIN forms : Dirty(forms[i]) => Available(forms[i], forms')]_vars
=============================================================================
