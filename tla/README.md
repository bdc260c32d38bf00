# Living Memory workspace: formal models

TLA+ models of Living Memory (`src/src/living_memory/`): the player workspace, the
authority and the sessions of its users, the configuration of a game, the pages of
a dataset, backup and restore;
the TLC configurations that check them on small instances, and TLAPS proofs of
what matters most for every instance. The specification is the code: every
definition names, in `PROJECT.json` under `map`, the lines it stands for.

Run inside this directory:

    tlasany Workspace.tla
    tlc -workers 2 -config MCWorkspaceEditing.cfg MCWorkspace
    tlc -workers 2 -config MCActionEditor.cfg MCActionEditor
    tlapm WorkspaceProofs.tla WorkspaceHistoryProofs.tla DraftEditorProofs.tla
    tlapm TeamAuthorityProofs.tla ConfigurationProofs.tla RecoveryProofs.tla
    tlapm ActionEditorProofs.tla

## 1. The system

A FastAPI application over PostgreSQL. Teams of a game write one shared draft
package each turn (an overall intention and actions), one submitter per team
submits it, adjudicators decide late revisions, and administrators manage
accounts, roles and the configuration of the game. Requests run in threads of
one process; everything they share is in the database. Transactions are READ
COMMITTED and serialize by explicit row locks: a game row first, then rows of
users in a fixed order.

| Component | State it keeps | Operations | Correct when |
| --- | --- | --- | --- |
| Player workspace commands (`workspace_service.py`, `workspace.py`) | draft and revisions, submission, content versions, amendments, decisions, effective events, request keys | intention, action, remove, reorder, comment, submit, amend, decide; replay by key | no text is replaced unseen, a key makes one change, history is append-only, the submitted content is the reviewed one, no submission gets stuck |
| Effective history (`workspace.py`, `backup.py`) | `EffectiveVersionEvent` rows | appended by submit, amend, decide; derived again and compared by restore | what the commands write is what restore expects |
| Access and team authority (`admin_access.py`, `team_authority.py`) | memberships, roles, access requests, blocked teams | grant, change, remove, roles, replace submitter, review access, reconcile | one submitter a team, blocked exactly without an active one, a game keeps an administrator |
| Identity and sessions (`identity.py`) | users, passwords, sessions, throttle counters, audit, alerts | sign in, rotate, revoke, deactivate, register, bind, reset | a revoked session never acts, deactivation reaches every team it affects |
| Web command boundary (`workspace_web.py`, `forms.py`) | none: transactions and retries around `execute` | apply, page reads, conflict and confirmation answers | an answer says what happened to the command it names |
| Browser client (`static/app.js`) | per editor: authored text, clean baseline, version, key, discard target; per tab: pending command, recovery copies | save, retry, conflict choices, refresh, discard, restore | typed text is never lost or taken for saved, an unknown outcome is reconciled before anything else |
| Game configuration (`administration.py`, `clocks.py`) | games, configuration revisions, clock | create, revise, activate | the configuration that governs a turn cannot change under it |
| Backup and restore (`backup.py`, `db.py`) | archive, manifest, recovery guard | backup, verify, restore | a database that is not completely restored never serves |
| Datasets (`memory.py`, `seed.py`, `explorer.py`) | staged packages, versioned records and relationships, disclosures | stage, load, project, filter by time and disclosure, page | the pages of one view are complete and without repeats, nothing undisclosed is named, a package with a broken graph is never stored |
| Amendment comparison (`amendment_review.py`) | none | compare two packages | each difference is shown once, on its side |
| Administration pages (`web.py`) | none | handlers around the services | checks hold in the transaction that writes |
| Seeding, command line, wiring, migrations | static | load, create-admin, DDL | - |

Interactions. `app.js` posts a command to `workspace_web.apply`, which runs
`execute` in one transaction (retried on a database race) and then, for a refused command,
reads the page again in *another* transaction to build its answer. `execute`
authorizes, locks game and users, authorizes again, claims the request key,
checks the baseline and writes. Administrators change, in transactions of their
own and under the same game lock, the rows `execute` authorizes by;
`deactivate_user` must find the games it affects before it may lock them.
Restore re-derives the effective events from the other tables; while it works, a guard
schema keeps the application and the command line away from its target.
Configuration, activation and staffing of a game wait for one lock on the game row, but
judge by a clock read before they wait. Pages of a dataset are read statement by
statement, each at its own snapshot, up to a watermark taken by the first page.

What is hard here, and is listed line by line under `hazards`: pages that are
several saves old; deadlines and authority that change between a page and its
command; requests and answers lost, late or repeated; a reload in the middle; two
administrators at once; a lock order that shares of foreign keys do not follow;
answers put together from two transactions; limits counted without a lock; a clock read
before a wait; a recovery whose processes die one without the other.

## 2. Modules

| Module | Models | Checked by | Proved in |
| --- | --- | --- | --- |
| `Packages` | the package as a value and the pure functions on it | through `Workspace` | lemmas of the proofs about `Workspace` |
| `Workspace` | every command of `execute`, one action each | `editing`, `submission` | `WorkspaceProofs`, `WorkspaceHistoryProofs` |
| `SubmissionLedger` | abstract promise about one submission | `submission` (`KeepsLedger`) | `WorkspaceHistoryProofs` (`LedgerKept`) |
| `TeamAuthority` | administration and commands at the grain of row locks | `authority`, `authority_crossing` | `TeamAuthorityProofs` |
| `DraftEditor` | one page, the boundary, the network, the other sessions | `editor`, `editor_overwrite`, `editor_paused` | `DraftEditorProofs` |
| `ActionEditor` | the action forms of a page: creation, change of identity, removal, a command without a form | `actions`, `action_twins` | `ActionEditorProofs` |
| `Sessions` | accounts, passwords, sign-ins and sessions, statement by statement | `recovery` | `RecoveryProofs` |
| `Recovery` | backup, loss and restore around `Sessions` | `recovery` | `RecoveryProofs` |
| `Configuration` | creation, revision and activation of a game | `configuration` | `ConfigurationProofs` |
| `PackageGraph` | what `load_timeline` accepts of a package: pure functions | through `Memory` | `MemoryProofs`, in part |
| `Memory` | projections, packages and the pages read of either | `memory` | `MemoryProofs` |
| `MC*` | values for TLC | | |

The modules meet at the transaction. `Workspace` treats an authorized command as one
step, because `execute` decides everything after its game lock; `TeamAuthority`
opens that step up, down to each lock, and keeps only what it authorizes by;
`DraftEditor` keeps what of it reaches a page and is shown to implement
`Workspace` by a refinement mapping (`SavesAreDraftEdits`, proved in `DraftEditorProofs`). `Workspace` in turn implements
`SubmissionLedger`. `Recovery` extends `Sessions`: every step of a request interleaves
with the steps of a backup or a restore, which meet it in the committed database, in the table
locks (`frozen`) and in the guard (`blocked`). `Configuration` keeps of `TeamAuthority` which teams
have a submitter; `TeamAuthority` starts from the roster a configuration fixes.

### Workspace

`draft`, `revisions`, `submission`, `contents`, `amendments`, `decisions`,
`events` and `requests` are the tables of one (game, team, turn), as functions
from their keys. A command carries what a client may send: any version
there has been, a fresh or a used request key, any confirmation a page may have shown.
A refused command rolls back, its claim of a key included, and is no step. `now` is the
clock read after the locks; it does not go back. A deadline is fixed once its turn has
started, so it is a constant and only the effective version, the consequence and the
lateness of a confirmation vary. Texts are members of a small set: one
incomplete, the others complete. The body of an action stands for its fields
and its owner, which an edit writes together.

### TeamAuthority

A client runs one transaction: begin, (for a deactivation) discover the games,
lock games in order, lock users FOR UPDATE in order, check, flush rows, reconcile
team states, commit. Inserting a row that references an account takes a share of
that account's row (`wantShares`), which is PostgreSQL's behaviour, not a line of this code, and
is mapped as external. Any wait can end in an abort (statement timeout, deadlock
detector). Reads see committed rows; writes are invisible until `Commit`.
The roster is one team a game, so "another team of the game" is not
represented; deactivation is final (there is no reactivation in this code).

### DraftEditor

One form, the overall intention, since this is the text that everyone
shares and that has a baseline rule of its own. `form` holds the text, `dataset.baseline`,
the hidden `expected_version` and `key`, the discard target and whether its control is
"Retry save" (`pending`); `fetch` follows a save from dispatch through the server to
the refresh after it; `reread` is the "Retry refresh" button, with at most one repeated read on its way;
`copies` are requests the page gave up that may still arrive. `copy` and `stored` are what `sessionStorage`
holds: the recovery copy of the editor, and the command whose outcome is unknown. A refresh replaces a clean form
whatever it is doing (`app.js:147-175`), and "Retry refresh" can be pressed while a save is in flight. The form that was sent is then off
the page (`detached`, with its text in `left`) and its handler goes on: it writes the recovery copy of the form in its place
(`Overtake`), stores an unknown command, and shows comparison and retry where nobody sees them. Other sessions are one action, since a page only meets them
as a changed saved text. `shown`, `resolved` and `own` are history fields: the saved text presented together
with a version, whether that version came with a conflict answer, and whether the recovery copy was last written for the
form that is on the page. A
request key gets its number when a form first sends it. The page read of an answer is one
later step, although `enhanced_error` reads twice: the second read only widens the same gap.

### ActionEditor

The forms of the actions and the one that creates an action, with what `DraftEditor` has for one form. A form has
a place: the number of the action it was rendered for, 0 for the one that creates, and -a for a creator that became the
editor of a and found no place on a later page. `revisions` keep the whole package, as the identity of a created action is
what its revision added to the one before (`AddedIn`). A creation names no action, is compared with no baseline
(`Baseline`) and, once acknowledged, its form is the editor of that action, with the recovery copy moved along
(`StoreAcknowledged`). `Page` is `replaceCleanRegions`: which form stands where after a fresh view, which ones lost their
editor (`gone`), and what a reload restores. `store` and `stored` are `sessionStorage`, by editor identity: the recovery
copies and the commands whose outcome is unknown; here they are variables, since two forms can share an identity and an
identity can have no form. `unknown` is the last of those commands, `orphan` the panel `restoreOrphanedCommand` opens for it
when it has no form, `paused` the script's `unresolved`. The fields of an action are one text, which must not be blank to be
sent (`required`). Removal is a command of other sessions only: in the page it is a package command. `met` is a history
variable that ends what is promised of a page once two forms of one action met (`Twins`), the first of them in use (`InUse`):
`action_twins` shows what is lost then. A form that is replaced while it is sending goes on detached, as in `DraftEditor`; its
handler writes the copies of the identity it was sent under and of the one it takes (`Overtaken`). `unrefreshed` marks the form whose
refresh the retry button repeats, which is marked once more if it is still there (`Followed`). `told` counts the creations the page was told of and
those it gave up: one in flight at a reload, and one kept for a retry when another creation is sent, which takes a retry that no form
offers (the last of the failures of a retried refresh in section 3). A conflict of the panel's own command opens the comparison in the
panel; its choices are not modelled.

Two more consequences of a removal by others are in the model and in no run. After a reload `restore` asks for the recovery
copy of forms only, so the unsaved text of a removed action stays in `sessionStorage` and is offered nowhere (`app.js:95-99`;
`contracts.md:285` promises it for copy or discard, which holds until the reload). And the retry of an
unknown save is one of the buttons `addUnavailableRecovery` disables (`Sendable`, `app.js:133`), while the form is still there to keep
`restoreOrphanedCommand` from offering it (`app.js:105-106`): other saves stay paused until the page is loaded again.

### Sessions and Recovery

`db` is the committed database: accounts with a password (the number of the reset
that set it), sessions and login attempts. `tx` holds per client the request in hand and
how far it has come; a request goes from statement to statement wherever another
transaction can come between, and writes only with its commit. Row locks are read off the
others' positions (`RowLocked`, `UserLocked`, `CredentialLocked`), so that no
variable repeats them. A statement of PostgreSQL at READ COMMITTED that waits revokes the rows it saw, if
they are still open (`BeginRevoking`, `Revoke`). Any request can fail at any point
(`Lose`). Actions of `Recovery` are the steps of `create_backup` and `restore_backup`
between which a process can die; `child` is the `pg_restore` process, which may outlive its parent
and then commit or fail unheard. `Loss` replaces the database by an empty one, in which
nothing but the guard can be read. `origin`, `latest`, `lost`, `rivals` and `restored` are history variables.
`lost` and `rivals` are not excuses but name what the properties speak of: a reset that a rehash, or the
restore of an older archive, has overwritten, and two first administrators side by side.

Assumed: nobody rewrites an archive between the check of its checksum and
`pg_restore`, and the settings of a restore name another database than its target
(`backup.py` compares names only).

### Configuration

`revisions` is the table of configuration revisions of one game, in order of their sequence
number; a configuration keeps its roster, the teams its objectives name and its deadlines.
`Arrive` reads the clock, `LockGame` gets the row and makes every check of `revise_game`
or `activate_game` by that reading, the commits write. `staff` stands for the commands of
`TeamAuthority` that give or take a submitter or the adjudicator, which wait for the same lock. No code
moves a game beyond turn 1 or completes it. `terms` is a history variable: the deadline of
turn 1 at activation.

### PackageGraph and Memory

`PackageGraph` translates the checks of `load_timeline`: the walk along supersedes, the
resolution of references, and the depth-first search for cycles with its shared
`done` set, as recursive functions of one record each, the place of the walk (`Walk`) and the arguments of a visit (`Visit`), so
that their recursion can be reasoned about. `Memory` has the writers that project into the
operational dataset (order given at insert, seen at commit, `FOR UPDATE` on the
dataset between them), the loaders of a staged package, and readers whose page is four
statements: watermark, count, rows, names. `view` is a history variable: all the rows as they
were when the watermark was taken. `project_operational_object` has no caller under `src/` yet; its
callers are any transactions that project one or more objects and commit or not.

## 3. Runs

Eight runs pass, with 40 properties; four show a disagreement of code and documents. Each property
of a passing run is shown to depend on the code by a mutant (`PROJECT.json`):
the definition marked "Fault" takes the place of the one below it and TLC finds the
property violated.

| Run | Instance and bounds | Shows |
| --- | --- | --- |
| `editing` | three action identities, one complete text, five saves, symmetric actions | stale, repeated and reordered edits: `NoUnseenOverwrite`, `KeysMadeOneChange`, `LiveOrderIsAuthored`, `ReviewedIsSubmitted` |
| `submission` | no actions, two users, five draft versions, clock 0..2 around a deadline at 1 | the whole life of a submission: `RestoreAccepts`, `PendingIsDecidable`, `AcceptedOverReviewedBase`, `ConfirmedIsApplied`, `HistoryIsKept`, `KeepsLedger` |
| `authority` | three accounts, two games, thirteen kinds of initial rows; two concurrent requests of every kind, or a deactivation and up to four grants and removals; three attempts | `TypeOK` (the retry loop of `run_retryable` stays within its attempts), `BlockedIsTrue`, `OneSubmitter`, `CommitsAuthorized`, `RemovalLeavesAdmin` |
| `authority_crossing` | two accounts, two requests | violates `NoWaitCycle` |
| `editor` | two texts, two keys of the page, one save of others, two faults, fairness | `CleanTextIsStored`, `ReplacesWhatWasShown`, `OneRevisionPerKey`, `UnsavedTextIsKept`, `SaveEnds`, `OutcomeBecomesKnown`, `SavesAreDraftEdits` (71,022 states) |
| `editor_overwrite` | no fault at all, two saves of others | violates `NeverSilentlyOverwrites` |
| `editor_paused` | one fault | violates `OtherSavesArePaused` |
| `actions` | an empty draft, two interchangeable texts, two keys of the page, one save of others, two faults | `CreatedOnce`, `AnswerNamesItsAction`, `RecoveryKept`, `ConflictsAreOfTheAction`, `UnsavedTextIsKept` (1,016,041 states) |
| `action_twins` | one key, two faults (a lost answer, a reload) | violates `DirtyEditorsStay` |
| `recovery` | four starts: passwords around a reset; two signed-in users and deactivations, three requests at once; an empty installation; two archives, two operators, one loss | `GuessesAreBounded`, `ResetEndsEarlierSessions`, `AnAdministratorRemains`, `AdmissionsAreCurrent`; `ManifestDescribesArchive`, `ServedIsRestored`, `ServedStaysServed` |
| `configuration` | two teams and a reserved name, four proposals (later deadlines, another roster, an invalid one), three revisions, clock 0..2, two clients | `StartedTurnKeepsItsTerms`, `AnswersStand`, `ActivationIsStaffed` |
| `memory` | pages of one row; three orders for projections by two transactions; every supersession and nearly every reference graph over three records, loaded by two commands; a loaded package with hidden rows | `PagesAreOneView`, `NothingHiddenIsNamed`, `LoadedDatasetIsSound` |

Why the bounds are enough. Five draft versions hold a first submission, an
immediate revision, a late proposal, its decision and a further edit; three clock
values are before, at and after the deadline. Three actions are the fewest in which a removal can
leave a gap that a new action and a reordering both meet. Two concurrent
requests cover every pair of operations, and three attempts with churn in between
reach the last attempt and its refusal. In `editor` three revisions of two texts
contain the saved text moving away under a form and back, and two faults a lost answer
followed by a reload, a rejected retry or a late copy. Keys, revisions and
faults are bounded by the constants `Max*`. One more bound is in the actions of both editors: one repeated read of the view is on its way
at a time (`reread`), while the button can be pressed again before the answer; a second read would bring a view of the same kind. The invariants and the refinement of `editor` are proved for all bounds; its
liveness was also checked once with two saves of others (553,270 states). In `actions` two keys are a creation and an edit of what it created
or a second creation, the save of others an action created between a request and its replay, and two
faults a lost answer followed by a reload or by a late copy. All five properties are proved for all bounds. The refusal of an edit over the very version that removed its action (`"invalid"`) takes two
saves of others and is beyond these bounds. In `recovery` three requests hold
a sign-in, the reset it overlaps and the page that uses the result; a username limit of one and a source limit of two
make each the one that refuses; one loss with two operators has a dead restore, its
`pg_restore` going on and a second restore of the same target, of the same archive or another. In
`configuration` two clients are one that waits and one that overtakes, and three revisions the one
of turn 1, one that replaces it and one for turn 2. In `memory` a page of one row makes every row a cut; two times
make ties and late arrivals; three records are the fewest with a cycle that is not a pair and with a branching
walk. `MaxOrder` 4 was checked as well.

Deadlock is not checked in the runs of `TeamAuthority`, `recovery`, `configuration` and `memory`: they stop when
their requests, revisions or loads are used up. In the other runs some step is always possible (a
replay, typing).

Fairness. All modules but `DraftEditor` promise safety only, so their
specifications assume none. `DraftEditor!Fairness` is weak fairness of the
server (a request that arrived is processed), of the page's script (an
answer that arrived is handled: an event loop), and of `Retry`: a user who is told that an outcome
is unknown and that other saves are paused eventually presses the button offered. Nothing is
assumed about typing, saving, arrival of lost copies or other sessions. That faults are
bounded stands for a network and an authority that are eventually back; with faults
forever no outcome could become known.

### Findings

- **Lock order.** `workspace_service.py:296` and `contracts.md:408` name the
  order game, then sorted users. Shares that audit rows take on their author
  are outside of it: an edit naming an owner and a deactivation of that owner by the
  same author's account wait for each other (`authority_crossing`).
- **Conflict answers mix two transactions.** `conflict.current` is read by the
  transaction that is refused, the version beside it by a later one. If another
  session saves in between, "Save mine" replaces a text that was never shown,
  and "Use current" loads a text under the version of another (`editor_overwrite`); `contracts.md:128` says
  "never silently overwrite", `contracts.md:283` "Current and its matching revision".
  `ReplacesWhatWasShown` in `editor` shows that no save without such a comparison can do this.
- **"Other saves are paused".** After "Save mine" the comparison stays open. If
  that save ends unknown, pressing "Save mine" again sends a new command with a
  new key, although `app.js:326` and `decisions.md:432` promise that only the original
  is retried (`editor_paused`). The other properties hold nevertheless: the
  baseline check catches the repetition.

- **Two forms of one action.** The answer to a creation is lost, the page reloaded: the action has a form, and
  the form that created it still offers the retry. Acknowledged, that becomes a second editor of the action, and the next refresh keeps only
  the last of the two, although `contracts.md:262` says that dirty editors remain in place (`action_twins`).

- **A retried refresh takes a sending form away.** The refresh after a save fails and "Retry refresh" is offered.
  The user sends the editor again, without a change or with one taken back, and presses that button; its view replaces the clean form
  (`app.js:156-158`, nothing asks whether it is sending). Its answer then finds a form that is not on the page. No run expects these as
  violations; the properties except them by name. TLC showed the first three when the exceptions were left out, and the last along
one behaviour of 47 steps given to it, far beyond the bounds of `actions`.
  - *Lost recovery copy.* What is typed in the form that took the place is kept under the same key of `sessionStorage`. The acknowledgement
    erases it or stores the text of the form taken away (`app.js:186`); a reload before the next keystroke loses the typing. The page itself
    keeps it. The steps in `DraftEditor`: `Submit`, `Acknowledged`, `RefreshFails`, `Submit`, `RetryRefresh`, `Rereaded`, `Type`,
    `Acknowledged`, `Reload`. `UnsavedTextIsKept` (of both modules) excepts a reload after that (`~copy.own`), `RecoveryKept` such a copy.
  - *Locked page.* If the answer is lost instead, `app.js:326` marks the form taken away as pending and sets `unresolved`: `app.js:268` refuses every
    form, no "Retry save" is on the page, and only a reload brings it (`app.js:98`). `OutcomeBecomesKnown` speaks of outcomes the page offers to retry.
  - *A retry without a command.* A form that took the place of one that retries has "Retry save" too. When the first is answered, the stored command is
    gone, and the button does nothing (`app.js:269`, `if (!frozen) return`) until a reload or "Save mine"; it is not announced.
    In the models this is a form that is `pending` with nothing `stored`, which neither `Submit` nor `Retry` takes.
  - *A second creation.* In `ActionEditor` a creation taken back by "Cancel" while it is in flight leaves a clean form, which a retried refresh takes
    away; if its answer is lost, its outcome is unknown and no form offers the retry. The pause is lifted by the answer to another save (one that
    "Save mine" sends from a form that is still pending for a command its panel has settled), and then another creation can be sent, although
    `decisions.md:432` asks for the first to be reconciled before. The command stored for the first is then overwritten or cleared; `told` counts it as given up.

- **What three other properties except.** Each exception is a failure the code allows, too narrow to be refused by a rule anyone wrote; TLC showed each when the exception was left out
  (the two deactivations from an installation where both administrators sign in).
  - *Two first administrators* (`rivals`, `AnAdministratorRemains`). `cli.py:100` counts the administrators without a lock, so two `create-admin` side by side
    both pass it; each of the two may then deactivate the other (`web.py:677` refuses only one's own account), side by side as well, and none is left.
  - *A reset overtaken by a sign-in* (`lost`, `crossed`, `ResetEndsEarlierSessions`). A sign-in that read the credential before a password reset and rehashes it
    (`identity.py:423`) writes the old password back after it; one that was verified before the reset stores its session after it.
  - *An old clock* (`JudgedByThePast`, `StartedTurnKeepsItsTerms`; `AnswersStand` speaks of settled instants). A revision takes its time before it waits for the game's lock. One that
    waited while another was recorded and the game activated is compared (`administration.py:264-267`) with the configuration that governed at its own, earlier time: its plan may state
    another deadline for the turn that has started.

## 4. Proofs

`WorkspaceProofs` proves about `Workspace`, for any users, texts, action identities,
deadline and bounds, using only the module's assumptions (`BlankAssumption`: the
blank text is a text; `NumberAssumption`: deadline and bounds are naturals):

| Theorem | States |
| --- | --- |
| `Inductive` | `Spec => []IInv` |
| `TypeCorrect` | `Spec => []TypeOK` |
| `ReviewedStored` | `Spec => []ReviewedIsSubmitted` |
| `PendingStaysDecidable` | `Spec => []PendingIsDecidable` |
| `AcceptedOverBase` | `Spec => []AcceptedOverReviewedBase` |
| `HistoryRestores` | `Spec => []RestoreAccepts` |

The argument. None of these is inductive alone. Restore compares
*all* events with *all* contents and decisions, so a step that adds one row needs to
know where every other row came from. The inductive invariant is
`IInv == TypeOK /\ HistoryInv /\ PackageInv`. `PackageInv` says that the draft is
the package of its newest revision, and gives what a submission stores. `HistoryInv`
has six parts:

- `Numbered`: contents are 1..n without gaps, and a submission exists exactly when
  there is one, with the deadline of the turn;
- `Provenance`: each content is the initial one, an immediate revision before the
  deadline, or an amendment; which decides if it has an event, of which kind, by whom and when;
- `Decided`: an amendment has a decision exactly when it is no longer pending, and it agrees;
- `EffectiveIsNewest`: the effective version is the newest content with an event;
- `PendingIsNewest`: only the newest content can be pending, over the effective version,
  and the status of the submission tells;
- `BaseIsPredecessor`: the base of an accepted amendment was the event before it.

`Provenance` gives equality with the events restore expects; `PendingIsNewest` with
`EffectiveIsNewest` keeps `BaseIsPredecessor` when a decision appends an event.
The proof has one lemma for each kind of step (edit, first submission, immediate
revision, proposal, decision, tick, replay) and one step for each part it touches.

`WorkspaceHistoryProofs` continues from `IInv` with the rest of what the runs check of `Workspace`:

| Theorem | States |
| --- | --- |
| `HistoryStays` | `Spec => HistoryIsKept` |
| `EffectiveMoves` | `Spec => EffectiveMovesByRule` |
| `LedgerKept` | `Spec => KeepsLedger` (the refinement of `SubmissionLedger`) |
| `KeysOnce` | `Spec => []KeysMadeOneChange` |
| `ConfirmedApplied` | `Spec => []ConfirmedIsApplied` |
| `NoneUnseen` | `Spec => []NoUnseenOverwrite` |
| `OrderAuthored` | `Spec => []LiveOrderIsAuthored` |

The argument. `Claimed`, `Saved`, `Stored` and `DecidedNow` say once what a step writes: a key
nobody used, the next version, the next content, a decision on the newest content. So no row is
written twice (`StepKeepsRows`). `LedgerStep` maps each kind of step to one of the ledger's; that the
mapped `pending` is the newest content exactly while the status says so is `PendingIsNewest`. Three
invariants are added to `IInv`. `KInv` names for each version and decision the one
key that made it. `AInv` compares every completion with the rows: what follows a content
has a higher number, so it cannot change what was effective before it. `UInv` says that each saved package replaced only what
its author saw (`Harmless`), and that positions are distinct among live actions and below the
number of rows (`Ordered`), which is why the next action can be put there.

`DraftEditorProofs` proves about `DraftEditor`, for any texts and bounds, using
`EditorAssumption` only (the blank text is a text, the bounds are naturals):

| Theorem | States |
| --- | --- |
| `EditorInductive` | `Spec => []IInv` |
| `EditorTypeCorrect` | `Spec => []TypeOK` |
| `CleanTextAlwaysStored` | `Spec => []CleanTextIsStored` |
| `SavesReplaceWhatWasShown` | `Spec => []ReplacesWhatWasShown` |
| `KeysNameOneRevision` | `Spec => []OneRevisionPerKey` |
| `AnswersNameTheirRevision` | `Spec => []AnswerNamesItsRevision` |
| `UnsavedTextAlwaysKept` | `Spec => UnsavedTextIsKept` |
| `EditorImplementsDraft` | `Spec => SavesAreDraftEdits` (the refinement of `Workspace`) |

The argument. A revision is judged when it is made, but the text and version it names were
put together long before, and may meanwhile have been in the form, the stored
command, a request in flight, one left behind, a discard target or a page
that was read. `IInv` therefore says of each of those places that its text is the one
of its version, unless it came with a conflict answer (`GoodForm`, `GoodCommand`,
`GoodFetch`, `GoodReread`). A step that saves nothing keeps it if what it assigns
is good (`QuietStep`); a save keeps it since versions only grow (`Grown`,
`StillGood`) and `Baseline` lets a command through only over the text it names
(`BaselineIsShown`, `SaveKeepsHistory`).

That unsaved text stays over a reload takes a fact about the recovery copy, `CopyFits`: it is that of the form on the page, unless the handler
of a form taken away wrote it since; then no page in hand is older than it, so that the form it is restored into takes for saved what was
saved at its version or later (`CleanCopyIsOvertaken`). While a form taken away is sending, no further read is on its way. `UnsavedTextAlwaysKept` holds with the one exception of the property: a reload over a copy that is not the form's own.

The refinement needs one thing more. `Workspace` bounds the versions of a draft, and `DraftEditor` bounds the keys of the page and the saves of
other sessions; `Keyed` says that what is sent, was given up or has an unknown outcome has a key, and that the revisions without
one (`Elsewhere`) are within the bound of the others. As no two revisions share a key of the page, versions stay
within the sum (`VersionsBounded`). Then every `Save` is an `EditIntention` of `Workspace` under the fresh
key of its version (`SaveIsEdit`), every other step a stutter (`NoSaveIsStutter`), and so is each of the handlers (`StepIsDraftStep`).

`TeamAuthorityProofs` proves about `TeamAuthority`, for any accounts, games, clients, requests, worlds to
start from and bounds, using `AuthorityAssumption` only: types; finitely many accounts; in the rows to start from
blocked teams are right, a team has at most one submitter, and an account that still waits for
access has no place in a team (registration creates it without one and `eligible_target` admits active accounts only):

| Theorem | States |
| --- | --- |
| `Invariance` | `Spec => []IInv` |
| `AuthorityTypes` | `Spec => []TypeOK` |
| `BlockedStaysTrue` | `Spec => []BlockedIsTrue` |
| `SubmitterIsOne` | `Spec => []OneSubmitter` |
| `CommitterAuthorized` | `Spec => CommitsAuthorized` |
| `AdminRemains` | `Spec => RemovalLeavesAdmin` |

The argument. `Rows` says for each row what a request makes of it, once for all nine operations (`AfterWritten`).
Of every transaction `IInv` says which locks it has and wants (`Held`), that no other holds the same (`Apart`), and that
what it was checked by, and the blocks it computed, are still right (`Checked`). The core is `Undisturbed`: whatever another commits, that stays.
A commit changes only places in the game it has locked. It changes the status of an account in two ways. A deactivation has every
game of that account and the account itself, so an account that another counts on as author, submitter or remaining administrator
is either held by that other, by FOR UPDATE or by the share of a flushed row, or its game is (`DeactivatedElsewhere`). An approval admits an
account that waited, which nobody counts on yet (`Orderly`).
A deactivation's set of games stays complete because a grant shares the account before it commits (`DeactivationsKept`); this is
the reason that the discovery is repeated under the lock.

`ConfigurationProofs` proves about `Configuration`, for any teams, actors, deadlines, proposals,
clients and bounds, using `ConfigurationAssumption` only (types of the constants):

| Theorem | States |
| --- | --- |
| `Invariance` | `Spec => []IInv` |
| `TypesHold` | `Spec => []TypeOK` |
| `TermsAreKept` | `Spec => []StartedTurnKeepsItsTerms` |
| `RosterIsKept` | `Spec => []Configurations` (all revisions have one roster, all are valid) |
| `ActivatedStaffed` | `Spec => ActivationIsStaffed` |
| `PastStands` | `Spec => AnswersStand` |

The argument. A request is checked with an old clock and commits later, so `IInv` says of
every transaction past the lock that what it was checked by still holds (`Commits`), which is true
as nobody else is past it (`Locking`). `Statuses` and `Clocks` say that
before activation every row is of turn 1 and that no row is recorded in the future. A revision that waited may be
recorded earlier than rows that precede it; its own row then
governs nothing that the activation used (`LaterRowIsUnknown`), or it is one of those the property excepts.
`configuration_at` is a CHOOSE of the greatest row in an order by turn and sequence;
that there is a greatest one (`GreatestExists`) is proved from the well-founded order of the subsets of a finite set.

`RecoveryProofs` proves about `Recovery` with `Sessions`, for any accounts, sources, clients, operators,
archives, limits and bounds, using `SessionsAssumption` (types; an installation starts with at most one
administrator, active, with its sessions numbered, and before anyone tried to sign in or reset a password) and `RecoveryAssumption` (losses are bounded by a natural):

| Theorem | States |
| --- | --- |
| `Invariance` | `Spec => []IInv` |
| `TypesHold` | `Spec => []TypeOK` |
| `AdmissionsCurrent` | `Spec => AdmissionsAreCurrent` |
| `OneAdministratorRemains` | `Spec => []AnAdministratorRemains` |
| `GuessesBounded` | `Spec => []GuessesAreBounded` |
| `ResetsEndSessions` | `Spec => []ResetEndsEarlierSessions` |
| `ManifestsDescribe` | `Spec => []ManifestDescribesArchive` |
| `ServedRestored` | `Spec => []ServedIsRestored` |
| `StaysServed` | `Spec => ServedStaysServed` |

The argument. `IInv == SInv /\ RInv`. `SInv` is about the requests: what one holds past the lock on its session
is still open and of an account still active (`Holds`), since no other holds that row (`Apart`) and a deactivation
in hand has seen every open session of its account, because a new one waits for it; a pending deactivation is by the
administrator and of someone else (`Administers`). One lemma (`Keeps`) reduces every step to what its client
holds afterwards and what the others keep (`HoldsOn`, `AdministersOn`, `ApartOn`); `EndKeeps` is its case of a step that ends the
request. `RInv` is about backup and restore: what an archive holds was a whole database
and its manifest counts it (`Files`); a backup's tables are as they were from its snapshot to its inventory
(`BackingUp`); one restore is past its lock, behind its guard or over an empty target, and an orphaned pg_restore
finds a guard or a database in its way (`Restoring`); what there is after a loss comes from one archive (`FromArchive`).
The two meet in `Effects`, what a request may do to a backup or restore, and in `Blank`: over an empty target no request
is past its first read, so what pg_restore commits disturbs none.

`GuessesBounded` and `ResetsEndSessions` each add an invariant to `IInv`. `GInv` counts, in every window, the failures recorded
together with the sign-ins that have passed the count and will record theirs (`Counted`): the sum stays below the
limit and the requests in flight, and since an archive bears the same bound (`GuessesArchived`) so does what is
restored. `PInv` compares passwords: none is newer than the last reset; where it is that of the last reset, so are those
of the open sessions, but for sign-ins that overlapped (`Follows`); and a reset that waited to revoke saw every session
but those (`Overlaps`). A restored archive is of one time (`PasswordsArchived`): either it has the last reset, or
its account is in `lost`.

`MemoryProofs` proves about `Memory`, for any records, users, scopes, times, packages and bounds, using `MemoryAssumption` only (a page has
room for a row; records have distinct ranks, as UUIDs do, and `None` is no record; of a package the records are finitely many and all ranked; times are naturals):

| Theorem | States |
| --- | --- |
| `Invariance` | `Spec => []IInv` |
| `PagesOneView` | `Spec => []PagesAreOneView` |
| `NothingHidden` | `Spec => []NothingHiddenIsNamed` |
| `LoadedSound` | `Spec => []LoadedDatasetIsSound` |

The argument. A later page is cut from the rows of a later time, so what has to be shown is that the rows a watermark selects
never change. `Projected` says that at most one transaction has rows that are not committed and that they come after all
others; `Behind`, that they then come after every watermark handed out, and that a package gets no rows once it is there.
Hence `PagingStays`: a step of a writer changes nothing of what a reader in the middle of its pages selects. `Sorted` is
a bijection of the rows with 1..n (`SortedRows`), so the rows behind a cursor at place k are those at the places above k
(`SortedTail`). `Paging` puts it together: the pages shown are the first k rows of the view and the cursor is the k-th (`Progress`), and
the rows in hand are the next (`InHand`). `NothingHidden` follows, as every row of the view was selected and named by what its reader may see.

`LoadedSound` needs the algorithms. A relation has no circle when every non-empty set of records has one that leads
to none of the set (`Grounded`). That both recursions are defined is shown first, each time by `Counting`, induction over the
naturals stated with a set: a walk leaves fewer records outside those passed (`WalkUnfolds`), a visit fewer outside its path
(`VisitUnfolds`), and the fold over the targets fewer targets (`VisitsUnfold`). What all visits keep, the visits of a
record's targets keep (`VisitsKeep`), and what one of them brings about is there after all (`VisitsBring`). With these: a walk that
starts in a set closed under supersession never ends well (`WalkInCircle`), and a search that enters a set whose every record
leads back into it never takes a record of it for done, and reports a cycle (`SearchInCircle`, `NoCircle`). So what is
accepted is grounded (`AcceptedIsGrounded`), and what is written is what was accepted (`LoadIsSound`); that one command wrote it is in `Inserts`.

`ActionEditorProofs` proves about `ActionEditor`, for any texts, any draft the page is opened on and any bounds,
using `ActionAssumption` only (types of the constants; the actions of the opened draft are not blank):

| Theorem | States |
| --- | --- |
| `Typed` | `Spec => []TypeOK` |
| `AnswersNameTheirAction` | `Spec => []AnswerNamesItsAction` |
| `ConflictsAreWithTheirAction` | `Spec => []ConflictsAreOfTheAction` |
| `RecoveryIsKept` | `Spec => []RecoveryKept` |
| `UnsavedTextStays` | `Spec => UnsavedTextIsKept` |
| `ActionsAreCreatedOnce` | `Spec => []CreatedOnce` |

The argument has three layers. `BInv` is about the rows and what refers to them. `Rows` says that a key is claimed once
(`Counted`), that from one version to a later one an action stays and only a command of its own changes it (`Carried`), and that
a command of this page left its text in the action it names or in one more (`Kept`). Every form, copy, target, comparison and
command, on the page, stored, in flight or left behind, refers to a version that knows its action (`Known`). So a replay finds the
action its revision added (`ReplayIsNamed`), and a scope that differs from the one a command was made over was changed
by a command of the action (`Later`, `ConflictIsChanged`).

`EInv` is about the forms. `CInv`: a place tells the editor that stands there, and only the form of the
command in flight is sending, none while the sender is one that was taken off the page (`OneSender`). `DInv`: until two forms met, what is
unsaved is in the copy of its editor, unless that copy was last written for a form taken away (`CopiesIn`), and no editor is in use twice.
A step that changes no unsaved text and no copy but those it overtakes keeps this (`StoreCalm`, `CalmKept`). The core is `PageFrom`: every form of a fresh page is either new, and then nobody had unsaved text of its editor, or holds
the unsaved text of exactly one form before it. From it follow that no text is left out (`AllTaken`), that
a page has one form of each editor (`OneEditor`) and that the copies fit it (`StorePage`). `TextStays` is what a step promises of
unsaved text; a reload keeps it by the copies (`ReloadKeeps`), every other view by `ViewKeeps`.

`FInv` is about the keys. Creations are counted by them, as `Counted` lets no two rows have one, so the question is where the
key of a creation can be. `KeysApart`: a key, wherever it is held, is one of a creation or one of an edit. `Outstanding` is the
creation in flight, or else the one kept for a retry; `OnItsWay` says of both that they are their keys' only commands, and that nothing else has the
key before a first attempt is committed. `Creators`: the form that creates has no comparison and no discard target with a key; a key it
has without offering a retry is that of the creation it is sending itself, or else nothing is kept and nobody sent that key. `Panelled`: what is
sent neither by a form nor by one that was taken away (`SentByPanel`) creates nothing. So a creation is never refused for its key or a baseline (`CreationIsSaved`), and one that ends is
either kept for a retry (`KeptForRetry`, `KeptBeside`) or the page is told of it or gave it up, unless it was refused before its key was used (`Settled`): the keys of
creations beside the outstanding one, executed, still to arrive or kept (`Behind`), are at most as many as the page was told of or gave up. Every
other step is `Aside` of the creation (`AsideKeeps`). `FInv` was checked with TLC before it was proved.

A type invariant is an invariant of a run only where it says something of its own (`TypeOK` of `TeamAuthority` bounds the attempts).
Those of `Workspace`, `DraftEditor`, `ActionEditor`, `Configuration` and `Recovery` are proved and need no run; so are `EffectiveMovesByRule` of `Workspace` and
`AnswerNamesItsRevision` of `DraftEditor`, which the runs leave to the proofs.

Every safety property, every action property and both refinements of the passing runs are thus theorems. What stays with TLC:
liveness (`SaveEnds`, `OutcomeBecomesKnown`), as the prover does not handle ENABLED, on which fairness rests; and the four
runs that expect a violation, `NoWaitCycle` of `TeamAuthority` among them (section 3).

## 5. Not modelled, and why

- Imported packages, coordination and RFI tables: schema without a handler.
- Amendment comparison (`amendment_review.py`): a pure comparison for display. It changes nothing and
  decides nothing; `Workspace` keeps what it compares.
- Authorship of Workspace commands beyond submissions and decisions: it is stored
  and never decided on.
- Validation errors, parsing, HTML, focus and wording: no state of the server
  or of a save depends on them.
- In the page: package commands, comments (they append as a creation does, without a change of
  identity), unavailable storage, the change of the
  signed-in user, a second "Retry refresh" before the first is answered, and the choices of a comparison that opens in the
  panel of a command without a form.
- Pages of the workspace built from several rows: the form modelled takes text and version from one row.
- A retried command after the turn has advanced: no operation of this code
  advances a turn.
- External identity providers, group mappings and alerts: what they grant enters as
  memberships; the provider is not part of the code.
- In datasets: text search, filters by type, role and effective time, pointers removed from a body, and the
  explorer, which is a display of `read_memory`.
- Restore of tables other than accounts, sessions and (in `Workspace`) the effective history: they
  are counted and compared in the same way.
- Migrations and argument parsing: they run alone, before anything is served.

## 6. Plan

Done: all modules of section 2. What would add most, in this order:

1. Comments and package commands of the page beside the editors of `ActionEditor`.
