------------------------------- MODULE Recovery ------------------------------
(***************************************************************************)
(* Backup, loss of the database and restore, while the application of      *)
(* Sessions goes on serving: backup.py, with the guard schema lm_recovery  *)
(* that app.py, cli.py and resolve_session obey.                           *)
(*                                                                         *)
(* db is the database the application is pointed at: first the source,     *)
(* after Loss an empty target created from template0.  The processes       *)
(* (create_backup, each restore_backup and the pg_restore it starts) may    *)
(* die between any two steps; a dead process loses its locks, pg_restore    *)
(* may go on without its parent.                                           *)
(*                                                                         *)
(* Assumed: nobody rewrites an archive between the check of its checksum   *)
(* and pg_restore; the settings of a restore name another database than    *)
(* its target.  Schema and tool versions are those of the application.     *)
(* "Fault" marks a plausible bug.                                          *)
(***************************************************************************)
EXTENDS Sessions

CONSTANTS
  Archives,      \* paths a backup may be written to
  Operators,     \* those who may run restore_backup
  MaxLosses      \* bound: losses of the database, in scenarios with archives

ASSUME RecoveryAssumption == MaxLosses \in Nat

VARIABLES
  file,          \* per path: the archive and the manifest beside it
  backup,        \* the create_backup in hand
  restore,       \* the restore_backup of each operator
  child,         \* the pg_restore each of them has started
  losses,
  restored       \* history: the archive that pg_restore committed, with its manifest

recoveryVars == <<file, backup, restore, child, losses, restored>>

allVars == <<vars, recoveryVars>>

EmptyDatabase ==
  [schema |-> FALSE,
   users |-> [u \in Users |-> [state |-> "absent", password |-> 0, admin |-> FALSE]],
   sessions |-> [t \in Tokens |-> NoRow], attempts |-> <<>>]

\* _domain_inventory_session: rows counted, what they hold is not compared.
DomainInventory(d) ==
  [users |-> Cardinality({u \in Users : d.users[u].state # "absent"}),
   global_roles |-> Cardinality({u \in Users : d.users[u].admin}),
   deactivated_users |-> Cardinality({u \in Users : d.users[u].state = "inactive"}),
   sessions |-> Cardinality({t \in Tokens : d.sessions[t] # NoRow})]

Inventories ==
  [users : 0 .. Cardinality(Users), global_roles : 0 .. Cardinality(Users),
   deactivated_users : 0 .. Cardinality(Users), sessions : 0 .. MaxTokens]

NoFile == [state |-> "none"]

\* A path taken by touch and not completed: its archive is worth nothing.
Touched == [state |-> "touched"]

\* The manifest is written after the archive; checksum stands for the content it was
\* taken of.
NoManifest == [written |-> FALSE]

Archive(content, manifest) ==
  [state |-> "dumped", content |-> content, manifest |-> manifest]

Manifest(inventory, content) ==
  [written |-> TRUE, inventory |-> inventory, checksum |-> content]

NoJob == [pc |-> "idle"]

NoChild == [state |-> "none"]

IsArchive(f) ==
  /\ f.content \in Database
  /\ \/ f.manifest = NoManifest
     \/ f.manifest.written /\ f.manifest.inventory \in Inventories
        /\ f.manifest.checksum \in Database

TypeOK ==
  /\ SessionsTypeOK
  /\ \A a \in Archives : file[a] \in {NoFile, Touched} \/ IsArchive(file[a])
  /\ \/ backup = NoJob
     \/ backup.pc \in {"dump", "inventory", "manifest"} /\ backup.archive \in Archives
  /\ restore \in [Operators -> {NoJob} \cup
        [pc : {"own", "prove", "guard", "run", "revoke", "verify", "confirm", "unblock"},
         archive : Archives]]
  /\ \A r \in Operators : child[r].state \in {"none", "running", "committed", "failed"}
  /\ losses \in 0 .. MaxLosses
  \* the locks of a backup are held exactly while it reads
  /\ frozen <=> backup.pc \in {"dump", "inventory"}
  \* one restore at a time has gone past the advisory lock
  /\ Cardinality({r \in Operators : restore[r].pc \notin {"idle", "own"}}) <= 1

Init ==
  /\ SessionsInit
  /\ file = [a \in Archives |-> NoFile]
  /\ backup = NoJob
  /\ restore = [r \in Operators |-> NoJob]
  /\ child = [r \in Operators |-> NoChild]
  /\ losses = 0
  /\ restored = NoFile

-----------------------------------------------------------------------------
(***************************************************************************)
(* create_backup.                                                          *)
(***************************************************************************)
BackupKeeps ==
  /\ UNCHANGED <<db, blocked, clock, tx, issued, started, scenario, history>>
  /\ UNCHANGED <<restore, child, losses, restored>>

\* Fault: the tables are not locked.
NoTableLocks == FALSE

\* LOCK TABLE ... IN SHARE MODE holds off every writer.
LocksTables == TRUE

\* It waits for the transactions that have written, then the path is taken: an
\* existing archive or manifest is refused before.
StartBackup(a) ==
  /\ scenario.archives
  /\ backup = NoJob /\ file[a] = NoFile
  /\ ~blocked /\ db.schema
  /\ \A c \in Clients : ~At(c, "revoke")
  /\ frozen' = LocksTables
  /\ file' = [file EXCEPT ![a] = Touched]
  /\ backup' = [pc |-> "dump", archive |-> a]
  /\ BackupKeeps

\* pg_dump reads one snapshot.
Dump ==
  /\ backup.pc = "dump"
  /\ file' = [file EXCEPT ![backup.archive] = Archive(db, NoManifest)]
  /\ backup' = [backup EXCEPT !.pc = "inventory"]
  /\ UNCHANGED frozen /\ BackupKeeps

\* pg_dump fails: its file is removed and the transaction ends.
DumpFails ==
  /\ backup.pc = "dump"
  /\ file' = [file EXCEPT ![backup.archive] = NoFile]
  /\ backup' = NoJob /\ frozen' = FALSE
  /\ BackupKeeps

\* The inventory is read under the same locks, which then go.
TakeInventory ==
  /\ backup.pc = "inventory"
  /\ backup' = [pc |-> "manifest", archive |-> backup.archive,
                inventory |-> DomainInventory(db)]
  /\ frozen' = FALSE
  /\ UNCHANGED file /\ BackupKeeps

WriteManifest ==
  LET f == file[backup.archive]
  IN /\ backup.pc = "manifest"
     /\ file' = [file EXCEPT ![backup.archive].manifest = Manifest(backup.inventory, f.content)]
     /\ backup' = NoJob
     /\ UNCHANGED frozen /\ BackupKeeps

KillBackup ==
  /\ backup # NoJob
  /\ backup' = NoJob /\ frozen' = FALSE
  /\ UNCHANGED file /\ BackupKeeps

-----------------------------------------------------------------------------
(***************************************************************************)
(* What happens from outside.                                              *)
(***************************************************************************)
\* The database is lost with every connection to it, or a guarded target is disposed
\* of, and the application is pointed at an empty target.
Loss ==
  /\ scenario.archives
  /\ losses < MaxLosses /\ losses' = losses + 1
  /\ \A r \in Operators : restore[r] = NoJob /\ child[r].state # "running"
  /\ db' = EmptyDatabase /\ blocked' = FALSE
  /\ tx' = [c \in Clients |-> NoTx]
  /\ backup' = NoJob /\ frozen' = FALSE
  /\ UNCHANGED <<clock, issued, started, scenario, history>>
  /\ UNCHANGED <<file, restore, child, restored>>

\* An archive is copied over another one, whose manifest stays.
Overwrite(a, b) ==
  /\ file[a].state = "dumped" /\ file[b].state = "dumped" /\ file[a].content # file[b].content
  /\ backup = NoJob
  /\ \A r \in Operators : restore[r] = NoJob /\ child[r].state # "running"
  /\ file' = [file EXCEPT ![a].content = file[b].content]
  /\ UNCHANGED <<vars, backup, restore, child, losses, restored>>

-----------------------------------------------------------------------------
(***************************************************************************)
(* restore_backup, step by step.                                           *)
(***************************************************************************)
\* Fault: the checksum is not compared.
HasManifest(a) == file[a].state = "dumped" /\ file[a].manifest.written

\* verify_backup.
Verified(a) ==
  /\ file[a].state = "dumped" /\ file[a].manifest.written
  /\ file[a].manifest.checksum = file[a].content

Step(r, pc) == restore' = [restore EXCEPT ![r].pc = pc]

\* The connection that holds the advisory lock is closed; a guard stays.
Stop(r) == restore' = [restore EXCEPT ![r] = NoJob]

RestoreKeeps ==
  /\ UNCHANGED <<frozen, clock, tx, issued, started, scenario, history>>
  /\ UNCHANGED <<file, backup, losses>>

StartRestore(r, a) ==
  /\ restore[r] = NoJob /\ child[r].state # "running"
  /\ Verified(a)
  /\ restore' = [restore EXCEPT ![r] = [pc |-> "own", archive |-> a]]
  /\ UNCHANGED <<db, blocked, child, restored>> /\ RestoreKeeps

\* Fault: no advisory lock.
NoOwner(r) == TRUE

FreeToOwn(r) == \A s \in Operators \ {r} : restore[s].pc \in {"idle", "own"}

Own(r) ==
  /\ restore[r].pc = "own"
  /\ IF FreeToOwn(r) THEN Step(r, "prove") ELSE Stop(r)
  /\ UNCHANGED <<db, blocked, child, restored>> /\ RestoreKeeps

\* _prove_empty: what pg_restore has not committed is not seen.
ProveEmpty(r) ==
  /\ restore[r].pc = "prove"
  /\ IF db.schema THEN Stop(r) ELSE Step(r, "guard")
  /\ UNCHANGED <<db, blocked, child, restored>> /\ RestoreKeeps

\* CREATE SCHEMA IF NOT EXISTS, committed; then pg_restore starts.
Guard(r) ==
  /\ restore[r].pc = "guard"
  /\ blocked' = TRUE
  /\ child' = [child EXCEPT ![r] = [state |-> "running", archive |-> restore[r].archive]]
  /\ Step(r, "run")
  /\ UNCHANGED <<db, restored>> /\ RestoreKeeps

\* Its exit code is for the parent, if that still waits.
Exit(r, state) ==
  child' = [child EXCEPT ![r] = IF restore[r].pc = "run" THEN [state |-> state] ELSE NoChild]

\* --single-transaction: all of the archive, over nothing but an empty target (a
\* second pg_restore waits for the first to end and fails on what it created).
ChildCommits(r) ==
  /\ child[r].state = "running" /\ ~db.schema
  /\ db' = file[child[r].archive].content
  /\ restored' = file[child[r].archive]
  \* history: the archive brings back its passwords
  /\ lost' = lost \cup {u \in Users : db'.users[u].password # latest[u]}
  /\ Exit(r, "committed")
  /\ UNCHANGED <<blocked, frozen, clock, tx, issued, started, scenario, origin, latest, rivals>>
  /\ UNCHANGED <<file, backup, restore, losses>>

ChildFails(r) ==
  /\ child[r].state = "running"
  /\ Exit(r, "failed")
  /\ UNCHANGED <<db, blocked, restore, restored>> /\ RestoreKeeps

\* _run waits for the exit code.
ReadExit(r) ==
  /\ restore[r].pc = "run" /\ child[r].state \in {"committed", "failed"}
  /\ IF child[r].state = "committed" THEN Step(r, "revoke") ELSE Stop(r)
  /\ child' = [child EXCEPT ![r] = NoChild]
  /\ UNCHANGED <<db, blocked, restored>> /\ RestoreKeeps

AllRevoked(d) == RevokeOpen(d, Tokens, "database_restore")

RevokeAll(r) ==
  /\ restore[r].pc = "revoke"
  /\ \A c \in Clients : ~At(c, "answer") /\ ~At(c, "revoke")
  /\ db' = AllRevoked(db)
  /\ Step(r, "verify")
  /\ UNCHANGED <<blocked, child, restored>> /\ RestoreKeeps

VerifyDomain(r) ==
  /\ restore[r].pc = "verify"
  /\ IF DomainInventory(db) = file[restore[r].archive].manifest.inventory
     THEN Step(r, "confirm") ELSE Stop(r)
  /\ UNCHANGED <<db, blocked, child, restored>> /\ RestoreKeeps

ConfirmRevoked(r) ==
  /\ restore[r].pc = "confirm"
  /\ IF \E t \in Tokens : db.sessions[t].revoked = "no" THEN Stop(r) ELSE Step(r, "unblock")
  /\ UNCHANGED <<db, blocked, child, restored>> /\ RestoreKeeps

Unblock(r) ==
  /\ restore[r].pc = "unblock"
  /\ blocked' = FALSE
  /\ Stop(r)
  /\ UNCHANGED <<db, child, restored>> /\ RestoreKeeps

\* An error (RecoveryFailure) or the death of the process.
KillRestore(r) ==
  /\ restore[r] # NoJob
  /\ Stop(r)
  /\ child' = [child EXCEPT ![r] = IF @.state = "running" THEN @ ELSE NoChild]
  /\ UNCHANGED <<db, blocked, restored>> /\ RestoreKeeps

BackupStep ==
  \/ \E a \in Archives : StartBackup(a)
  \/ Dump \/ DumpFails \/ TakeInventory \/ WriteManifest \/ KillBackup

RestoreStep(r) ==
  \/ \E a \in Archives : StartRestore(r, a)
  \/ Own(r) \/ ProveEmpty(r) \/ Guard(r)
  \/ ChildCommits(r) \/ ChildFails(r) \/ ReadExit(r)
  \/ RevokeAll(r) \/ VerifyDomain(r) \/ ConfirmRevoked(r) \/ Unblock(r)
  \/ KillRestore(r)

Next ==
  \/ SessionsNext /\ UNCHANGED recoveryVars
  \/ BackupStep
  \/ Loss
  \/ \E a, b \in Archives : Overwrite(a, b)
  \/ \E r \in Operators : RestoreStep(r)

Spec == Init /\ [][Next]_allVars

-----------------------------------------------------------------------------
(***************************************************************************)
(* Properties.                                                             *)
(***************************************************************************)
\* The manifest of an archive counts the rows that are in it, however commands run
\* during the backup: pg_dump and the inventory read the same locked tables.
ManifestDescribesArchive ==
  \A a \in Archives :
    file[a].state = "dumped" =>
      (file[a].manifest.written =>
         DomainInventory(file[a].manifest.checksum) = file[a].manifest.inventory)

\* However a recovery was interrupted before, a target that is served again holds one whole backup: what
\* pg_restore committed matches its manifest and no session of that archive is open.
ServedIsRestored ==
  losses > 0 /\ db.schema /\ ~blocked =>
    /\ restored.manifest.checksum = restored.content
    /\ \A t \in Tokens :
         restored.content.sessions[t] # NoRow => db.sessions[t].revoked # "no"

\* Once a database is served, no restore takes it away again: the guard is put on an
\* empty target only, since one restore at a time goes from its check to its guard.
ServedStaysServed == [][~blocked /\ db.schema => ~blocked']_allVars
==============================================================================
