------------------------------- MODULE Memory --------------------------------
(***************************************************************************)
(* Living Memory: packages staged and loaded as datasets, revisions        *)
(* projected into the operational dataset of a game, and read_memory,      *)
(* whose pages are separate requests and whose statements are separate     *)
(* snapshots (READ COMMITTED): memory.py, seed.py and the endpoint of      *)
(* web.py.                                                                 *)
(*                                                                         *)
(* A revision is [id, record, names, order, recorded, supersedes,          *)
(* disclosed, references]: names are its external id, that of its record   *)
(* and the actions of its body, order its ingestion_order, disclosed maps  *)
(* a scope to the later of the two times of the disclosure.  What the      *)
(* revision says, text search, types and effective times are left out: a   *)
(* query keeps the record and the related target it asks for.  Filters by  *)
(* type, role and text select rows as these do.  load_timeline writes      *)
(* RebuildState with the dataset: exists stands for both.                  *)
(*                                                                         *)
(* project_operational_object has no caller yet: its caller here is any     *)
(* transaction that projects some objects and commits, at READ COMMITTED.  *)
(* "Fault" marks a plausible bug.                                          *)
(***************************************************************************)
EXTENDS PackageGraph, SequencesExt

CONSTANTS
  Objects, Versions,   \* workspace objects and their versions 1, 2, ...
  ExternalId,          \* per object and version the id of its revision
  Rank,                \* per id its UUID, which orders revisions of one time
  Scopes, Times,
  Writers, Loaders, Readers,
  Limit,               \* query.limit
  MaxOrder,            \* bound: ingestion orders given to projections
  Scenarios            \* what is there, who does what and what is asked

ASSUME MemoryAssumption ==
  /\ Limit \in Nat \ {0} /\ MaxOrder \in Nat /\ Times \subseteq Nat
  \* UUIDs are told apart, and from None
  /\ None \notin DOMAIN Rank
  /\ Rank \in [DOMAIN Rank -> Nat]
  /\ \A i, j \in DOMAIN Rank : Rank[i] = Rank[j] => i = j
  /\ \A o \in Objects, v \in Versions : ExternalId[o][v] \in DOMAIN Rank
  /\ \A s \in Scenarios :
       /\ s.dataset \in {"operational", "package"}
       /\ IsFiniteSet(DOMAIN s.package.records)
       /\ DOMAIN s.package.records \subseteq DOMAIN Rank
       /\ \A id \in DOMAIN s.package.records : s.package.records[id].recorded \in Nat

VARIABLES
  data,        \* per dataset: whether it exists, its committed rows
  sequence,    \* the identity sequence of ingestion_order
  holders,     \* transactions past the FOR UPDATE of the operational dataset
  pending,     \* the uncommitted revisions of each writer
  staged, loader,
  granted,     \* the scopes each reader is granted
  reader,      \* each reader's request, with history: view and seen
  scenario

vars == <<data, sequence, holders, pending, staged, loader, granted, reader, scenario>>

writing == <<sequence, holders, pending>>

Absent == [exists |-> FALSE, revisions |-> {}, relationships |-> {}]

NoCursor == [set |-> FALSE]

\* A request in hand (query, watermark; counted, rows, names and superseded as far as its
\* statements have come) and what the reader has (count, cursor); view and seen are history.
Idle ==
  [at |-> "idle", query |-> None, watermark |-> [records |-> 0, relationships |-> 0],
   counted |-> 0, rows |-> <<>>, names |-> {}, superseded |-> {},
   count |-> 0, cursor |-> NoCursor, view |-> <<>>, seen |-> <<>>]

Init ==
  /\ scenario \in Scenarios
  /\ data = [d \in {"operational", "package"} |->
               IF d = "operational" THEN [Absent EXCEPT !.exists = TRUE] ELSE Absent]
  /\ sequence = 0
  /\ holders = {}
  /\ pending = [w \in Writers |-> {}]
  /\ staged = FALSE
  /\ loader = [l \in Loaders |-> "idle"]
  /\ granted = [r \in Readers |-> Scopes]
  /\ reader = [r \in Readers |-> Idle]

-----------------------------------------------------------------------------
(***************************************************************************)
(* Projections.                                                            *)
(***************************************************************************)
\* Fault: the dataset is not locked.
Unlocked(w) == TRUE

RowFree(w) == holders \subseteq {w}

RevisionOf(o, v, scopes, t) ==
  [id |-> ExternalId[o][v], record |-> o, names |-> {ExternalId[o][v], o},
   order |-> sequence + 1, recorded |-> t,
   supersedes |-> IF v > 1 THEN ExternalId[o][v - 1] ELSE None,
   disclosed |-> [s \in scopes \cup {"adjudicator"} |-> t], references |-> {}]

SeenBy(w) == {r.id : r \in data["operational"].revisions \cup pending[w]}

\* project_operational_object; a version projected already is left as it is, and the
\* insert of one that another is projecting waits (uq_memory_record_revision_external).
Project(w, o, v, scopes, t) ==
  /\ w \in scenario.writers
  /\ RowFree(w)
  /\ holders' = holders \cup {w}
  /\ IF ExternalId[o][v] \in SeenBy(w)
     THEN UNCHANGED <<sequence, pending>>
     ELSE /\ \A x \in Writers : ExternalId[o][v] \notin {r.id : r \in pending[x]}
          /\ sequence < MaxOrder
          /\ v > 1 => ExternalId[o][v - 1] \in SeenBy(w)
          /\ sequence' = sequence + 1
          /\ pending' = [pending EXCEPT ![w] = @ \cup {RevisionOf(o, v, scopes, t)}]
  /\ UNCHANGED <<data, staged, loader, granted, reader, scenario>>

CommitProjections(w) ==
  /\ w \in holders
  /\ data' = [data EXCEPT !["operational"].revisions = @ \cup pending[w]]
  /\ holders' = holders \ {w}
  /\ pending' = [pending EXCEPT ![w] = {}]
  /\ UNCHANGED <<sequence, staged, loader, granted, reader, scenario>>

\* The caller fails, or a version without its predecessor meets the foreign key; the
\* sequence keeps what it gave.
AbandonProjections(w) ==
  /\ w \in holders
  /\ holders' = holders \ {w}
  /\ pending' = [pending EXCEPT ![w] = {}]
  /\ UNCHANGED <<data, sequence, staged, loader, granted, reader, scenario>>

-----------------------------------------------------------------------------
(***************************************************************************)
(* Packages.                                                               *)
(***************************************************************************)
Package == scenario.package

LoaderKeeps == UNCHANGED <<holders, pending, granted, reader, scenario>>

\* stage_package: a checksum staged already is left as it is.
StagePackage ==
  /\ scenario.loads
  /\ ~staged
  /\ staged' = TRUE
  /\ LoaderKeeps /\ UNCHANGED <<data, sequence, loader>>

\* load_timeline up to its first write.
Check(l) ==
  /\ scenario.loads
  /\ loader[l] = "idle"
  /\ loader' = [loader EXCEPT ![l] =
       IF ~staged THEN "failed"
       ELSE IF data["package"].exists THEN "unchanged"
       ELSE IF GraphHolds(Package) THEN "checked" ELSE "failed"]
  /\ LoaderKeeps /\ UNCHANGED <<data, sequence, staged>>

\* Fault: an insert of the same key does not wait.
NeverInserting(l) == FALSE

Inserting(l) == \E other \in Loaders \ {l} : loader[other] = "inserted"

\* The key of the dataset: an insert waits for one uncommitted and fails on one committed.
Insert(l) ==
  /\ loader[l] = "checked"
  /\ ~Inserting(l)
  /\ loader' = [loader EXCEPT ![l] = IF data["package"].exists THEN "failed" ELSE "inserted"]
  /\ LoaderKeeps /\ UNCHANGED <<data, sequence, staged>>

\* The list order of a package is not modelled: ids get consecutive orders.
OrderIn(ids, id) == Cardinality({i \in ids : Rank[i] <= Rank[id]})

LoadedRevisions(p) ==
  {LET record == p.records[id]
       stable == Stable(p.records, id)
   IN [id |-> id, record |-> stable, names |-> {id, stable} \cup record.actions,
       order |-> sequence + OrderIn(DOMAIN p.records, id), recorded |-> record.recorded,
       supersedes |-> record.supersedes, disclosed |-> record.disclosed,
       references |-> record.references] : id \in DOMAIN p.records}

LoadedRelationships(p) ==
  {LET item == p.relationships[id] IN
     [id |-> id, order |-> OrderIn(DOMAIN p.relationships, id), recorded |-> item.recorded,
      supersedes |-> item.supersedes, disclosed |-> item.disclosed, ends |-> item.ends]
   : id \in DOMAIN p.relationships}

\* The writes after the dataset's, with their checks, and the commit.
Load(l) ==
  /\ loader[l] = "inserted"
  /\ IF RowsHold(Package)
     THEN /\ loader' = [loader EXCEPT ![l] = "loaded"]
          /\ data' = [data EXCEPT !["package"] =
               [exists |-> TRUE, revisions |-> LoadedRevisions(Package),
                relationships |-> LoadedRelationships(Package)]]
          /\ sequence' = sequence + Cardinality(DOMAIN Package.records)
     ELSE loader' = [loader EXCEPT ![l] = "failed"] /\ UNCHANGED <<data, sequence>>
  /\ LoaderKeeps /\ UNCHANGED staged

KillLoad(l) ==
  /\ loader[l] \in {"checked", "inserted"}
  /\ loader' = [loader EXCEPT ![l] = "failed"]
  /\ LoaderKeeps /\ UNCHANGED <<data, sequence, staged>>

-----------------------------------------------------------------------------
(***************************************************************************)
(* read_memory.                                                            *)
(***************************************************************************)
ReaderKeeps == UNCHANGED <<data, sequence, holders, pending, staged, loader, scenario>>

Dataset == data[scenario.dataset]

\* Below, d is the dataset as a statement finds it.
Eligible(row, q) ==
  /\ row.recorded <= q.known
  /\ q.scope \in DOMAIN row.disclosed
  /\ row.disclosed[q.scope] <= q.known

MaxOrderOf(rows) == Max({0} \cup {row.order : row \in rows})

Watermark(d, q) ==
  [records |-> MaxOrderOf({row \in d.revisions : Eligible(row, q)}),
   relationships |-> MaxOrderOf({row \in d.relationships : Eligible(row, q)})]

\* Fault: later pages read what has come since.
EligibleNow(d, q, watermark) == {row \in d.revisions : Eligible(row, q)}

\* authorized_context
Authorized(d, q, watermark) ==
  {row \in d.revisions : Eligible(row, q) /\ row.order <= watermark.records}

VisibleNames(d, q, watermark) == UNION {row.names : row \in Authorized(d, q, watermark)}

\* Fault: an endpoint may be hidden.
AllSummaries(d, q, watermark, names) ==
  {item \in d.relationships : Eligible(item, q) /\ item.order <= watermark.relationships}

\* _relationship_summaries: with every endpoint visible.
Summaries(d, q, watermark, names) ==
  {item \in d.relationships :
     Eligible(item, q) /\ item.order <= watermark.relationships /\ item.ends \subseteq names}

\* _authorized_relationship_target_ids
RelatedTargets(d, q, watermark) ==
  LET visible == Summaries(d, q, watermark, VisibleNames(d, q, watermark)) IN
    UNION {item.ends : item \in {s \in visible : q.related \in s.ends}}

Selected(d, q, watermark) ==
  {row \in Authorized(d, q, watermark) :
     /\ q.record # None => q.record \in {row.id, row.record}
     /\ q.related # None => {row.id, row.record} \cap RelatedTargets(d, q, watermark) # {}}

\* Fault: rows of one time are not told apart.
TimeBefore(x, y) == x.recorded < y.recorded

Before(x, y) ==
  x.recorded < y.recorded \/ (x.recorded = y.recorded /\ Rank[x.id] < Rank[y.id])

\* What the cursor has not passed.
After(cursor, rows) ==
  {row \in rows : cursor.set => Before(cursor.position, row)}

\* order_by
Precedes(x, y) == x.recorded < y.recorded \/ (x.recorded = y.recorded /\ Rank[x.id] < Rank[y.id])

Place(row, rows) == Cardinality({x \in rows : Precedes(x, row)}) + 1

Sorted(rows) ==
  [i \in 1 .. Cardinality(rows) |-> CHOOSE row \in rows : Place(row, rows) = i]

\* Fault: a row is shown with every target it has.
AllTargets(row, names) == row.references

PermittedTargets(row, names) == row.references \cap names

\* The targets by which a row finds its relationships: not the identity of its record.
OwnNames(row) == (row.names \ {row.record}) \cup {row.id}

\* What is shown of a row.
Entry(d, row, q, watermark, names, superseded) ==
  [id |-> row.id, superseded |-> row.id \in superseded,
   references |-> PermittedTargets(row, names),
   related |-> {[id |-> item.id, ends |-> item.ends] : item \in
                  {s \in Summaries(d, q, watermark, names) : s.ends \cap OwnNames(row) # {}}}]

Superseded(d, q, watermark) ==
  {row.supersedes : row \in Authorized(d, q, watermark)} \ {None}

\* All a sequence of pages is to show, when its watermark is taken.
View(d, q, watermark) ==
  LET rows == Sorted(Selected(d, q, watermark)) IN
    [i \in DOMAIN rows |->
       Entry(d, rows[i], q, watermark, VisibleNames(d, q, watermark), Superseded(d, q, watermark))]

\* A first page; anyone not granted the scope gets "Not found", as for no dataset.
Ask(r, q) ==
  /\ reader[r].at = "idle"
  /\ q.scope \in granted[r]
  /\ Dataset.exists
  /\ reader' = [reader EXCEPT ![r] = [Idle EXCEPT !.at = "watermark", !.query = q]]
  /\ ReaderKeeps /\ UNCHANGED granted

\* Fault: a cursor serves any request.
AnyContext(cursor, q) == cursor.set

ContextMatches(cursor, q) == cursor.set /\ cursor.context = q

\* The next page, by the cursor; with another context the request is refused.
AskNext(r, q) ==
  /\ reader[r].at = "answered"
  /\ q.scope \in granted[r]
  /\ ContextMatches(reader[r].cursor, q)
  /\ reader' = [reader EXCEPT ![r].at = "count", ![r].query = q]
  /\ ReaderKeeps /\ UNCHANGED granted

TakeWatermark(r) ==
  /\ reader[r].at = "watermark"
  /\ LET q == reader[r].query
         watermark == Watermark(Dataset, q)
     IN reader' = [reader EXCEPT ![r] =
          [@ EXCEPT !.at = "count", !.watermark = watermark,
                    !.view = View(Dataset, q, watermark)]]
  /\ ReaderKeeps /\ UNCHANGED granted

TakeCount(r) ==
  /\ reader[r].at = "count"
  /\ LET rows == Selected(Dataset, reader[r].query, reader[r].watermark) IN
       reader' = [reader EXCEPT ![r] = [@ EXCEPT !.at = "rows", !.counted = Cardinality(rows)]]
  /\ ReaderKeeps /\ UNCHANGED granted

\* One row more than the limit is read; a query for one record that is not there is refused.
TakeRows(r) ==
  /\ reader[r].at = "rows"
  /\ LET q == reader[r].query
         rows == Sorted(After(reader[r].cursor, Selected(Dataset, q, reader[r].watermark)))
     IN reader' = [reader EXCEPT ![r] =
          IF q.record # None /\ rows = <<>> THEN Idle
          ELSE [@ EXCEPT !.at = "names",
                         !.rows = SubSeq(rows, 1, Min({Len(rows), Limit + 1}))]]
  /\ ReaderKeeps /\ UNCHANGED granted

TakeNames(r) ==
  /\ reader[r].at = "names"
  /\ LET q == reader[r].query
         watermark == reader[r].watermark
     IN reader' = [reader EXCEPT ![r] =
          [@ EXCEPT !.at = "answer", !.names = VisibleNames(Dataset, q, watermark),
                    !.superseded = Superseded(Dataset, q, watermark)]]
  /\ ReaderKeeps /\ UNCHANGED granted

\* Fault: the row read beyond the limit is passed over.
Passing(rows) == rows[Len(rows)]

LastShown(rows) == rows[Limit]

NextCursor(q, watermark, rows) ==
  IF Len(rows) > Limit
  THEN [set |-> TRUE, context |-> q, watermark |-> watermark,
        position |-> [recorded |-> LastShown(rows).recorded, id |-> LastShown(rows).id]]
  ELSE NoCursor

\* Nothing in hand.
Answered(now) ==
  [now EXCEPT !.at = "answered", !.counted = 0, !.rows = <<>>, !.names = {}, !.superseded = {}]

Page(d, now) ==
  LET shown == SubSeq(now.rows, 1, Min({Len(now.rows), Limit})) IN
    [i \in DOMAIN shown |->
       Entry(d, shown[i], now.query, now.watermark, now.names, now.superseded)]

Answer(r) ==
  /\ reader[r].at = "answer"
  /\ LET now == reader[r]
     IN reader' = [reader EXCEPT ![r] =
          [Answered(now) EXCEPT !.count = now.counted, !.seen = @ \o Page(Dataset, now),
                                !.cursor = NextCursor(now.query, now.watermark, now.rows)]]
  /\ ReaderKeeps /\ UNCHANGED granted

\* A request, or its answer, is lost; the reader still has the cursor it sent, if any.
LoseAnswer(r) ==
  /\ reader[r].at \in {"watermark", "count", "rows", "names", "answer"}
  /\ reader' = [reader EXCEPT ![r] =
       IF @.cursor.set THEN [Answered(@) EXCEPT !.query = reader[r].cursor.context] ELSE Idle]
  /\ ReaderKeeps /\ UNCHANGED granted

\* The reader turns to something else.
Leave(r) ==
  /\ reader[r].at = "answered"
  /\ reader' = [reader EXCEPT ![r] = Idle]
  /\ ReaderKeeps /\ UNCHANGED granted

\* A membership ends.
Withdraw(r, scope) ==
  /\ scope \in granted[r]
  /\ granted' = [granted EXCEPT ![r] = @ \ {scope}]
  /\ ReaderKeeps /\ UNCHANGED reader

Next ==
  \/ \E w \in Writers :
       \/ \E o \in Objects, v \in Versions, scopes \in scenario.disclosures, t \in Times :
            Project(w, o, v, scopes, t)
       \/ CommitProjections(w)
       \/ AbandonProjections(w)
  \/ StagePackage
  \/ \E l \in Loaders : Check(l) \/ Insert(l) \/ Load(l) \/ KillLoad(l)
  \/ \E r \in Readers :
       \/ \E q \in scenario.queries : Ask(r, q) \/ AskNext(r, q)
       \/ TakeWatermark(r) \/ TakeCount(r) \/ TakeRows(r) \/ TakeNames(r)
       \/ Answer(r) \/ LoseAnswer(r) \/ Leave(r)
       \/ \E scope \in scenario.withdrawn : Withdraw(r, scope)

Spec == Init /\ [][Next]_vars

-----------------------------------------------------------------------------
(***************************************************************************)
(* Properties.                                                             *)
(***************************************************************************)
\* The pages a reader has been given, whatever is projected or lost between them, are the
\* first rows of what the first page's watermark froze, each once, in order and with the
\* same status and targets; every page counts all of them, and the last page completes
\* them.
PagesAreOneView ==
  \A r \in Readers : reader[r].at = "answered" =>
    LET now == reader[r] IN
      /\ IsPrefix(now.seen, now.view)
      /\ now.count = Len(now.view)
      /\ now.cursor.set <=> Len(now.seen) < Len(now.view)

\* A name disclosed to the scope by the cutoff.
Disclosed(q) == UNION {row.names : row \in {x \in Dataset.revisions : Eligible(x, q)}}

\* No reference and no endpoint of a relationship on a page names a record or an action
\* that is not itself disclosed to the reader's scope by the reader's cutoff.
NothingHiddenIsNamed ==
  \A r \in Readers : \A i \in DOMAIN reader[r].seen :
    LET entry == reader[r].seen[i] IN
      /\ entry.references \subseteq Disclosed(reader[r].query)
      /\ \A item \in entry.related : item.ends \subseteq Disclosed(reader[r].query)

Ids == {row.id : row \in data["package"].revisions}

Row(id) == CHOOSE row \in data["package"].revisions : row.id = id

\* A package that is there was loaded by one command, and every reference and endpoint
\* names something of the dataset.
LoadedOnce ==
  data["package"].exists =>
    LET named == UNION {x.names : x \in data["package"].revisions} IN
      /\ \E l \in Loaders : \A other \in Loaders : loader[other] = "loaded" <=> other = l
      /\ \A row \in data["package"].revisions : row.references \subseteq named
      /\ \A item \in data["package"].relationships : item.ends \subseteq named

\* Nothing goes round in a circle: of any ids there is one whose next are none of them.
Grounded(next) ==
  \A some \in (SUBSET DOMAIN next) \ {{}} : \E id \in some : next[id] \cap some = {}

\* A package that is loaded is so once, all it names is there, and in what was written no
\* record depends on itself by references or supersedes itself and a chain stays within one
\* record.
LoadedDatasetIsSound ==
  /\ LoadedOnce
  /\ data["package"].exists =>
       /\ Grounded([id \in Ids |-> Row(id).references])
       /\ Grounded([id \in Ids |-> {Row(id).supersedes}])
       /\ \A row \in data["package"].revisions :
            row.supersedes # None =>
              row.supersedes \in Ids /\ Row(row.supersedes).record = row.record
==============================================================================
