---------------------------- MODULE MemoryProofs -----------------------------
(***************************************************************************)
(* Proofs about Memory: the pages of a reader are one view, nothing        *)
(* undisclosed is on them, and a package is loaded once, names only what   *)
(* is there and has no circles, as the walk and the depth-first search of  *)
(* _validate_graph find every one.                                         *)
(***************************************************************************)
EXTENDS Memory, FiniteSetTheorems, WellFoundedInduction, TLAPS

-----------------------------------------------------------------------------
(***************************************************************************)
(* The inductive invariant.                                                *)
(***************************************************************************)
\* Rows that have a place each in the order of time and id.
Sortable(rows) ==
  /\ IsFiniteSet(rows)
  /\ \A x \in rows : x.recorded \in Nat /\ x.id \in DOMAIN Rank
  /\ \A x, y \in rows : x.id = y.id => x = y

Numbered(rows, last) == \A x \in rows : x.order \in Nat /\ 0 < x.order /\ x.order <= last

\* One transaction at a time has uncommitted revisions, and they come last.
Projected ==
  LET rows == data["operational"].revisions IN
    /\ data["operational"].relationships = {}
    /\ \A v, w \in holders : v = w
    /\ Sortable(rows) /\ Numbered(rows, sequence)
    /\ \A w \in Writers :
         /\ pending[w] # {} => w \in holders
         /\ Sortable(rows \cup pending[w]) /\ Numbered(pending[w], sequence)
         /\ \A x \in rows : \A y \in pending[w] : x.order < y.order

\* One command at a time is past the insert of the dataset, and none once it is there.
Inserts ==
  /\ \A l \in Loaders :
       /\ loader[l] \in {"checked", "inserted"} => GraphHolds(Package)
       /\ loader[l] = "inserted" =>
            /\ ~data["package"].exists
            /\ \A other \in Loaders : loader[other] = "inserted" => other = l
       /\ loader[l] = "loaded" => data["package"].exists
  /\ Sortable(data["package"].revisions)

Table == {"exists", "revisions", "relationships"}

Shapes ==
  /\ scenario \in Scenarios
  /\ sequence \in Nat
  /\ data = [d \in {"operational", "package"} |-> data[d]]
  /\ \A d \in {"operational", "package"} :
       /\ data[d] = [f \in Table |-> data[d][f]]
       /\ data[d].exists \in BOOLEAN
  /\ holders \subseteq Writers
  /\ pending = [w \in Writers |-> pending[w]]
  /\ loader = [l \in Loaders |-> loader[l]]
  /\ reader = [r \in Readers |-> reader[r]]

DInv == Shapes /\ Projected /\ Inserts /\ LoadedOnce

\* What is projected and commits from now on comes after the watermark.  (A package that is
\* there gets no more rows.)
Behind(watermark, last, uncommitted) ==
  scenario.dataset = "operational" =>
    /\ watermark.records \in Nat
    /\ watermark.records <= last
    /\ \A w \in Writers : \A x \in uncommitted[w] : watermark.records < x.order

Underway == {"count", "rows", "names", "answer", "answered"}

\* How far a reader has come: its pages are the first entries of the view, the cursor is at the
\* last of them.
Progress(d, now) ==
  LET q == now.query
      rows == Sorted(Selected(d, q, now.watermark))
      n == Cardinality(Selected(d, q, now.watermark))
      k == Len(now.seen)
  IN /\ now.view = View(d, q, now.watermark)
     /\ k \in 0 .. n
     /\ now.seen = [i \in 1 .. k |-> now.view[i]]
     /\ IF now.cursor.set
        THEN /\ now.cursor.context = q
             /\ 1 <= k /\ k < n
             /\ now.cursor.position = [recorded |-> rows[k].recorded, id |-> rows[k].id]
        ELSE k = IF now.at = "answered" THEN n ELSE 0
     /\ now.at = "answered" \/ now.cursor.set => now.count = n

\* What it has in hand of the next page is of the same rows.
InHand(d, now) ==
  LET q == now.query
      rows == Sorted(Selected(d, q, now.watermark))
      n == Cardinality(Selected(d, q, now.watermark))
      k == Len(now.seen)
  IN /\ now.at \in {"rows", "names", "answer"} => now.counted = n
     /\ now.at \in {"names", "answer"} =>
          LET m == Min({n - k, Limit + 1}) IN
            now.rows = [i \in 1 .. m |-> rows[k + i]]
     /\ now.at = "answer" =>
          /\ now.names = VisibleNames(d, q, now.watermark)
          /\ now.superseded = Superseded(d, q, now.watermark)

Paging(d, now) == Progress(d, now) /\ InHand(d, now)

ReaderFields ==
  {"at", "query", "watermark", "counted", "rows", "names", "superseded", "count", "cursor",
   "view", "seen"}

Shaped(now) == now = [f \in ReaderFields |-> now[f]]

\* Where a reader is; d is the dataset.
Reads(d, now) ==
  /\ Shaped(now)
  /\ now.cursor.set \in BOOLEAN
  /\ now.at \in {"idle", "watermark"} => now.seen = <<>> /\ now.cursor = NoCursor
  /\ now.at # "idle" => d.exists
  /\ now.at \in {"idle", "watermark"} \cup Underway
  /\ now.at \in Underway => Paging(d, now)

Answers ==
  \A r \in Readers :
    /\ Reads(Dataset, reader[r])
    /\ reader[r].at \in Underway => Behind(reader[r].watermark, sequence, pending)

IInv == DInv /\ Answers

-----------------------------------------------------------------------------
(***************************************************************************)
(* Numbers.                                                                *)
(***************************************************************************)
\* A bounded set of naturals has a greatest element.
LEMMA GreatestNatural ==
  ASSUME NEW S, S \subseteq Nat, S # {}, NEW b \in Nat, \A x \in S : x <= b
  PROVE  Max(S) \in S /\ \A x \in S : x <= Max(S)
<1> DEFINE Has(T) == \E i \in T : \A j \in T : j <= i
           Bad == {T \in SUBSET S : T # {} /\ ~Has(T)}
<1>1. SUFFICES ASSUME Bad # {} PROVE FALSE
  <2>1. S \in SUBSET S
    OBVIOUS
  <2>2. Bad = {} => Has(S)
    BY <2>1
  <2>3. Has(S) => Max(S) \in S /\ \A j \in S : j <= Max(S)
    <3>1. SUFFICES ASSUME NEW i \in S, \A j \in S : j <= i
                   PROVE  Max(S) \in S /\ \A j \in S : j <= Max(S)
      OBVIOUS
    <3>2. \A j \in S : i >= j
      BY <3>1
    <3>3. Max(S) \in S /\ \A j \in S : Max(S) >= j
      BY <3>2 DEF Max
    <3> QED
      BY <3>3
  <2> QED
    BY <2>2, <2>3
<1>2. PICK T \in Bad : \A U \in Bad : ~(<<U, T>> \in StrictSubsetOrdering(S))
  <2>1. Bad \subseteq SUBSET S
    OBVIOUS
  <2> HIDE DEF Bad
  <2>2. IsWellFoundedOn(StrictSubsetOrdering(S), SUBSET S)
    BY FS_BoundedSetOfNaturals, FS_StrictSubsetOrderingWellFounded, FS_FiniteSubsetsOfFinite
  <2> QED
    BY <1>1, <2>1, <2>2, WFMin
<1>3. T \in SUBSET S /\ T # {} /\ ~Has(T)
  OBVIOUS
<1>4. PICK m \in T : TRUE
  BY <1>3
<1> DEFINE U == T \ {m}
<1>5. U = {} \/ Has(U)
  <2>1. <<U, T>> \in StrictSubsetOrdering(S)
    BY <1>3, <1>4 DEF StrictSubsetOrdering
  <2>2. U \notin Bad /\ U \in SUBSET S
    BY <2>1, <1>2, <1>3
  <2> QED
    BY <2>2
<1>6. Has(T)
  <2>1. CASE U = {}
    BY <1>3, <1>4, <2>1
  <2>2. CASE Has(U)
    <3>1. PICK i \in U : \A j \in U : j <= i
      BY <2>2
    <3>2. i \in Nat /\ m \in Nat /\ i \in T
      BY <1>3, <1>4, <3>1
    <3>3. \A j \in T : j \in Nat /\ (j = m \/ j <= i)
      BY <1>3, <3>1
    <3> QED
      BY <1>4, <3>2, <3>3
  <2> QED
    BY <1>5, <2>1, <2>2
<1> QED
  BY <1>3, <1>6

LEMMA MinOfTwo ==
  ASSUME NEW a \in Int, NEW b \in Int
  PROVE  Min({a, b}) = IF a <= b THEN a ELSE b
<1> DEFINE m == IF a <= b THEN a ELSE b
<1>1. m \in {a, b} /\ \A y \in {a, b} : m <= y
  OBVIOUS
<1>2. \A x \in {a, b} : (\A y \in {a, b} : x <= y) => x = m
  OBVIOUS
<1> QED
  BY <1>1, <1>2 DEF Min

-----------------------------------------------------------------------------
(***************************************************************************)
(* The order of rows.                                                      *)
(***************************************************************************)
LEMMA PrecedesOrders ==
  ASSUME NEW S, Sortable(S)
  PROVE  /\ \A x \in S : ~Precedes(x, x)
         /\ \A x, y \in S : x = y \/ Precedes(x, y) \/ Precedes(y, x)
         /\ \A x, y, z \in S : Precedes(x, y) /\ Precedes(y, z) => Precedes(x, z)
<1>1. \A x \in S : x.recorded \in Nat /\ Rank[x.id] \in Nat
  BY MemoryAssumption DEF Sortable
<1>2. \A x, y \in S : Rank[x.id] = Rank[y.id] => x = y
  BY MemoryAssumption DEF Sortable
<1> QED
  BY <1>1, <1>2 DEF Precedes

LEMMA SortableSubset ==
  ASSUME NEW S, Sortable(S), NEW T \in SUBSET S
  PROVE  Sortable(T)
BY FS_Subset DEF Sortable

\* A row has as many before it as rows precede it.
LEMMA PlaceGrows ==
  ASSUME NEW S, Sortable(S)
  PROVE  /\ \A x \in S : Place(x, S) \in 1 .. Cardinality(S)
         /\ \A x, y \in S : Precedes(x, y) => Place(x, S) < Place(y, S)
<1> DEFINE Earlier(x) == {z \in S : Precedes(z, x)}
<1>1. IsFiniteSet(S) /\ Cardinality(S) \in Nat
  BY FS_CardinalityType DEF Sortable
<1>2. \A x \in S : IsFiniteSet(Earlier(x)) /\ Cardinality(Earlier(x)) \in Nat
  BY <1>1, FS_Subset, FS_CardinalityType
<1>3. \A x \in S : Place(x, S) = Cardinality(Earlier(x)) + 1
  BY DEF Place
<1>4. ASSUME NEW x \in S PROVE Place(x, S) \in 1 .. Cardinality(S)
  <2>1. Earlier(x) \subseteq S \ {x}
    BY PrecedesOrders
  <2>2. IsFiniteSet(S \ {x}) /\ Cardinality(S \ {x}) = Cardinality(S) - 1
    BY <1>1, FS_RemoveElement
  <2>3. Cardinality(Earlier(x)) <= Cardinality(S) - 1
    <3> HIDE DEF Earlier
    <3> QED
      BY <2>1, <2>2, FS_Subset
  <2> HIDE DEF Earlier
  <2> QED
    BY <1>1, <1>2, <1>3, <2>3
<1>5. ASSUME NEW x \in S, NEW y \in S, Precedes(x, y) PROVE Place(x, S) < Place(y, S)
  <2>1. Earlier(x) \cup {x} \subseteq Earlier(y) /\ x \notin Earlier(x)
    BY <1>5, PrecedesOrders
  <2> HIDE DEF Earlier
  <2>2. Cardinality(Earlier(x) \cup {x}) = Cardinality(Earlier(x)) + 1
    BY <1>2, <2>1, FS_AddElement
  <2>3. Cardinality(Earlier(x) \cup {x}) <= Cardinality(Earlier(y))
    BY <1>2, <2>1, FS_Subset
  <2> QED
    BY <1>2, <1>3, <2>2, <2>3
<1> QED
  BY <1>4, <1>5

\* Every place is taken by one row.
LEMMA PlaceOfOne ==
  ASSUME NEW S, Sortable(S)
  PROVE  /\ Cardinality(S) \in Nat
         /\ \A x, y \in S : Place(x, S) = Place(y, S) => x = y
         /\ \A i \in 1 .. Cardinality(S) : \E x \in S : Place(x, S) = i
<1> DEFINE n == Cardinality(S)
           f == [x \in S |-> Place(x, S)]
<1>1. IsFiniteSet(S) /\ n \in Nat
  BY FS_CardinalityType DEF Sortable
<1>2. \A x, y \in S : Place(x, S) = Place(y, S) => x = y
  BY PlaceGrows, PrecedesOrders
<1>3. f \in Injection(S, 1 .. n)
  <2>1. f \in [S -> 1 .. n]
    BY PlaceGrows
  <2> QED
    BY <1>2, <2>1 DEF Injection, IsInjective
<1>4. IsFiniteSet(1 .. n) /\ Cardinality(1 .. n) = n
  BY <1>1, FS_Interval
<1>5. f \in Surjection(S, 1 .. n)
  <2> HIDE DEF f
  <2> QED
    BY <1>1, <1>3, <1>4, FS_Injection
<1>6. \A i \in 1 .. n : \E x \in S : f[x] = i
  <2> HIDE DEF f
  <2> QED
    BY <1>5 DEF Surjection
<1> QED
  BY <1>1, <1>2, <1>6

\* The sorted rows are the rows, each at its place.
LEMMA SortedRows ==
  ASSUME NEW S, Sortable(S)
  PROVE  /\ Cardinality(S) \in Nat
         /\ Sorted(S) \in Seq(S) /\ Len(Sorted(S)) = Cardinality(S)
         /\ DOMAIN Sorted(S) = 1 .. Cardinality(S)
         /\ \A i \in 1 .. Cardinality(S) : Sorted(S)[i] \in S /\ Place(Sorted(S)[i], S) = i
         /\ \A x \in S : Sorted(S)[Place(x, S)] = x
<1> DEFINE n == Cardinality(S)
           L == Sorted(S)
<1>1. n \in Nat
  BY PlaceOfOne
<1>2. L = [i \in 1 .. n |-> CHOOSE row \in S : Place(row, S) = i]
  BY DEF Sorted
<1>3. ASSUME NEW i \in 1 .. n PROVE L[i] \in S /\ Place(L[i], S) = i
  <2>1. \E x \in S : Place(x, S) = i
    BY PlaceOfOne
  <2>2. L[i] = CHOOSE row \in S : Place(row, S) = i
    BY <1>2
  <2> HIDE DEF L
  <2> QED
    BY <2>1, <2>2
<1> HIDE DEF L, n
<1>4. L \in Seq(S) /\ Len(L) = n /\ DOMAIN L = 1 .. n
  <2>1. L \in [1 .. n -> S]
    BY <1>2, <1>3
  <2> QED
    BY <1>1, <2>1
<1>5. \A x \in S : Place(x, S) \in 1 .. n
  BY PlaceGrows DEF n
<1>6. \A x, y \in S : Place(x, S) = Place(y, S) => x = y
  BY PlaceOfOne
<1>7. \A x \in S : L[Place(x, S)] = x
  BY <1>3, <1>5, <1>6
<1> QED
  BY <1>1, <1>3, <1>4, <1>7 DEF L, n

\* What follows the k-th row, sorted, is what stands behind place k.
LEMMA SortedTail ==
  ASSUME NEW S, Sortable(S), NEW k \in 1 .. Cardinality(S),
         NEW T, T = {x \in S : Precedes(Sorted(S)[k], x)}
  PROVE  /\ Cardinality(T) = Cardinality(S) - k
         /\ Sortable(T)
         /\ \A j \in 1 .. Cardinality(T) : Sorted(T)[j] = Sorted(S)[k + j]
<1> DEFINE n == Cardinality(S)
           L == Sorted(S)
           E(x) == {z \in S : Precedes(z, x)}
           ET(x) == {z \in T : Precedes(z, x)}
           A == E(L[k]) \cup {L[k]}
<1>1. /\ n \in Nat /\ L[k] \in S /\ IsFiniteSet(S) /\ k \in 1 .. n
      /\ \A i \in 1 .. n : L[i] \in S /\ Place(L[i], S) = i
      /\ \A x \in S : L[Place(x, S)] = x
  BY SortedRows DEF Sortable
<1>2. T \subseteq S /\ IsFiniteSet(T) /\ Sortable(T)
  BY <1>1, SortableSubset, FS_Subset
<1>3. /\ \A x \in S : ~Precedes(x, x)
      /\ \A x, y \in S : x = y \/ Precedes(x, y) \/ Precedes(y, x)
      /\ \A x, y, z \in S : Precedes(x, y) /\ Precedes(y, z) => Precedes(x, z)
  BY PrecedesOrders
<1>4. \A x \in S : /\ IsFiniteSet(E(x)) /\ Cardinality(E(x)) \in Nat
                   /\ Place(x, S) = Cardinality(E(x)) + 1
  BY <1>1, FS_Subset, FS_CardinalityType DEF Place
<1>5. \A x \in T : /\ IsFiniteSet(ET(x)) /\ Cardinality(ET(x)) \in Nat
                   /\ Place(x, T) = Cardinality(ET(x)) + 1
  BY <1>2, FS_Subset, FS_CardinalityType DEF Place
<1>6. IsFiniteSet(A) /\ Cardinality(A) = k
  <2>1. L[k] \notin E(L[k])
    BY <1>1, <1>3
  <2>2. Cardinality(E(L[k])) = k - 1 /\ IsFiniteSet(E(L[k]))
    <3>1. Place(L[k], S) = k
      BY <1>1
    <3> HIDE DEF E, L
    <3> QED
      BY <1>1, <1>4, <3>1
  <2> DEFINE F == E(L[k])
  <2> HIDE DEF E, L
  <2>3. IsFiniteSet(F \cup {L[k]}) /\ Cardinality(F \cup {L[k]}) = Cardinality(F) + 1
    BY <2>1, <2>2, FS_AddElement
  <2> QED
    BY <1>1, <2>2, <2>3
<1>7. S = A \cup T /\ A \cap T = {}
  BY <1>1, <1>3
<1>8. Cardinality(T) = n - k
  <2> HIDE DEF A, L
  <2>1. Cardinality(A \cup T) = Cardinality(A) + Cardinality(T) - Cardinality(A \cap T)
    BY <1>2, <1>6, FS_Union
  <2>2. Cardinality(A \cap T) = 0 /\ Cardinality(T) \in Nat
    BY <1>2, <1>7, FS_EmptySet, FS_CardinalityType
  <2>3. n = Cardinality(A \cup T)
    BY <1>7
  <2>4. n \in Nat /\ k \in Nat
    BY <1>1
  <2> HIDE DEF n
  <2> QED
    BY <1>6, <2>1, <2>2, <2>3, <2>4
<1>9. ASSUME NEW x \in T PROVE Place(x, S) = k + Place(x, T)
  <2>1. E(x) = A \cup ET(x) /\ A \cap ET(x) = {}
    BY <1>1, <1>2, <1>3, <1>7
  <2>2. IsFiniteSet(ET(x)) /\ Cardinality(ET(x)) \in Nat /\ x \in S
    BY <1>2, <1>5
  <2>3. /\ Place(x, S) = Cardinality(E(x)) + 1
        /\ Place(x, T) = Cardinality(ET(x)) + 1
    BY <1>4, <1>5, <2>2
  <2> DEFINE B == ET(x)
             C == E(x)
  <2>4. C = A \cup B /\ A \cap B = {} /\ IsFiniteSet(B) /\ Cardinality(B) \in Nat
    BY <2>1, <2>2
  <2>5. Place(x, S) = Cardinality(C) + 1 /\ Place(x, T) = Cardinality(B) + 1
    BY <2>3
  <2> HIDE DEF A, B, C, E, ET, L
  <2>6. Cardinality(A \cup B) = Cardinality(A) + Cardinality(B) - Cardinality(A \cap B)
    BY <1>6, <2>4, FS_Union
  <2> QED
    BY <1>1, <1>6, <2>4, <2>5, <2>6, FS_EmptySet
<1>10. ASSUME NEW j \in 1 .. Cardinality(T) PROVE Sorted(T)[j] = L[k + j]
  <2>1. Sorted(T)[j] \in T /\ Place(Sorted(T)[j], T) = j
    BY <1>2, SortedRows
  <2>2. Place(Sorted(T)[j], S) = k + j
    BY <1>9, <2>1
  <2> QED
    BY <1>1, <1>2, <2>1, <2>2
<1> QED
  BY <1>2, <1>8, <1>10

-----------------------------------------------------------------------------
(***************************************************************************)
(* What a watermark freezes.                                               *)
(***************************************************************************)
\* e is d, with rows that come after the watermark.
Grown(d, e, watermark) ==
  /\ e.relationships = d.relationships
  /\ d.revisions \subseteq e.revisions
  /\ \A x \in e.revisions \ d.revisions : ~(x.order <= watermark.records)

LEMMA Frozen ==
  ASSUME NEW d, NEW e, NEW q, NEW watermark, Grown(d, e, watermark)
  PROVE  /\ VisibleNames(e, q, watermark) = VisibleNames(d, q, watermark)
         /\ Superseded(e, q, watermark) = Superseded(d, q, watermark)
         /\ Selected(e, q, watermark) = Selected(d, q, watermark)
         /\ \A names : Summaries(e, q, watermark, names) = Summaries(d, q, watermark, names)
         /\ View(e, q, watermark) = View(d, q, watermark)
<1>1. Authorized(e, q, watermark) = Authorized(d, q, watermark)
  BY DEF Grown, Authorized
<1>2. \A names : Summaries(e, q, watermark, names) = Summaries(d, q, watermark, names)
  BY DEF Grown, Summaries
<1>3. VisibleNames(e, q, watermark) = VisibleNames(d, q, watermark)
  BY <1>1 DEF VisibleNames
<1>4. Superseded(e, q, watermark) = Superseded(d, q, watermark)
  BY <1>1 DEF Superseded
<1>5. RelatedTargets(e, q, watermark) = RelatedTargets(d, q, watermark)
  BY <1>2, <1>3 DEF RelatedTargets
<1>6. Selected(e, q, watermark) = Selected(d, q, watermark)
  BY <1>1, <1>5 DEF Selected
<1>7. \A row, names, superseded :
        Entry(e, row, q, watermark, names, superseded) =
          Entry(d, row, q, watermark, names, superseded)
  BY <1>2 DEF Entry
<1>8. View(e, q, watermark) = View(d, q, watermark)
  BY <1>3, <1>4, <1>6, <1>7 DEF View
<1> QED
  BY <1>2, <1>3, <1>4, <1>6, <1>8

\* So a reader who has pages, or is between two statements, is where it was.
LEMMA PagingStays ==
  ASSUME NEW d, NEW e, NEW now, Grown(d, e, now.watermark), Paging(d, now)
  PROVE  Paging(e, now)
<1> DEFINE q == now.query
           w == now.watermark
<1>1. /\ VisibleNames(e, q, w) = VisibleNames(d, q, w)
      /\ Superseded(e, q, w) = Superseded(d, q, w)
      /\ Selected(e, q, w) = Selected(d, q, w)
      /\ View(e, q, w) = View(d, q, w)
  BY Frozen
<1> QED
  BY <1>1 DEF Paging, Progress, InHand

LEMMA Prefix ==
  ASSUME NEW S, NEW s \in Seq(S), NEW m \in Nat, m <= Len(s)
  PROVE  SubSeq(s, 1, m) = [i \in 1 .. m |-> s[i]]
<1>1. /\ SubSeq(s, 1, m) \in Seq(S) /\ Len(SubSeq(s, 1, m)) = m
      /\ \A i \in 1 .. m : SubSeq(s, 1, m)[i] = s[i]
  OBVIOUS
<1> QED
  BY <1>1

\* Two pieces of one sequence, one behind the other.
LEMMA Pieces ==
  ASSUME NEW f, NEW k \in Nat, NEW p \in Nat,
         NEW s, s = [i \in 1 .. k |-> f[i]], NEW t, t = [i \in 1 .. p |-> f[k + i]]
  PROVE  s \o t = [i \in 1 .. k + p |-> f[i]] /\ Len(s \o t) = k + p
<1> DEFINE V == {f[i] : i \in 1 .. k + p}
           u == [i \in 1 .. k + p |-> f[i]]
<1>1. s \in Seq(V) /\ Len(s) = k /\ \A i \in 1 .. k : s[i] = f[i]
  <2>1. s \in [1 .. k -> V]
    OBVIOUS
  <2> HIDE DEF V
  <2> QED
    BY <2>1
<1>2. t \in Seq(V) /\ Len(t) = p /\ \A i \in 1 .. p : t[i] = f[k + i]
  <2>1. t \in [1 .. p -> V]
    OBVIOUS
  <2> HIDE DEF V
  <2> QED
    BY <2>1
<1>3. u \in Seq(V) /\ Len(u) = k + p /\ \A i \in 1 .. k + p : u[i] = f[i]
  <2>1. u \in [1 .. k + p -> V]
    OBVIOUS
  <2> HIDE DEF V
  <2> QED
    BY <2>1
<1> HIDE DEF V, u
<1>4. /\ s \o t \in Seq(V) /\ Len(s \o t) = k + p
      /\ \A i \in 1 .. k + p : (s \o t)[i] = IF i <= k THEN s[i] ELSE t[i - k]
  BY <1>1, <1>2
<1>5. \A i \in 1 .. k + p : (s \o t)[i] = f[i]
  BY <1>1, <1>2, <1>4
<1> QED
  BY <1>3, <1>4, <1>5 DEF u

-----------------------------------------------------------------------------
(***************************************************************************)
(* The statements of read_memory: where each leaves its reader.            *)
(***************************************************************************)
LEMMA SelectedSortable ==
  ASSUME NEW d, NEW q, NEW w, Sortable(d.revisions)
  PROVE  Sortable(Selected(d, q, w))
<1>1. Selected(d, q, w) \subseteq d.revisions
  BY DEF Selected, Authorized
<1> QED
  BY <1>1, SortableSubset

LEMMA ViewRows ==
  ASSUME NEW d, NEW q, NEW w, Sortable(d.revisions)
  PROVE  LET S == Selected(d, q, w)
             n == Cardinality(S)
         IN /\ n \in Nat
            /\ View(d, q, w) = [i \in 1 .. n |->
                 Entry(d, Sorted(S)[i], q, w, VisibleNames(d, q, w), Superseded(d, q, w))]
            /\ Len(View(d, q, w)) = n
<1> DEFINE S == Selected(d, q, w)
           n == Cardinality(S)
<1>1. n \in Nat /\ DOMAIN Sorted(S) = 1 .. n
  BY SelectedSortable, SortedRows
<1>2. View(d, q, w) = [i \in 1 .. n |->
        Entry(d, Sorted(S)[i], q, w, VisibleNames(d, q, w), Superseded(d, q, w))]
  BY <1>1 DEF View
<1> HIDE DEF n
<1>3. Len(View(d, q, w)) = n
  BY <1>1, <1>2
<1> QED
  BY <1>1, <1>2, <1>3 DEF n

\* A first page is asked for.
LEMMA AskReads ==
  ASSUME NEW d, NEW q, d.exists,
         NEW next, next = [Idle EXCEPT !.at = "watermark", !.query = q]
  PROVE  Reads(d, next) /\ next.at = "watermark"
<1>1. /\ Shaped(next) /\ next.at = "watermark" /\ next.seen = <<>>
      /\ next.cursor = NoCursor /\ next.cursor.set = FALSE
  BY DEF Idle, Shaped, ReaderFields, NoCursor
<1> QED
  BY <1>1 DEF Reads, Underway

LEMMA IdleReads ==
  ASSUME NEW d
  PROVE  Reads(d, Idle) /\ Idle.at = "idle"
<1>1. /\ Shaped(Idle) /\ Idle.at = "idle" /\ Idle.seen = <<>>
      /\ Idle.cursor = NoCursor /\ Idle.cursor.set = FALSE
  BY DEF Idle, Shaped, ReaderFields, NoCursor
<1> QED
  BY <1>1 DEF Reads, Underway

\* The watermark freezes the view, of which nothing is shown yet.
LEMMA WatermarkReads ==
  ASSUME NEW d, NEW now, NEW w, Sortable(d.revisions), Reads(d, now), now.at = "watermark",
         NEW next, next = [now EXCEPT !.at = "count", !.watermark = w,
                                      !.view = View(d, now.query, w)]
  PROVE  Reads(d, next) /\ next.watermark = w
<1>1. Shaped(now) /\ now.seen = <<>> /\ now.cursor = NoCursor /\ d.exists
  BY DEF Reads
<1>2. /\ Shaped(next) /\ next.at = "count" /\ next.watermark = w /\ next.seen = <<>>
      /\ next.view = View(d, now.query, w) /\ next.query = now.query
      /\ next.cursor = NoCursor /\ next.cursor.set = FALSE
  <2>1. Shaped(next)
    BY <1>1 DEF Shaped, ReaderFields
  <2>2. /\ next.at = "count" /\ next.watermark = w /\ next.seen = now.seen
        /\ next.view = View(d, now.query, w) /\ next.query = now.query
        /\ next.cursor = now.cursor
    BY <1>1 DEF Shaped, ReaderFields
  <2>3. NoCursor.set = FALSE
    BY DEF NoCursor
  <2> QED
    BY <1>1, <2>1, <2>2, <2>3
<1>3. Cardinality(Selected(d, now.query, w)) \in Nat
  BY ViewRows
<1>4. next.seen = [i \in 1 .. 0 |-> next.view[i]] /\ Len(next.seen) = 0
  BY <1>2
<1>5. Paging(d, next)
  BY <1>2, <1>3, <1>4 DEF Paging, Progress, InHand
<1> QED
  BY <1>1, <1>2, <1>5 DEF Reads, Underway

LEMMA CountReads ==
  ASSUME NEW d, NEW now, Reads(d, now), now.at = "count",
         NEW next, next = [now EXCEPT !.at = "rows",
                             !.counted = Cardinality(Selected(d, now.query, now.watermark))]
  PROVE  Reads(d, next) /\ next.watermark = now.watermark
<1>1. Shaped(now) /\ Paging(d, now) /\ d.exists /\ now.cursor.set \in BOOLEAN
  BY DEF Reads, Underway
<1>2. /\ Shaped(next) /\ next.at = "rows" /\ next.watermark = now.watermark
      /\ next.seen = now.seen /\ next.view = now.view /\ next.query = now.query
      /\ next.cursor = now.cursor /\ next.count = now.count
      /\ next.counted = Cardinality(Selected(d, now.query, now.watermark))
  BY <1>1 DEF Shaped, ReaderFields
<1>3. Paging(d, next)
  BY <1>1, <1>2 DEF Paging, Progress, InHand
<1> QED
  BY <1>1, <1>2, <1>3 DEF Reads, Underway

\* The rows behind the cursor are those that follow what has been shown.
LEMMA RowsBehindCursor ==
  ASSUME NEW d, NEW now, Sortable(d.revisions), Reads(d, now), now.at = "rows"
  PROVE  LET S == Selected(d, now.query, now.watermark)
             T == After(now.cursor, S)
             n == Cardinality(S)
             k == Len(now.seen)
         IN /\ Cardinality(T) = n - k /\ n \in Nat /\ k \in 0 .. n
            /\ Len(Sorted(T)) = n - k
            /\ \A j \in 1 .. n - k : Sorted(T)[j] = Sorted(S)[k + j]
<1> DEFINE S == Selected(d, now.query, now.watermark)
           T == After(now.cursor, S)
           n == Cardinality(S)
           k == Len(now.seen)
<1>1. Paging(d, now) /\ now.cursor.set \in BOOLEAN
  BY DEF Reads, Underway
<1>2. Sortable(S) /\ n \in Nat /\ k \in 0 .. n
  BY <1>1, SelectedSortable, SortedRows DEF Paging, Progress, InHand
<1>3. CASE now.cursor.set
  <2>1. /\ 1 <= k /\ k < n
        /\ now.cursor.position = [recorded |-> Sorted(S)[k].recorded, id |-> Sorted(S)[k].id]
    BY <1>1, <1>3 DEF Paging, Progress, InHand
  <2>2. T = {x \in S : Precedes(Sorted(S)[k], x)}
    BY <1>3, <2>1 DEF After, Before, Precedes
  <2> HIDE DEF S, T, k
  <2>3. k \in 1 .. Cardinality(S)
    BY <1>2, <2>1
  <2>4. /\ Cardinality(T) = n - k /\ Sortable(T)
        /\ \A j \in 1 .. Cardinality(T) : Sorted(T)[j] = Sorted(S)[k + j]
    BY <1>2, <2>2, <2>3, SortedTail
  <2>5. Len(Sorted(T)) = Cardinality(T)
    BY <2>4, SortedRows
  <2> QED
    BY <1>2, <2>4, <2>5 DEF S, T, k
<1>4. CASE ~now.cursor.set
  <2>1. T = S /\ k = 0
    BY <1>1, <1>4 DEF After, Paging, Progress, InHand
  <2>2. Len(Sorted(S)) = n
    BY <1>2, SortedRows
  <2> HIDE DEF S, T, k, n
  <2>3. SUFFICES Cardinality(S) = n
    BY <1>2, <2>1, <2>2 DEF S, T, k, n
  <2> QED
    BY DEF n
<1> QED
  BY <1>1, <1>3, <1>4

\* A reader with a page under way is where it says if its pages are.
LEMMA ReadsOn ==
  ASSUME NEW d, NEW now, d.exists, Shaped(now), now.cursor.set \in BOOLEAN, now.at \in Underway,
         Paging(d, now)
  PROVE  Reads(d, now)
BY DEF Reads, Underway

\* The pages shown stay what they are of the view while the next one is put together.
LEMMA ProgressStays ==
  ASSUME NEW d, NEW now, Progress(d, now), NEW next,
         next.query = now.query, next.watermark = now.watermark, next.seen = now.seen,
         next.view = now.view, next.cursor = now.cursor, next.count = now.count,
         now.cursor.set \/ (now.at # "answered" /\ next.at # "answered")
  PROVE  Progress(d, next)
BY DEF Progress

\* What is in hand after the rows were read, and after the names were.
LEMMA RowsInHand ==
  ASSUME NEW d, NEW now, Reads(d, now), now.at = "rows",
         NEW S, S = Selected(d, now.query, now.watermark),
         NEW next, Shaped(next), next.at = "names",
         next.query = now.query, next.watermark = now.watermark, next.seen = now.seen,
         next.view = now.view, next.cursor = now.cursor, next.count = now.count,
         next.counted = now.counted,
         next.rows = [i \in 1 .. Min({Cardinality(S) - Len(now.seen), Limit + 1}) |->
                        Sorted(S)[Len(now.seen) + i]]
  PROVE  Reads(d, next)
<1>1. Progress(d, now) /\ InHand(d, now) /\ d.exists /\ next.cursor.set \in BOOLEAN
  BY DEF Reads, Underway, Paging
<1>2. InHand(d, next)
  BY <1>1 DEF InHand
<1>3. Progress(d, next)
  BY <1>1, ProgressStays
<1> QED
  BY <1>1, <1>2, <1>3, ReadsOn DEF Underway, Paging

LEMMA NamesInHand ==
  ASSUME NEW d, NEW now, Reads(d, now), now.at = "names",
         NEW next, Shaped(next), next.at = "answer",
         next.query = now.query, next.watermark = now.watermark, next.seen = now.seen,
         next.view = now.view, next.cursor = now.cursor, next.count = now.count,
         next.counted = now.counted, next.rows = now.rows,
         next.names = VisibleNames(d, now.query, now.watermark),
         next.superseded = Superseded(d, now.query, now.watermark)
  PROVE  Reads(d, next)
<1>1. Progress(d, now) /\ InHand(d, now) /\ d.exists /\ next.cursor.set \in BOOLEAN
  BY DEF Reads, Underway, Paging
<1>2. InHand(d, next)
  BY <1>1 DEF InHand
<1>3. Progress(d, next)
  BY <1>1, ProgressStays
<1> QED
  BY <1>1, <1>2, <1>3, ReadsOn DEF Underway, Paging

\* One row more than a page shows is read; or the record asked for is not there.
LEMMA RowsReads ==
  ASSUME NEW d, NEW now, Sortable(d.revisions), Reads(d, now), now.at = "rows",
         NEW rows, rows = Sorted(After(now.cursor, Selected(d, now.query, now.watermark)))
  PROVE  Reads(d, [now EXCEPT !.at = "names",
                              !.rows = SubSeq(rows, 1, Min({Len(rows), Limit + 1}))])
<1> DEFINE S == Selected(d, now.query, now.watermark)
           n == Cardinality(S)
           k == Len(now.seen)
           m == Min({n - k, Limit + 1})
           read == SubSeq(rows, 1, Min({Len(rows), Limit + 1}))
           next == [now EXCEPT !.at = "names", !.rows = read]
<1>1. Shaped(now) /\ Paging(d, now) /\ d.exists /\ now.cursor.set \in BOOLEAN
  BY DEF Reads, Underway
<1>2. /\ n \in Nat /\ k \in 0 .. n /\ Len(rows) = n - k
      /\ \A j \in 1 .. n - k : rows[j] = Sorted(S)[k + j]
  BY RowsBehindCursor
<1>3. read = [i \in 1 .. m |-> Sorted(S)[k + i]]
  <2> HIDE DEF S, n, k
  <2>1. n - k \in Int /\ Limit + 1 \in Int /\ 0 <= Limit + 1
    BY <1>2, MemoryAssumption
  <2>2. m = IF n - k <= Limit + 1 THEN n - k ELSE Limit + 1
    BY <2>1, MinOfTwo
  <2> HIDE DEF m
  <2>3. m \in Nat /\ m <= n - k
    BY <1>2, <2>1, <2>2
  <2>4. rows \in Seq(S)
    BY <1>2, SelectedSortable, SortableSubset, SortedRows DEF S, After
  <2>5. SubSeq(rows, 1, m) = [i \in 1 .. m |-> rows[i]]
    BY <1>2, <2>3, <2>4, Prefix
  <2>6. \A i \in 1 .. m : rows[i] = Sorted(S)[k + i]
    BY <1>2, <2>3
  <2> QED
    BY <1>2, <2>5, <2>6 DEF m
<1> HIDE DEF read
<1>4. /\ Shaped(next) /\ next.at = "names" /\ next.watermark = now.watermark
      /\ next.seen = now.seen /\ next.view = now.view /\ next.query = now.query
      /\ next.cursor = now.cursor /\ next.count = now.count /\ next.counted = now.counted
      /\ next.rows = read
  BY <1>1 DEF Shaped, ReaderFields
<1> HIDE DEF next
<1>5. Reads(d, next)
  BY <1>3, <1>4, RowsInHand
<1> QED
  BY <1>5 DEF next, read

LEMMA NamesReads ==
  ASSUME NEW d, NEW now, Reads(d, now), now.at = "names",
         NEW next, next = [now EXCEPT !.at = "answer",
                             !.names = VisibleNames(d, now.query, now.watermark),
                             !.superseded = Superseded(d, now.query, now.watermark)]
  PROVE  Reads(d, next) /\ next.watermark = now.watermark
<1>1. Shaped(now)
  BY DEF Reads
<1>2. /\ Shaped(next) /\ next.at = "answer" /\ next.watermark = now.watermark
      /\ next.seen = now.seen /\ next.view = now.view /\ next.query = now.query
      /\ next.cursor = now.cursor /\ next.count = now.count /\ next.counted = now.counted
      /\ next.rows = now.rows
      /\ next.names = VisibleNames(d, now.query, now.watermark)
      /\ next.superseded = Superseded(d, now.query, now.watermark)
  BY <1>1 DEF Shaped, ReaderFields
<1> QED
  BY <1>2, NamesInHand

LEMMA PagingAnswered ==
  ASSUME NEW d, NEW now, now.at = "answered",
         NEW n, n = Cardinality(Selected(d, now.query, now.watermark)),
         now.view = View(d, now.query, now.watermark), now.count = n,
         Len(now.seen) \in 0 .. n, now.seen = [i \in 1 .. Len(now.seen) |-> now.view[i]],
         NEW last, last = Sorted(Selected(d, now.query, now.watermark))[Len(now.seen)],
         IF now.cursor.set
         THEN /\ now.cursor.context = now.query
              /\ 1 <= Len(now.seen) /\ Len(now.seen) < n
              /\ now.cursor.position = [recorded |-> last.recorded, id |-> last.id]
         ELSE Len(now.seen) = n
  PROVE  Paging(d, now)
BY DEF Paging, Progress, InHand

\* The page is the next entries of the view; there is a cursor exactly when more follow.
LEMMA AnswerReads ==
  ASSUME NEW d, NEW now, Sortable(d.revisions), Reads(d, now), now.at = "answer",
         NEW next, next = [Answered(now) EXCEPT
                             !.count = now.counted, !.seen = @ \o Page(d, now),
                             !.cursor = NextCursor(now.query, now.watermark, now.rows)]
  PROVE  Reads(d, next) /\ next.watermark = now.watermark
<1> DEFINE q == now.query
           w == now.watermark
           S == Selected(d, q, w)
           L == Sorted(S)
           n == Cardinality(S)
           k == Len(now.seen)
           m == Min({n - k, Limit + 1})
           p == Min({n - k, Limit})
           shown == SubSeq(now.rows, 1, Min({Len(now.rows), Limit}))
           page == Page(d, now)
<1>1. Shaped(now) /\ Paging(d, now) /\ d.exists /\ now.cursor.set \in BOOLEAN
  BY DEF Reads, Underway
<1>2. /\ k \in 0 .. n /\ now.seen = [i \in 1 .. k |-> now.view[i]]
      /\ now.counted = n /\ now.view = View(d, q, w)
      /\ now.rows = [i \in 1 .. m |-> L[k + i]]
      /\ now.names = VisibleNames(d, q, w) /\ now.superseded = Superseded(d, q, w)
  BY <1>1 DEF Paging, Progress, InHand
<1>3. /\ n \in Nat
      /\ now.view = [i \in 1 .. n |-> Entry(d, L[i], q, w, now.names, now.superseded)]
  BY <1>2, ViewRows
<1>0. page = [i \in DOMAIN shown |-> Entry(d, shown[i], q, w, now.names, now.superseded)]
  BY DEF Page
<1> HIDE DEF q, w, L, n, k, page
<1>4. /\ k \in Nat /\ Limit \in Nat \ {0}
      /\ m = (IF n - k <= Limit + 1 THEN n - k ELSE Limit + 1)
      /\ p = (IF n - k <= Limit THEN n - k ELSE Limit)
  <2>1. /\ k \in Nat /\ Limit \in Nat \ {0}
        /\ n - k \in Int /\ Limit \in Int /\ Limit + 1 \in Int
    BY <1>2, <1>3, MemoryAssumption
  <2> QED
    BY <2>1, MinOfTwo
<1> HIDE DEF m, p
<1>5. m \in Nat /\ p \in Nat /\ p <= m /\ k + p <= n /\ k + m <= n
  BY <1>2, <1>3, <1>4
<1>6. Len(now.rows) = m /\ Min({m, Limit}) = p
  <2>1. Min({m, Limit}) = IF m <= Limit THEN m ELSE Limit
    BY <1>4, <1>5, MinOfTwo
  <2> QED
    BY <1>2, <1>3, <1>4, <1>5, <2>1
<1>7. shown = [i \in 1 .. p |-> L[k + i]]
  <2> DEFINE V == {L[k + i] : i \in 1 .. m}
  <2>1. now.rows \in [1 .. m -> V]
    BY <1>2
  <2> HIDE DEF V
  <2>2. now.rows \in Seq(V)
    BY <1>5, <2>1
  <2>3. SubSeq(now.rows, 1, p) = [i \in 1 .. p |-> now.rows[i]]
    BY <1>5, <1>6, <2>2, Prefix
  <2>4. \A i \in 1 .. p : now.rows[i] = L[k + i]
    BY <1>2, <1>5
  <2> QED
    BY <1>6, <2>3, <2>4
<1>8. page = [i \in 1 .. p |-> now.view[k + i]]
  <2>1. \A i \in 1 .. p : /\ k + i \in 1 .. n
                          /\ now.view[k + i] = Entry(d, L[k + i], q, w, now.names, now.superseded)
    BY <1>3, <1>4, <1>5
  <2> QED
    BY <1>0, <1>7, <2>1
<1>9. now.seen \o page = [i \in 1 .. k + p |-> now.view[i]] /\ Len(now.seen \o page) = k + p
  <2>1. /\ k \in Nat /\ p \in Nat
        /\ now.seen = [i \in 1 .. k |-> now.view[i]]
        /\ page = [i \in 1 .. p |-> now.view[k + i]]
    BY <1>2, <1>4, <1>5, <1>8
  <2> QED
    BY ONLY <2>1, Pieces
<1>10. /\ Shaped(next) /\ next.at = "answered" /\ next.watermark = w
       /\ next.view = now.view /\ next.query = q /\ next.count = n
       /\ next.seen = now.seen \o page
       /\ next.cursor = NextCursor(q, w, now.rows)
  <2> DEFINE done == Answered(now)
  <2>1. /\ Shaped(done) /\ done.at = "answered" /\ done.watermark = w
        /\ done.view = now.view /\ done.query = q /\ done.seen = now.seen
    BY <1>1 DEF Answered, Shaped, ReaderFields, q, w
  <2>2. next = [done EXCEPT !.count = n, !.seen = @ \o page,
                            !.cursor = NextCursor(q, w, now.rows)]
    BY <1>2 DEF q, w, page
  <2> HIDE DEF done
  <2>3. Shaped(next)
    BY <2>1, <2>2 DEF Shaped, ReaderFields
  <2> QED
    BY <2>1, <2>2 DEF Shaped, ReaderFields
<1>11. /\ Len(next.seen) = k + p
       /\ next.seen = [i \in 1 .. Len(next.seen) |-> next.view[i]]
  <2>1. Len(next.seen) = k + p
    BY <1>9, <1>10
  <2>2. next.seen = [i \in 1 .. k + p |-> now.view[i]]
    BY <1>9, <1>10
  <2>3. next.view = now.view
    BY <1>10
  <2> QED
    BY ONLY <2>1, <2>2, <2>3
<1>12. /\ next.view = View(d, next.query, next.watermark)
       /\ n = Cardinality(Selected(d, next.query, next.watermark))
       /\ L = Sorted(Selected(d, next.query, next.watermark))
  <2>1. next.query = q /\ next.watermark = w /\ next.view = now.view
    BY <1>10
  <2>2. now.view = View(d, q, w)
    BY <1>2
  <2> QED
    BY ONLY <2>1, <2>2 DEF L, n
<1>13. CASE n - k > Limit
  <2>1. p = Limit /\ m > Limit /\ k + p < n /\ 1 <= k + p
    BY <1>3, <1>4, <1>13
  <2>2. LastShown(now.rows) = L[k + p]
    BY <1>2, <1>4, <1>5, <2>1 DEF LastShown
  <2>3. /\ next.cursor.set = TRUE /\ next.cursor.context = q
        /\ next.cursor.position = [recorded |-> L[k + p].recorded, id |-> L[k + p].id]
    BY <1>6, <1>10, <2>1, <2>2 DEF NextCursor
  <2>4. Paging(d, next)
    <3>1. Len(next.seen) \in 0 .. n /\ 1 <= Len(next.seen) /\ Len(next.seen) < n
      <4> DEFINE c == Len(next.seen)
      <4>1. c = k + p /\ n \in Nat /\ k \in Nat /\ p \in Nat
        BY <1>3, <1>4, <1>5, <1>11
      <4> HIDE DEF c
      <4>2. c \in 0 .. n /\ 1 <= c /\ c < n
        BY ONLY <2>1, <4>1
      <4> QED
        BY <4>2 DEF c
    <3>2. next.cursor.position = [recorded |-> L[Len(next.seen)].recorded,
                                  id |-> L[Len(next.seen)].id]
      BY <1>11, <2>3
    <3> QED
      BY ONLY <1>10, <1>11, <1>12, <2>3, <3>1, <3>2, PagingAnswered
  <2> QED
    BY <1>1, <1>10, <2>3, <2>4 DEF Reads, Underway, w
<1>14. CASE ~(n - k > Limit)
  <2>1. p = n - k /\ m = n - k /\ k + p = n /\ ~(m > Limit)
    BY <1>3, <1>4, <1>14
  <2>2. next.cursor.set = FALSE
    BY <1>6, <1>10, <2>1 DEF NextCursor, NoCursor
  <2>3. Paging(d, next)
    <3>1. Len(next.seen) \in 0 .. n /\ Len(next.seen) = n
      <4> DEFINE c == Len(next.seen)
      <4>1. c = n /\ n \in Nat
        BY <1>3, <1>11, <2>1
      <4> HIDE DEF c
      <4>2. c \in 0 .. n /\ c = n
        BY ONLY <4>1
      <4> QED
        BY <4>2 DEF c
    <3> QED
      BY ONLY <1>10, <1>11, <1>12, <2>2, <3>1, PagingAnswered
  <2> QED
    BY <1>1, <1>10, <2>2, <2>3 DEF Reads, Underway, w
<1> QED
  BY <1>3, <1>4, <1>13, <1>14

\* What is lost is in hand only.
LEMMA LoseReads ==
  ASSUME NEW d, NEW now, Reads(d, now), now.at \in Underway \ {"answered"}, now.cursor.set,
         NEW next, next = [Answered(now) EXCEPT !.query = now.cursor.context]
  PROVE  Reads(d, next) /\ next.watermark = now.watermark
<1>1. Shaped(now) /\ Paging(d, now) /\ d.exists
  BY DEF Reads, Underway
<1>2. now.cursor.context = now.query
  BY <1>1 DEF Paging, Progress, InHand
<1>3. /\ Shaped(next) /\ next.at = "answered" /\ next.watermark = now.watermark
      /\ next.seen = now.seen /\ next.view = now.view /\ next.query = now.query
      /\ next.cursor = now.cursor /\ next.count = now.count
  <2> DEFINE done == Answered(now)
  <2>1. /\ Shaped(done) /\ done.at = "answered" /\ done.watermark = now.watermark
        /\ done.view = now.view /\ done.seen = now.seen
        /\ done.cursor = now.cursor /\ done.count = now.count
    BY <1>1 DEF Answered, Shaped, ReaderFields
  <2>2. next = [done EXCEPT !.query = now.query]
    BY <1>2
  <2> HIDE DEF done
  <2> QED
    BY <2>1, <2>2 DEF Shaped, ReaderFields
<1>4. Paging(d, next)
  <2>1. Progress(d, next)
    BY <1>1, <1>3, ProgressStays DEF Paging
  <2>2. InHand(d, next)
    BY <1>1, <1>3 DEF Paging, InHand
  <2> QED
    BY <2>1, <2>2 DEF Paging
<1> QED
  BY <1>1, <1>3, <1>4, ReadsOn DEF Underway

LEMMA NextReads ==
  ASSUME NEW d, NEW now, Reads(d, now), now.at = "answered", NEW q, ContextMatches(now.cursor, q),
         NEW next, next = [[now EXCEPT !.at = "count"] EXCEPT !.query = q]
  PROVE  Reads(d, next) /\ next.watermark = now.watermark
<1>1. Shaped(now) /\ Paging(d, now) /\ d.exists
  BY DEF Reads, Underway
<1>2. now.cursor.context = now.query /\ now.cursor.set /\ q = now.query
  BY <1>1 DEF Paging, Progress, InHand, ContextMatches
<1>3. /\ Shaped(next) /\ next.at = "count" /\ next.watermark = now.watermark
      /\ next.seen = now.seen /\ next.view = now.view /\ next.query = now.query
      /\ next.cursor = now.cursor /\ next.count = now.count
  BY <1>1, <1>2 DEF Shaped, ReaderFields
<1>4. Paging(d, next)
  BY <1>1, <1>2, <1>3 DEF Paging, Progress, InHand
<1> QED
  BY <1>1, <1>2, <1>3, <1>4 DEF Reads, Underway

-----------------------------------------------------------------------------
(***************************************************************************)
(* What is committed.                                                      *)
(***************************************************************************)
\* What a step may do to the dataset of a reader: rows are added behind every watermark.
Extends ==
  \A watermark : Behind(watermark, sequence, pending) =>
    /\ Behind(watermark, sequence', pending')
    /\ Dataset.exists => Dataset'.exists /\ Grown(Dataset, Dataset', watermark)

LEMMA GrownSame ==
  ASSUME NEW d, NEW watermark
  PROVE  Grown(d, d, watermark)
BY DEF Grown

\* A step that writes no row of a dataset.
LEMMA SameRows ==
  ASSUME DInv, data' = data, scenario' = scenario, sequence' = sequence,
         holders' = holders, pending' = pending
  PROVE  Projected' /\ Extends
<1>1. Projected'
  BY DEF DInv, Projected
<1>2. Extends
  BY GrownSame DEF Extends, Dataset
<1> QED
  BY <1>1, <1>2

LEMMA SameLoads ==
  ASSUME DInv, data'["package"] = data["package"], scenario' = scenario, loader' = loader
  PROVE  Inserts' /\ LoadedOnce'
<1>1. Inserts'
  BY DEF DInv, Inserts, Package
<1>2. LoadedOnce'
  BY DEF DInv, LoadedOnce
<1> QED
  BY <1>1, <1>2

LEMMA SortableAdd ==
  ASSUME NEW S, Sortable(S), NEW x, x.recorded \in Nat, x.id \in DOMAIN Rank,
         \A y \in S : y.id # x.id
  PROVE  Sortable(S \cup {x})
BY FS_AddElement DEF Sortable

LEMMA ProjectStep ==
  ASSUME DInv, NEW w \in Writers, NEW o \in Objects, NEW v \in Versions, NEW scopes,
         NEW t \in Times, Project(w, o, v, scopes, t), reader' = reader
  PROVE  DInv' /\ Extends
<1> DEFINE rows == data["operational"].revisions
           new == RevisionOf(o, v, scopes, t)
<1>1. /\ holders' = holders \cup {w} /\ holders \subseteq {w}
      /\ UNCHANGED <<data, staged, loader, granted, scenario>>
  BY DEF Project, RowFree
<1>2. /\ Shapes /\ Projected /\ Inserts /\ LoadedOnce
  BY DEF DInv
<1>3. Inserts' /\ LoadedOnce'
  BY <1>1, SameLoads
<1>4. CASE ExternalId[o][v] \in SeenBy(w)
  <2>1. UNCHANGED <<sequence, pending>>
    BY <1>4 DEF Project
  <2>2. Shapes'
    BY <1>1, <1>2, <2>1 DEF Shapes
  <2>3. Projected'
    BY <1>1, <1>2, <2>1 DEF Projected
  <2>4. Extends
    BY <1>1, <2>1, GrownSame DEF Extends, Dataset
  <2> QED
    BY <1>3, <2>2, <2>3, <2>4 DEF DInv
<1>5. CASE ExternalId[o][v] \notin SeenBy(w)
  <2>1. /\ sequence' = sequence + 1
        /\ pending' = [pending EXCEPT ![w] = @ \cup {new}]
    BY <1>5 DEF Project
  <2>2. /\ new.id = ExternalId[o][v] /\ new.recorded = t /\ new.order = sequence + 1
    BY DEF RevisionOf
  <2>3. new.id \in DOMAIN Rank /\ new.recorded \in Nat
    BY <2>2, MemoryAssumption
  <2>4. \A y \in rows \cup pending[w] : y.id # new.id
    BY <1>5, <2>2 DEF SeenBy
  <2> HIDE DEF new
  <2>5. /\ sequence \in Nat /\ pending = [u \in Writers |-> pending[u]]
    BY <1>2 DEF Shapes
  <2>6. /\ pending'[w] = pending[w] \cup {new}
        /\ \A u \in Writers \ {w} : pending'[u] = pending[u] /\ pending[u] = {}
    BY <1>1, <1>2, <2>1, <2>5 DEF Projected
  <2>7. Shapes'
    <3>1. sequence' \in Nat /\ holders' \subseteq Writers
      BY <1>1, <1>2, <2>1 DEF Shapes
    <3>2. pending' = [u \in Writers |-> pending'[u]]
      BY <2>1, <2>5
    <3> QED
      BY <1>1, <1>2, <3>1, <3>2 DEF Shapes
  <2>8. Sortable(rows \cup pending'[w])
    <3>1. Sortable(rows \cup pending[w])
      BY <1>2 DEF Projected
    <3> HIDE DEF rows
    <3>2. Sortable((rows \cup pending[w]) \cup {new})
      BY <3>1, <2>3, <2>4, SortableAdd
    <3> QED
      BY <3>2, <2>6
  <2>9. Projected'
    <3>1. \A u \in Writers :
            /\ pending'[u] # {} => u \in holders'
            /\ Sortable(rows \cup pending'[u]) /\ Numbered(pending'[u], sequence')
            /\ \A x \in rows : \A y \in pending'[u] : x.order < y.order
      <4>1. SUFFICES ASSUME NEW u \in Writers
                     PROVE  /\ pending'[u] # {} => u \in holders'
                            /\ Sortable(rows \cup pending'[u]) /\ Numbered(pending'[u], sequence')
                            /\ \A x \in rows : \A y \in pending'[u] : x.order < y.order
        OBVIOUS
      <4>2. /\ Numbered(rows, sequence) /\ Numbered(pending[w], sequence)
            /\ \A x \in rows : \A y \in pending[w] : x.order < y.order
            /\ Sortable(rows)
        BY <1>2 DEF Projected
      <4>3. CASE u = w
        <5>1. Numbered(pending'[w], sequence')
          BY <2>1, <2>2, <2>5, <2>6, <4>2 DEF Numbered
        <5>2. \A x \in rows : \A y \in pending'[w] : x.order < y.order
          BY <2>2, <2>5, <2>6, <4>2 DEF Numbered
        <5> QED
          BY <1>1, <2>8, <4>3, <5>1, <5>2
      <4>4. CASE u # w
        <5>1. pending'[u] = {} /\ rows \cup pending'[u] = rows
          BY <2>6, <4>4
        <5> QED
          BY <4>2, <5>1 DEF Numbered
      <4> QED
        BY <4>3, <4>4
    <3>2. Numbered(rows, sequence')
      BY <1>2, <2>1, <2>5 DEF Projected, Numbered
    <3>3. /\ data["operational"].relationships = {} /\ Sortable(rows)
          /\ \A x, y \in holders' : x = y
      BY <1>1, <1>2 DEF Projected
    <3> QED
      BY <1>1, <3>1, <3>2, <3>3 DEF Projected
  <2>10. Extends
    <3>1. Dataset' = Dataset
      BY <1>1 DEF Dataset
    <3>2. \A watermark : Behind(watermark, sequence, pending) => Behind(watermark, sequence', pending')
      BY <2>1, <2>2, <2>5, <2>6 DEF Behind
    <3> QED
      BY <3>1, <3>2, GrownSame DEF Extends
  <2> QED
    BY <1>3, <2>7, <2>9, <2>10 DEF DInv
<1> QED
  BY <1>4, <1>5

LEMMA CommitStep ==
  ASSUME DInv, NEW w \in Writers, CommitProjections(w), reader' = reader
  PROVE  DInv' /\ Extends
<1> DEFINE rows == data["operational"].revisions
           d == data["operational"]
           e == data'["operational"]
<1>1. /\ w \in holders /\ holders' = holders \ {w}
      /\ data' = [data EXCEPT !["operational"].revisions = @ \cup pending[w]]
      /\ pending' = [pending EXCEPT ![w] = {}]
      /\ UNCHANGED <<sequence, staged, loader, granted, scenario>>
  BY DEF CommitProjections
<1>2. Shapes /\ Projected /\ Inserts /\ LoadedOnce
  BY DEF DInv
<1>3. /\ data = [x \in {"operational", "package"} |-> data[x]]
      /\ d = [f \in Table |-> d[f]] /\ d.exists \in BOOLEAN
      /\ pending = [u \in Writers |-> pending[u]] /\ sequence \in Nat /\ holders \subseteq Writers
  BY <1>2 DEF Shapes
<1>4. /\ data' = [x \in {"operational", "package"} |-> data'[x]]
      /\ data'["package"] = data["package"]
      /\ e = [d EXCEPT !.revisions = @ \cup pending[w]]
  BY <1>1, <1>3
<1>5. /\ e = [f \in Table |-> e[f]] /\ e.exists = d.exists
      /\ e.revisions = rows \cup pending[w] /\ e.relationships = d.relationships
  <2> HIDE DEF e, d
  <2> QED
    BY <1>3, <1>4 DEF Table, d
<1>6. /\ pending' = [u \in Writers |-> pending'[u]]
      /\ \A u \in Writers : pending'[u] = {}
  BY <1>1, <1>2, <1>3 DEF Projected
<1>7. Shapes'
  <2>1. \A x \in {"operational", "package"} :
          data'[x] = [f \in Table |-> data'[x][f]] /\ data'[x].exists \in BOOLEAN
    BY <1>2, <1>3, <1>4, <1>5 DEF Shapes
  <2> QED
    BY <1>1, <1>2, <1>4, <1>6, <2>1 DEF Shapes
<1>8. Inserts' /\ LoadedOnce'
  BY <1>1, <1>4, SameLoads
<1>9. Projected'
  <2>1. /\ d.relationships = {} /\ \A x, y \in holders' : x = y
        /\ Sortable(rows \cup pending[w])
        /\ Numbered(rows, sequence) /\ Numbered(pending[w], sequence)
    BY <1>1, <1>2 DEF Projected
  <2>2. Numbered(rows \cup pending[w], sequence')
    BY <1>1, <2>1 DEF Numbered
  <2>3. \A u \in Writers : e.revisions \cup pending'[u] = e.revisions
    BY <1>6
  <2>4. \A u \in Writers : Numbered(pending'[u], sequence')
    BY <1>6 DEF Numbered
  <2> QED
    BY <1>5, <1>6, <2>1, <2>2, <2>3, <2>4 DEF Projected
<1>10. Extends
  <2>1. SUFFICES ASSUME NEW watermark, Behind(watermark, sequence, pending)
                 PROVE  /\ Behind(watermark, sequence', pending')
                        /\ Dataset.exists => Dataset'.exists /\ Grown(Dataset, Dataset', watermark)
    BY DEF Extends
  <2>2. Behind(watermark, sequence', pending')
    BY <1>1, <1>6, <2>1 DEF Behind
  <2>3. ASSUME scenario.dataset = "operational" PROVE Grown(d, e, watermark)
    <3>1. \A x \in pending[w] : watermark.records < x.order /\ x.order \in Nat
      BY <1>2, <2>1, <2>3 DEF Behind, Projected, Numbered
    <3>2. \A x \in pending[w] : ~(x.order <= watermark.records)
      BY <2>1, <2>3, <3>1 DEF Behind
    <3> QED
      BY <1>5, <3>2 DEF Grown
  <2>4. scenario.dataset \in {"operational", "package"}
    BY <1>2, MemoryAssumption DEF Shapes
  <2>5. CASE scenario.dataset = "operational"
    BY <1>1, <1>5, <2>2, <2>3, <2>5 DEF Dataset
  <2>6. CASE scenario.dataset = "package"
    BY <1>1, <1>4, <2>2, <2>6, GrownSame DEF Dataset
  <2> QED
    BY <2>4, <2>5, <2>6
<1> QED
  BY <1>7, <1>8, <1>9, <1>10 DEF DInv

LEMMA AbandonStep ==
  ASSUME DInv, NEW w \in Writers, AbandonProjections(w), reader' = reader
  PROVE  DInv' /\ Extends
<1>1. /\ holders' = holders \ {w} /\ w \in holders
      /\ pending' = [pending EXCEPT ![w] = {}]
      /\ UNCHANGED <<data, sequence, staged, loader, granted, scenario>>
  BY DEF AbandonProjections
<1>2. Shapes /\ Projected
  BY DEF DInv
<1>3. /\ pending' = [u \in Writers |-> pending'[u]]
      /\ \A u \in Writers : pending'[u] = {}
  BY <1>1, <1>2 DEF Projected, Shapes
<1>4. Shapes'
  BY <1>1, <1>2, <1>3 DEF Shapes
<1>5. Inserts' /\ LoadedOnce'
  BY <1>1, SameLoads
<1>6. Projected'
  <2>1. \A u \in Writers : /\ data["operational"].revisions \cup pending'[u] =
                                data["operational"].revisions
                           /\ Numbered(pending'[u], sequence)
    BY <1>3 DEF Numbered
  <2> QED
    BY <1>1, <1>2, <1>3, <2>1 DEF Projected
<1>7. Extends
  <2>1. \A watermark : Behind(watermark, sequence, pending) => Behind(watermark, sequence', pending')
    BY <1>1, <1>3 DEF Behind
  <2> QED
    BY <1>1, <2>1, GrownSame DEF Extends, Dataset
<1> QED
  BY <1>4, <1>5, <1>6, <1>7 DEF DInv

\* A loader that goes on without writing rows.
LEMMA LoaderStep ==
  ASSUME DInv, NEW l \in Loaders, NEW to, loader' = [loader EXCEPT ![l] = to], reader' = reader,
         UNCHANGED <<data, sequence, staged>>, LoaderKeeps,
         loader[l] # "loaded", to # "loaded",
         to \in {"checked", "inserted"} => GraphHolds(Package),
         to = "inserted" => ~data["package"].exists /\ ~Inserting(l)
  PROVE  DInv' /\ Extends
<1>1. Shapes /\ Projected /\ Inserts /\ LoadedOnce
  BY DEF DInv
<1>2. UNCHANGED <<data, sequence, holders, pending, scenario>>
  BY DEF LoaderKeeps
<1>3. Projected' /\ Extends
  BY <1>2, SameRows
<1>4. /\ loader' = [x \in Loaders |-> loader'[x]] /\ loader'[l] = to
      /\ \A x \in Loaders \ {l} : loader'[x] = loader[x]
  BY <1>1 DEF Shapes
<1>5. Shapes'
  BY <1>1, <1>2, <1>4 DEF Shapes
<1>6. Inserts'
  <2>1. \A x \in Loaders : /\ loader'[x] \in {"checked", "inserted"} => GraphHolds(Package)
                           /\ loader'[x] = "loaded" => data["package"].exists
    BY <1>1, <1>4 DEF Inserts
  <2>2. \A x \in Loaders : loader'[x] = "inserted" =>
          /\ ~data["package"].exists
          /\ \A other \in Loaders : loader'[other] = "inserted" => other = x
    BY <1>1, <1>4 DEF Inserts, Inserting
  <2>3. Sortable(data["package"].revisions)
    BY <1>1 DEF Inserts
  <2> QED
    BY <1>2, <2>1, <2>2, <2>3 DEF Inserts, Package
<1>7. LoadedOnce'
  <2>1. ASSUME NEW x \in Loaders PROVE loader'[x] = "loaded" <=> loader[x] = "loaded"
    BY <1>4
  <2> QED
    BY <1>1, <1>2, <2>1 DEF LoadedOnce
<1> QED
  BY <1>3, <1>5, <1>6, <1>7 DEF DInv

LEMMA StageStep ==
  ASSUME DInv, StagePackage, reader' = reader
  PROVE  DInv' /\ Extends
<1>1. UNCHANGED <<data, sequence, holders, pending, scenario, loader>>
  BY DEF StagePackage, LoaderKeeps
<1>2. Projected' /\ Extends
  BY <1>1, SameRows
<1>3. Inserts' /\ LoadedOnce'
  BY <1>1, SameLoads
<1>4. Shapes'
  BY <1>1 DEF DInv, Shapes
<1> QED
  BY <1>2, <1>3, <1>4 DEF DInv

LEMMA CheckStep ==
  ASSUME DInv, NEW l \in Loaders, Check(l), reader' = reader
  PROVE  DInv' /\ Extends
<1> DEFINE to == IF ~staged THEN "failed"
                 ELSE IF data["package"].exists THEN "unchanged"
                 ELSE IF GraphHolds(Package) THEN "checked" ELSE "failed"
<1>1. /\ loader' = [loader EXCEPT ![l] = to] /\ loader[l] = "idle"
      /\ UNCHANGED <<data, sequence, staged>> /\ LoaderKeeps
  BY DEF Check
<1>2. to # "loaded" /\ to # "inserted" /\ (to = "checked" => GraphHolds(Package))
  OBVIOUS
<1> HIDE DEF to
<1> QED
  BY <1>1, <1>2, LoaderStep

LEMMA InsertStep ==
  ASSUME DInv, NEW l \in Loaders, Insert(l), reader' = reader
  PROVE  DInv' /\ Extends
<1> DEFINE to == IF data["package"].exists THEN "failed" ELSE "inserted"
<1>1. /\ loader' = [loader EXCEPT ![l] = to] /\ loader[l] = "checked" /\ ~Inserting(l)
      /\ UNCHANGED <<data, sequence, staged>> /\ LoaderKeeps
  BY DEF Insert
<1>2. /\ to \in {"failed", "inserted"} /\ (to = "inserted" => ~data["package"].exists)
      /\ GraphHolds(Package)
  BY <1>1 DEF DInv, Inserts
<1> HIDE DEF to
<1> QED
  BY <1>1, <1>2, LoaderStep

LEMMA KillStep ==
  ASSUME DInv, NEW l \in Loaders, KillLoad(l), reader' = reader
  PROVE  DInv' /\ Extends
BY LoaderStep DEF KillLoad

\* What a package makes of its records.
LEMMA LoadedRows ==
  ASSUME NEW p, IsFiniteSet(DOMAIN p.records), DOMAIN p.records \subseteq DOMAIN Rank,
         \A id \in DOMAIN p.records : p.records[id].recorded \in Nat
  PROVE  /\ Sortable(LoadedRevisions(p))
         /\ UNION {x.names : x \in LoadedRevisions(p)} = RecordTargets(p) \cup Actions(p)
         /\ \A x \in LoadedRevisions(p) :
              \E id \in DOMAIN p.records : x.references = p.records[id].references
<1> DEFINE R == LoadedRevisions(p)
           D == DOMAIN p.records
           row(id) == [id |-> id, record |-> Stable(p.records, id),
                       names |-> {id, Stable(p.records, id)} \cup p.records[id].actions,
                       order |-> sequence + OrderIn(D, id), recorded |-> p.records[id].recorded,
                       supersedes |-> p.records[id].supersedes,
                       disclosed |-> p.records[id].disclosed,
                       references |-> p.records[id].references]
<1>1. R = {row(id) : id \in D}
  BY DEF LoadedRevisions
<1>2. \A id \in D :
        /\ row(id).id = id /\ row(id).recorded = p.records[id].recorded
        /\ row(id).names = {id, Stable(p.records, id)} \cup p.records[id].actions
        /\ row(id).references = p.records[id].references
  OBVIOUS
<1> HIDE DEF row, R
<1>3. IsFiniteSet(R)
  <2> DEFINE f == [id \in D |-> row(id)]
  <2>1. f \in Surjection(D, R)
    BY <1>1 DEF Surjection
  <2> HIDE DEF f
  <2> QED
    BY <2>1, FS_Surjection
<1>4. Sortable(R)
  BY <1>1, <1>2, <1>3 DEF Sortable
<1>5. UNION {x.names : x \in R} = RecordTargets(p) \cup Actions(p)
  BY <1>1, <1>2 DEF RecordTargets, Actions
<1> QED
  BY <1>1, <1>2, <1>4, <1>5 DEF R

LEMMA LoadStep ==
  ASSUME DInv, NEW l \in Loaders, Load(l), reader' = reader
  PROVE  DInv' /\ Extends
<1>1. Shapes /\ Projected /\ Inserts /\ LoadedOnce
  BY DEF DInv
<1>2. loader[l] = "inserted" /\ LoaderKeeps /\ UNCHANGED staged
  BY DEF Load
<1>3. CASE ~RowsHold(Package)
  <2>1. loader' = [loader EXCEPT ![l] = "failed"] /\ UNCHANGED <<data, sequence>>
    BY <1>3 DEF Load
  <2> QED
    BY <1>2, <2>1, LoaderStep
<1>4. CASE RowsHold(Package)
  <2> DEFINE R == LoadedRevisions(Package)
             I == LoadedRelationships(Package)
             n == Cardinality(DOMAIN Package.records)
             table == [exists |-> TRUE, revisions |-> R, relationships |-> I]
  <2>1. /\ loader' = [loader EXCEPT ![l] = "loaded"]
        /\ data' = [data EXCEPT !["package"] = table]
        /\ sequence' = sequence + n
        /\ UNCHANGED <<holders, pending, granted, scenario>>
    BY <1>2, <1>4 DEF Load, LoaderKeeps
  <2>2. /\ GraphHolds(Package) /\ ~data["package"].exists
        /\ \A other \in Loaders : loader[other] = "inserted" => other = l
        /\ \A other \in Loaders : loader[other] # "loaded"
    BY <1>1, <1>2 DEF Inserts
  <2>3. /\ IsFiniteSet(DOMAIN Package.records) /\ DOMAIN Package.records \subseteq DOMAIN Rank
        /\ \A id \in DOMAIN Package.records : Package.records[id].recorded \in Nat
    BY <1>1, MemoryAssumption DEF Shapes, Package
  <2>4. /\ Sortable(R)
        /\ UNION {x.names : x \in R} = RecordTargets(Package) \cup Actions(Package)
        /\ \A x \in R :
             \E id \in DOMAIN Package.records : x.references = Package.records[id].references
    BY <2>3, LoadedRows
  <2>5. \A x \in R : x.references \subseteq UNION {y.names : y \in R}
    BY <2>2, <2>4 DEF GraphHolds, Known
  <2>6. \A item \in I : item.ends \subseteq UNION {x.names : x \in R}
    <3>1. ASSUME NEW item \in I
          PROVE  \E id \in DOMAIN Package.relationships :
                   item.ends = Package.relationships[id].ends
      BY DEF LoadedRelationships
    <3> HIDE DEF I, R
    <3> QED
      BY <1>4, <2>4, <3>1 DEF RowsHold, Known
  <2>7. n \in Nat /\ sequence \in Nat
    BY <1>1, <2>3, FS_CardinalityType DEF Shapes
  <2> HIDE DEF R, I, n
  <2>8. /\ loader' = [x \in Loaders |-> loader'[x]] /\ loader'[l] = "loaded"
        /\ \A x \in Loaders \ {l} : loader'[x] = loader[x]
    BY <1>1, <2>1 DEF Shapes
  <2>9. /\ data' = [x \in {"operational", "package"} |-> data'[x]]
        /\ data'["operational"] = data["operational"] /\ data'["package"] = table
    BY <1>1, <2>1 DEF Shapes
  <2>10. Shapes'
    <3>1. table = [f \in Table |-> table[f]] /\ table.exists \in BOOLEAN
      BY DEF Table
    <3> HIDE DEF table
    <3>2. \A x \in {"operational", "package"} :
            data'[x] = [f \in Table |-> data'[x][f]] /\ data'[x].exists \in BOOLEAN
      BY <1>1, <2>9, <3>1 DEF Shapes
    <3> QED
      BY <1>1, <2>1, <2>7, <2>8, <2>9, <3>2 DEF Shapes
  <2>11. Projected'
    <3>1. \A S : Numbered(S, sequence) => Numbered(S, sequence')
      BY <2>1, <2>7 DEF Numbered
    <3> QED
      BY <1>1, <2>1, <2>9, <3>1 DEF Projected
  <2>12. table.exists = TRUE /\ table.revisions = R /\ table.relationships = I
    OBVIOUS
  <2> HIDE DEF table
  <2>13. Inserts'
    <3>1. \A x \in Loaders : /\ loader'[x] \in {"checked", "inserted"} => GraphHolds(Package)
                             /\ loader'[x] # "inserted"
      BY <1>1, <2>2, <2>8 DEF Inserts
    <3> QED
      BY <2>1, <2>4, <2>9, <2>12, <3>1 DEF Inserts, Package
  <2>14. LoadedOnce'
    <3>1. \A other \in Loaders : loader'[other] = "loaded" <=> other = l
      BY <2>2, <2>8
    <3> QED
      BY <2>5, <2>6, <2>9, <2>12, <3>1 DEF LoadedOnce
  <2>15. Extends
    <3>1. \A watermark : Behind(watermark, sequence, pending) => Behind(watermark, sequence', pending')
      BY <2>1, <2>7 DEF Behind
    <3>2. scenario.dataset \in {"operational", "package"}
      BY <1>1, MemoryAssumption DEF Shapes
    <3>3. CASE scenario.dataset = "operational"
      BY <2>1, <2>9, <3>1, <3>3, GrownSame DEF Extends, Dataset
    <3>4. CASE scenario.dataset = "package"
      BY <2>1, <2>2, <3>1, <3>4 DEF Extends, Dataset
    <3> QED
      BY <3>2, <3>3, <3>4
  <2> QED
    BY <2>10, <2>11, <2>13, <2>14, <2>15 DEF DInv
<1> QED
  BY <1>3, <1>4

-----------------------------------------------------------------------------
(***************************************************************************)
(* The invariant.                                                          *)
(***************************************************************************)
LEMMA WatermarkBehind ==
  ASSUME DInv, NEW q
  PROVE  Behind(Watermark(Dataset, q), sequence, pending)
<1> DEFINE rows == data["operational"].revisions
           orders == {0} \cup {row.order : row \in {x \in rows : Eligible(x, q)}}
           m == Watermark(Dataset, q).records
<1>1. SUFFICES ASSUME scenario.dataset = "operational"
               PROVE  /\ m \in Nat /\ m <= sequence
                      /\ \A w \in Writers : \A x \in pending[w] : m < x.order
  BY DEF Behind
<1>2. /\ sequence \in Nat /\ Numbered(rows, sequence)
      /\ \A w \in Writers : /\ Numbered(pending[w], sequence)
                            /\ \A x \in rows : \A y \in pending[w] : x.order < y.order
  BY DEF DInv, Shapes, Projected
<1>3. m = Max(orders)
  BY <1>1 DEF Watermark, MaxOrderOf, Dataset
<1>4. /\ orders \subseteq Nat /\ orders # {} /\ \A x \in orders : x <= sequence
      /\ \A x \in orders : x = 0 \/ \E row \in rows : x = row.order
  BY <1>2 DEF Numbered
<1> HIDE DEF m, orders
<1>5. m \in orders
  BY <1>2, <1>3, <1>4, GreatestNatural
<1>6. \A w \in Writers : \A x \in pending[w] : m < x.order
  <2>1. CASE m = 0
    BY <1>2, <2>1 DEF Numbered
  <2>2. CASE m # 0
    <3>1. PICK row \in rows : m = row.order
      BY <1>4, <1>5, <2>2
    <3> QED
      BY <1>2, <3>1
  <2> QED
    BY <2>1, <2>2
<1> QED
  BY <1>4, <1>5, <1>6

\* Where readers are, whatever is committed.
LEMMA AnswersStay ==
  ASSUME DInv, Extends, Answers, scenario' = scenario, reader' = reader
  PROVE  Answers'
<1>1. ASSUME NEW r \in Readers
      PROVE  /\ Reads(Dataset', reader[r])
             /\ reader[r].at \in Underway => Behind(reader[r].watermark, sequence', pending')
  <2> DEFINE now == reader[r]
  <2>1. Reads(Dataset, now) /\ (now.at \in Underway => Behind(now.watermark, sequence, pending))
    BY DEF Answers
  <2>2. now.at \in Underway =>
          /\ Behind(now.watermark, sequence', pending')
          /\ Dataset.exists => Dataset'.exists /\ Grown(Dataset, Dataset', now.watermark)
    BY <2>1 DEF Extends
  <2>3. now.at # "idle" => Dataset.exists
    BY <2>1 DEF Reads
  <2>4. now.at \in Underway => Paging(Dataset', now)
    <3> SUFFICES ASSUME now.at \in Underway PROVE Paging(Dataset', now)
      OBVIOUS
    <3>1. Grown(Dataset, Dataset', now.watermark) /\ Paging(Dataset, now)
      BY <2>1, <2>2, <2>3 DEF Reads, Underway
    <3> HIDE DEF now
    <3> QED
      BY <3>1, PagingStays
  <2>5. Dataset.exists => Dataset'.exists
    <3> DEFINE none == [records |-> 0]
    <3>1. none.records = 0
      OBVIOUS
    <3> HIDE DEF none
    <3>2. Behind(none, sequence, pending)
      <4>1. sequence \in Nat
        BY DEF DInv, Shapes
      <4>2. \A w \in Writers : \A x \in pending[w] : 0 < x.order
        BY DEF DInv, Projected, Numbered
      <4> QED
        BY <3>1, <4>1, <4>2 DEF Behind
    <3> QED
      BY <3>2 DEF Extends
  <2> QED
    BY <2>1, <2>2, <2>3, <2>4, <2>5 DEF Reads
<1> QED
  BY <1>1 DEF Answers, Behind

\* A statement of one reader.
LEMMA ReaderStep ==
  ASSUME IInv, NEW r \in Readers, NEW next, reader' = [reader EXCEPT ![r] = next],
         Reads(Dataset, next),
         next.at \in Underway => Behind(next.watermark, sequence, pending),
         UNCHANGED <<data, sequence, holders, pending, staged, loader, scenario>>
  PROVE  IInv'
<1>1. DInv /\ Answers
  BY DEF IInv
<1>2. reader = [s \in Readers |-> reader[s]]
  BY <1>1 DEF DInv, Shapes
<1>3. /\ reader' = [s \in Readers |-> reader'[s]] /\ reader'[r] = next
      /\ \A s \in Readers \ {r} : reader'[s] = reader[s]
  BY <1>2
<1>4. Projected'
  BY <1>1, SameRows
<1>5. Inserts' /\ LoadedOnce'
  BY <1>1, SameLoads
<1>6. Shapes'
  BY <1>1, <1>3 DEF DInv, Shapes
<1>7. Answers'
  <2>1. ASSUME NEW s \in Readers
        PROVE  /\ Reads(Dataset, reader'[s])
               /\ reader'[s].at \in Underway => Behind(reader'[s].watermark, sequence, pending)
    <3>1. CASE s = r
      BY <1>3, <3>1
    <3>2. CASE s # r
      BY <1>1, <1>3, <3>2 DEF Answers
    <3> QED
      BY <3>1, <3>2
  <2>2. Dataset' = Dataset
    BY DEF Dataset
  <2> QED
    BY <2>1, <2>2 DEF Answers, Behind
<1> QED
  BY <1>4, <1>5, <1>6, <1>7 DEF DInv, IInv

\* One lemma says it for every statement that keeps the watermark.
LEMMA StatementStep ==
  ASSUME IInv, NEW r \in Readers, NEW next, reader' = [reader EXCEPT ![r] = next],
         reader[r].at \in Underway,
         Reads(Dataset, next), next.watermark = reader[r].watermark, ReaderKeeps
  PROVE  IInv'
<1>1. Behind(next.watermark, sequence, pending)
  BY DEF IInv, Answers
<1> QED
  BY <1>1, ReaderStep DEF ReaderKeeps

LEMMA DatasetSortable ==
  ASSUME DInv
  PROVE  Sortable(Dataset.revisions)
<1>1. scenario.dataset \in {"operational", "package"}
  BY MemoryAssumption DEF DInv, Shapes
<1> QED
  BY <1>1 DEF DInv, Projected, Inserts, Dataset

LEMMA ReaderActions ==
  ASSUME IInv, NEW r \in Readers,
         \/ \E q \in scenario.queries : Ask(r, q) \/ AskNext(r, q)
         \/ TakeWatermark(r) \/ TakeCount(r) \/ TakeRows(r) \/ TakeNames(r)
         \/ Answer(r) \/ LoseAnswer(r) \/ Leave(r)
         \/ \E scope \in scenario.withdrawn : Withdraw(r, scope)
  PROVE  IInv'
<1> DEFINE now == reader[r]
           S == Selected(Dataset, now.query, now.watermark)
<1>1. DInv /\ Answers /\ Sortable(Dataset.revisions) /\ Reads(Dataset, now)
  BY DatasetSortable DEF IInv, Answers
<1>2. now.at \in {"idle", "watermark"} \cup Underway
  BY <1>1 DEF Reads
<1>3. reader = [s \in Readers |-> reader[s]]
  BY <1>1 DEF DInv, Shapes
<1>4. ASSUME NEW q \in scenario.queries, Ask(r, q) PROVE IInv'
  <2> DEFINE next == [Idle EXCEPT !.at = "watermark", !.query = q]
  <2>1. reader' = [reader EXCEPT ![r] = next] /\ Dataset.exists /\ ReaderKeeps
    BY <1>4 DEF Ask
  <2>2. Reads(Dataset, next) /\ next.at = "watermark"
    BY <2>1, AskReads
  <2> HIDE DEF next
  <2> QED
    BY <2>1, <2>2, ReaderStep DEF ReaderKeeps, Underway
<1>5. ASSUME NEW q \in scenario.queries, AskNext(r, q) PROVE IInv'
  <2> DEFINE next == [[now EXCEPT !.at = "count"] EXCEPT !.query = q]
  <2>1. /\ now.at = "answered" /\ ContextMatches(now.cursor, q) /\ ReaderKeeps
        /\ reader' = [reader EXCEPT ![r].at = "count", ![r].query = q]
    BY <1>5 DEF AskNext
  <2>2. reader' = [reader EXCEPT ![r] = next]
    BY <1>3, <2>1
  <2> HIDE DEF now
  <2>3. Reads(Dataset, next) /\ next.watermark = now.watermark
    BY <1>1, <2>1, NextReads
  <2> HIDE DEF next
  <2> QED
    BY <2>1, <2>2, <2>3, StatementStep DEF now, Underway
<1>6. ASSUME TakeWatermark(r) PROVE IInv'
  <2> DEFINE w == Watermark(Dataset, now.query)
             next == [now EXCEPT !.at = "count", !.watermark = w,
                                 !.view = View(Dataset, now.query, w)]
  <2>1. now.at = "watermark" /\ reader' = [reader EXCEPT ![r] = next] /\ ReaderKeeps
    BY <1>6 DEF TakeWatermark
  <2>2. Behind(w, sequence, pending)
    BY <1>1, WatermarkBehind
  <2> HIDE DEF w
  <2>3. Reads(Dataset, next) /\ next.watermark = w
    <3>1. next = [now EXCEPT !.at = "count", !.watermark = w,
                             !.view = View(Dataset, now.query, w)]
      OBVIOUS
    <3> HIDE DEF now, next
    <3>2. Reads(Dataset, next)
      BY <1>1, <2>1, <3>1, WatermarkReads
    <3>3. next.watermark = w
      BY <1>1, <3>1 DEF Reads, Shaped, ReaderFields
    <3> QED
      BY <3>2, <3>3
  <2> HIDE DEF next
  <2> QED
    BY <2>1, <2>2, <2>3, ReaderStep DEF ReaderKeeps
<1>7. ASSUME TakeCount(r) PROVE IInv'
  <2> DEFINE next == [now EXCEPT !.at = "rows", !.counted = Cardinality(S)]
  <2>1. now.at = "count" /\ reader' = [reader EXCEPT ![r] = next] /\ ReaderKeeps
    BY <1>7 DEF TakeCount
  <2>2. Reads(Dataset, next) /\ next.watermark = now.watermark
    <3> HIDE DEF now
    <3> QED
      BY <1>1, <2>1, CountReads
  <2> HIDE DEF next
  <2> QED
    BY <2>1, <2>2, StatementStep DEF Underway
<1>8. ASSUME TakeRows(r) PROVE IInv'
  <2> DEFINE rows == Sorted(After(now.cursor, S))
             more == [now EXCEPT !.at = "names",
                                 !.rows = SubSeq(rows, 1, Min({Len(rows), Limit + 1}))]
  <2>1. /\ now.at = "rows" /\ ReaderKeeps
        /\ reader' = [reader EXCEPT ![r] =
             IF now.query.record # None /\ rows = <<>> THEN Idle ELSE more]
    BY <1>8 DEF TakeRows
  <2>2. Reads(Dataset, more) /\ more.watermark = now.watermark
    <3>1. more = [now EXCEPT !.at = "names",
                             !.rows = SubSeq(rows, 1, Min({Len(rows), Limit + 1}))]
      OBVIOUS
    <3>2. rows = Sorted(After(now.cursor, Selected(Dataset, now.query, now.watermark)))
      OBVIOUS
    <3> HIDE DEF now, more, rows
    <3>3. Reads(Dataset, more)
      BY <1>1, <2>1, <3>1, <3>2, RowsReads
    <3>4. more.watermark = now.watermark
      BY <1>1, <3>1 DEF Reads, Shaped, ReaderFields
    <3> QED
      BY <3>3, <3>4
  <2>3. Reads(Dataset, Idle) /\ Idle.at = "idle"
    BY IdleReads
  <2> HIDE DEF more, rows
  <2>4. CASE now.query.record # None /\ rows = <<>>
    <3>1. reader' = [reader EXCEPT ![r] = Idle]
      BY <2>1, <2>4
    <3> QED
      BY <2>1, <2>3, <3>1, ReaderStep DEF ReaderKeeps, Underway
  <2>5. CASE ~(now.query.record # None /\ rows = <<>>)
    <3>1. reader' = [reader EXCEPT ![r] = more]
      BY <2>1, <2>5
    <3> QED
      BY <2>1, <2>2, <3>1, StatementStep DEF Underway
  <2> QED
    BY <2>4, <2>5
<1>9. ASSUME TakeNames(r) PROVE IInv'
  <2> DEFINE next == [now EXCEPT !.at = "answer",
                        !.names = VisibleNames(Dataset, now.query, now.watermark),
                        !.superseded = Superseded(Dataset, now.query, now.watermark)]
  <2>1. now.at = "names" /\ reader' = [reader EXCEPT ![r] = next] /\ ReaderKeeps
    BY <1>9 DEF TakeNames
  <2>2. Reads(Dataset, next) /\ next.watermark = now.watermark
    <3> HIDE DEF now
    <3> QED
      BY <1>1, <2>1, NamesReads
  <2> HIDE DEF next
  <2> QED
    BY <2>1, <2>2, StatementStep DEF Underway
<1>10. ASSUME Answer(r) PROVE IInv'
  <2> DEFINE next == [Answered(now) EXCEPT
                        !.count = now.counted, !.seen = @ \o Page(Dataset, now),
                        !.cursor = NextCursor(now.query, now.watermark, now.rows)]
  <2>1. now.at = "answer" /\ reader' = [reader EXCEPT ![r] = next] /\ ReaderKeeps
    BY <1>10 DEF Answer
  <2>2. Reads(Dataset, next) /\ next.watermark = now.watermark
    <3>1. next = [Answered(now) EXCEPT
                    !.count = now.counted, !.seen = @ \o Page(Dataset, now),
                    !.cursor = NextCursor(now.query, now.watermark, now.rows)]
      OBVIOUS
    <3> HIDE DEF now, next
    <3>2. Reads(Dataset, next)
      BY <1>1, <2>1, <3>1, AnswerReads
    <3>3. next.watermark = now.watermark
      BY <1>1, <3>1 DEF Reads, Shaped, ReaderFields, Answered
    <3> QED
      BY <3>2, <3>3
  <2> HIDE DEF next
  <2> QED
    BY <2>1, <2>2, StatementStep DEF Underway
<1>11. ASSUME LoseAnswer(r) PROVE IInv'
  <2> DEFINE next == [Answered(now) EXCEPT !.query = now.cursor.context]
  <2>1. /\ now.at \in {"watermark", "count", "rows", "names", "answer"} /\ ReaderKeeps
        /\ reader' = [reader EXCEPT ![r] = IF now.cursor.set THEN next ELSE Idle]
    BY <1>11 DEF LoseAnswer
  <2>2. CASE now.cursor.set
    <3>1. now.at \in Underway \ {"answered"}
      <4>1. now.at # "watermark"
        BY <1>1, <2>2 DEF Reads, NoCursor
      <4> QED
        BY <2>1, <4>1 DEF Underway
    <3>2. Reads(Dataset, next) /\ next.watermark = now.watermark
      <4> HIDE DEF now
      <4> QED
        BY <1>1, <2>2, <3>1, LoseReads
    <3>3. reader' = [reader EXCEPT ![r] = next]
      BY <2>1, <2>2
    <3> HIDE DEF next
    <3> QED
      BY <2>1, <3>1, <3>2, <3>3, StatementStep
  <2>3. CASE ~now.cursor.set
    <3>1. reader' = [reader EXCEPT ![r] = Idle]
      BY <2>1, <2>3
    <3> QED
      BY <2>1, <3>1, IdleReads, ReaderStep DEF ReaderKeeps, Underway
  <2> QED
    BY <2>2, <2>3
<1>12. ASSUME Leave(r) PROVE IInv'
  BY <1>12, IdleReads, ReaderStep DEF Leave, ReaderKeeps, Underway
<1>13. ASSUME NEW scope \in scenario.withdrawn, Withdraw(r, scope) PROVE IInv'
  <2>1. reader' = [reader EXCEPT ![r] = now] /\ ReaderKeeps
    BY <1>3, <1>13 DEF Withdraw
  <2>2. now.at \in Underway => Behind(now.watermark, sequence, pending)
    BY <1>1 DEF Answers
  <2> QED
    BY <1>1, <2>1, <2>2, ReaderStep DEF ReaderKeeps
<1> QED
  BY <1>4, <1>5, <1>6, <1>7, <1>8, <1>9, <1>10, <1>11, <1>12, <1>13

LEMMA InitInvariant ==
  ASSUME Init
  PROVE  IInv
<1>1. /\ data["operational"] = [Absent EXCEPT !.exists = TRUE] /\ data["package"] = Absent
      /\ data = [d \in {"operational", "package"} |-> data[d]]
  BY DEF Init
<1>2. /\ data["operational"].exists = TRUE /\ data["operational"].revisions = {}
      /\ data["operational"].relationships = {}
      /\ data["operational"] = [f \in Table |-> data["operational"][f]]
      /\ data["package"].exists = FALSE /\ data["package"].revisions = {}
      /\ data["package"].relationships = {}
      /\ data["package"] = [f \in Table |-> data["package"][f]]
  BY <1>1 DEF Absent, Table
<1>3. /\ scenario \in Scenarios /\ sequence = 0 /\ holders = {}
      /\ pending = [w \in Writers |-> {}]
      /\ loader = [l \in Loaders |-> "idle"] /\ reader = [r \in Readers |-> Idle]
  BY DEF Init
<1>4. Sortable({}) /\ Numbered({}, 0)
  BY FS_EmptySet DEF Sortable, Numbered
<1>5. Shapes
  BY <1>1, <1>2, <1>3 DEF Shapes
<1>6. Projected
  BY <1>2, <1>3, <1>4 DEF Projected
<1>7. Inserts /\ LoadedOnce
  BY <1>2, <1>3, <1>4 DEF Inserts, LoadedOnce
<1>8. Answers
  <2>1. Reads(Dataset, Idle) /\ Idle.at = "idle"
    BY IdleReads
  <2> QED
    BY <1>3, <2>1 DEF Answers, Underway
<1> QED
  BY <1>5, <1>6, <1>7, <1>8 DEF IInv, DInv

LEMMA Steps ==
  ASSUME IInv, [Next]_vars
  PROVE  IInv'
<1>1. DInv /\ Answers
  BY DEF IInv
<1>2. ASSUME DInv', Extends, scenario' = scenario, reader' = reader PROVE IInv'
  BY <1>1, <1>2, AnswersStay DEF IInv
<1>3. ASSUME NEW w \in Writers, NEW o \in Objects, NEW v \in Versions,
             NEW scopes \in scenario.disclosures, NEW t \in Times, Project(w, o, v, scopes, t)
      PROVE  IInv'
  <2>1. reader' = reader /\ scenario' = scenario
    BY <1>3 DEF Project
  <2> QED
    BY <1>1, <1>2, <1>3, <2>1, ProjectStep
<1>4. ASSUME NEW w \in Writers, CommitProjections(w) PROVE IInv'
  <2>1. reader' = reader /\ scenario' = scenario
    BY <1>4 DEF CommitProjections
  <2> QED
    BY <1>1, <1>2, <1>4, <2>1, CommitStep
<1>5. ASSUME NEW w \in Writers, AbandonProjections(w) PROVE IInv'
  <2>1. reader' = reader /\ scenario' = scenario
    BY <1>5 DEF AbandonProjections
  <2> QED
    BY <1>1, <1>2, <1>5, <2>1, AbandonStep
<1>6. ASSUME StagePackage PROVE IInv'
  <2>1. reader' = reader /\ scenario' = scenario
    BY <1>6 DEF StagePackage, LoaderKeeps
  <2> QED
    BY <1>1, <1>2, <1>6, <2>1, StageStep
<1>7. ASSUME NEW l \in Loaders, Check(l) \/ Insert(l) \/ Load(l) \/ KillLoad(l) PROVE IInv'
  <2>1. reader' = reader /\ scenario' = scenario
    BY <1>7 DEF Check, Insert, Load, KillLoad, LoaderKeeps
  <2> QED
    BY <1>1, <1>2, <1>7, <2>1, CheckStep, InsertStep, LoadStep, KillStep
<1>8. CASE UNCHANGED vars
  <2>1. /\ UNCHANGED <<data, sequence, holders, pending, staged, loader, reader, scenario>>
    BY <1>8 DEF vars
  <2>2. Projected' /\ Extends /\ Inserts' /\ LoadedOnce'
    BY <1>1, <2>1, SameRows, SameLoads
  <2>3. Shapes'
    BY <1>1, <2>1 DEF DInv, Shapes
  <2> QED
    BY <1>2, <2>1, <2>2, <2>3 DEF DInv
<1> QED
  BY <1>3, <1>4, <1>5, <1>6, <1>7, <1>8, ReaderActions DEF Next

-----------------------------------------------------------------------------
(***************************************************************************)
(* Recursion over what is left of a finite set.                            *)
(***************************************************************************)
\* Induction over the naturals, by sets.
LEMMA Counting ==
  ASSUME NEW T, 0 \in T, \A k \in Nat : k \in T => k + 1 \in T
  PROVE  Nat \subseteq T
<1> DEFINE Out == {k \in Nat : k \notin T}
<1> SUFFICES ASSUME Out # {} PROVE FALSE
  OBVIOUS
<1>1. PICK k \in Out : \A j \in Out : ~(<<j, k>> \in OpToRel(<, Nat))
  BY NatLessThanWellFounded, WFMin
<1>2. \A j \in Out : ~(j < k)
  BY <1>1 DEF OpToRel
<1>3. k # 0 /\ k - 1 \in Nat /\ k - 1 < k
  OBVIOUS
<1> QED
  BY <1>2, <1>3

\* How much of a finite set is left outside a part of it; one element less with each
\* element that is taken.
Left(whole, part) == Cardinality(whole \ part)

LEMMA LeftShrinks ==
  ASSUME NEW whole, IsFiniteSet(whole), NEW part
  PROVE  /\ Left(whole, part) \in Nat
         /\ \A x \in whole : x \notin part =>
              /\ Left(whole, part \cup {x}) = Left(whole, part) - 1
              /\ Left(whole, part) # 0
<1>1. IsFiniteSet(whole \ part) /\ Left(whole, part) \in Nat
  BY FS_Subset, FS_CardinalityType DEF Left
<1>2. ASSUME NEW x \in whole, x \notin part
      PROVE  Left(whole, part \cup {x}) = Left(whole, part) - 1 /\ Left(whole, part) # 0
  <2>1. whole \ (part \cup {x}) = (whole \ part) \ {x} /\ x \in whole \ part
    BY <1>2
  <2>2. Cardinality((whole \ part) \ {x}) = Cardinality(whole \ part) - 1
    BY <1>1, <2>1, FS_RemoveElement
  <2>3. Cardinality((whole \ part) \ {x}) \in Nat
    BY <1>1, FS_Subset, FS_CardinalityType
  <2> QED
    BY <1>1, <2>1, <2>2, <2>3 DEF Left
<1> QED
  BY <1>1, <1>2

-----------------------------------------------------------------------------
(***************************************************************************)
(* The walk of _validate_graph along supersedes.                           *)
(***************************************************************************)
\* One step of the walk.
WalkOn(records, walk, p) ==
  LET prior == records[p.at].supersedes IN
    IF prior = None THEN p.at
    ELSE IF p.at \in p.seen \/ prior \notin DOMAIN records THEN Broken
    ELSE walk[[at |-> prior, seen |-> p.seen \cup {p.at}]]

\* The recursion of Walk is well founded: each step adds a record to those passed.
LEMMA WalkUnfolds ==
  ASSUME NEW records, IsFiniteSet(DOMAIN records)
  PROVE  \A p \in Places(records) : Walk(records)[p] = WalkOn(records, Walk(records), p)
<1> DEFINE D == DOMAIN records
           P == Places(records)
           Holds(walk, k) == \A p \in P :
             Left(D, p.seen) < k => walk[p] = WalkOn(records, walk, p)
           T == {k \in Nat : \E walk : Holds(walk, k)}
<1>a. \A p \in P : p.at \in D /\ p.seen \in SUBSET D /\ Left(D, p.seen) \in Nat
  BY LeftShrinks DEF Places
<1>1. 0 \in T
  <2>1. \A walk : Holds(walk, 0)
    BY <1>a
  <2> QED
    BY <2>1
<1>2. ASSUME NEW k \in Nat, k \in T PROVE k + 1 \in T
  <2>1. PICK old : Holds(old, k)
    BY <1>2
  <2> DEFINE new == [p \in P |-> IF Left(D, p.seen) < k THEN old[p]
                                 ELSE WalkOn(records, old, p)]
  <2>2. ASSUME NEW p \in P, Left(D, p.seen) < k + 1
        PROVE  new[p] = WalkOn(records, new, p)
    <3> DEFINE prior == records[p.at].supersedes
               next == [at |-> prior, seen |-> p.seen \cup {p.at}]
    <3>1. new[p] = WalkOn(records, old, p)
      BY <2>1
    <3>2. ASSUME p.at \notin p.seen, prior \in D
          PROVE  new[next] = old[next]
      <4>1. Left(D, p.seen \cup {p.at}) < k
        BY <1>a, <2>2, <3>2, LeftShrinks
      <4>2. next \in P /\ next.seen = p.seen \cup {p.at}
        BY <1>a, <3>2 DEF Places
      <4> QED
        BY <4>1, <4>2
    <3> HIDE DEF new
    <3> QED
      BY <3>1, <3>2 DEF WalkOn
  <2>3. Holds(new, k + 1)
    BY <2>2
  <2> HIDE DEF new
  <2>4. \E walk : Holds(walk, k + 1)
    BY <2>3
  <2> HIDE DEF Holds
  <2> QED
    BY <2>4
<1>3. PICK walk : Holds(walk, Left(D, {}) + 1)
  <2>1. Left(D, {}) + 1 \in Nat
    BY LeftShrinks
  <2>2. Nat \subseteq T
    BY <1>1, <1>2, Counting
  <2> QED
    BY <2>1, <2>2
<1> DEFINE full == [p \in P |-> walk[p]]
<1>4. \A p \in P : full[p] = WalkOn(records, full, p)
  <2> SUFFICES ASSUME NEW p \in P PROVE full[p] = WalkOn(records, full, p)
    OBVIOUS
  <2>1. Left(D, p.seen) <= Left(D, {}) /\ Left(D, p.seen) \in Nat /\ Left(D, {}) \in Nat
    <3>1. Cardinality(D \ p.seen) <= Cardinality(D)
      BY FS_Subset
    <3>2. D \ {} = D
      OBVIOUS
    <3> QED
      BY <1>a, <3>1, <3>2, LeftShrinks DEF Left
  <2>2. walk[p] = WalkOn(records, walk, p)
    BY <1>3, <2>1
  <2> DEFINE prior == records[p.at].supersedes
             next == [at |-> prior, seen |-> p.seen \cup {p.at}]
  <2>3. prior \in D => full[next] = walk[next]
    BY <1>a DEF Places
  <2>4. full[p] = walk[p]
    OBVIOUS
  <2> HIDE DEF full
  <2> QED
    BY <2>2, <2>3, <2>4 DEF WalkOn
<1>5. \E f : f = [p \in P |-> WalkOn(records, f, p)]
  <2>1. full = [p \in P |-> WalkOn(records, full, p)]
    BY <1>4
  <2> HIDE DEF full
  <2> QED
    BY <2>1
<1>6. Walk(records) = CHOOSE f : f = [p \in P |-> WalkOn(records, f, p)]
  BY DEF Walk, WalkOn
<1>7. Walk(records) = [p \in P |-> WalkOn(records, Walk(records), p)]
  BY <1>5, <1>6
<1> QED
  BY <1>7

\* From records each of which supersedes one of them the walk comes to no root.
LEMMA WalkInCircle ==
  ASSUME NEW records, IsFiniteSet(DOMAIN records), None \notin DOMAIN records,
         NEW some \in SUBSET DOMAIN records, \A id \in some : records[id].supersedes \in some,
         NEW id \in some
  PROVE  ~ChainHolds(records, id)
<1> DEFINE D == DOMAIN records
           Lost(k) == \A p \in Places(records) :
             p.at \in some /\ Left(D, p.seen) < k => Walk(records)[p] = Broken
           T == {k \in Nat : Lost(k)}
<1>1. \A p \in Places(records) :
        p.at \in D /\ p.seen \in SUBSET D /\ Left(D, p.seen) \in Nat
        /\ Walk(records)[p] = WalkOn(records, Walk(records), p)
  BY LeftShrinks, WalkUnfolds DEF Places
<1>2. 0 \in T
  BY <1>1
<1>3. ASSUME NEW k \in Nat, Lost(k), NEW p \in Places(records), p.at \in some,
             Left(D, p.seen) < k + 1
      PROVE  Walk(records)[p] = Broken
  <2> DEFINE next == [at |-> records[p.at].supersedes, seen |-> p.seen \cup {p.at}]
  <2>1. records[p.at].supersedes \in some /\ records[p.at].supersedes # None
    BY <1>3
  <2>2. ASSUME p.at \notin p.seen PROVE Walk(records)[next] = Broken
    <3>1. Left(D, p.seen \cup {p.at}) < k
      BY <1>1, <1>3, <2>2, LeftShrinks
    <3>2. next \in Places(records) /\ next.at \in some /\ next.seen = p.seen \cup {p.at}
      BY <1>1, <2>1 DEF Places
    <3> QED
      BY <1>3, <3>1, <3>2
  <2> QED
    BY <1>1, <2>1, <2>2 DEF WalkOn
<1>4. \A k \in Nat : k \in T => k + 1 \in T
  BY <1>3
<1>5. Lost(Left(D, {}) + 1)
  <2>1. Left(D, {}) + 1 \in Nat /\ Nat \subseteq T
    BY <1>2, <1>4, Counting, LeftShrinks
  <2> QED
    BY <2>1
<1> DEFINE start == [at |-> id, seen |-> {}]
<1>6. start \in Places(records) /\ start.at \in some /\ start.seen = {}
  BY DEF Places
<1>7. Left(D, start.seen) < Left(D, {}) + 1
  BY <1>6, LeftShrinks
<1>8. Walk(records)[start] = Broken
  BY <1>5, <1>6, <1>7
<1> QED
  BY <1>8 DEF ChainHolds, Root

-----------------------------------------------------------------------------
(***************************************************************************)
(* The visits of the targets of one record, one after another.             *)
(***************************************************************************)
\* The fold of VisitAll as a function of the targets visited.
Visits(visit, targets, path, result) ==
  LET visited[s \in SUBSET targets] ==
        IF s = {} THEN result
        ELSE LET x == CHOOSE x \in s : TRUE IN
               visit[[node |-> x, path |-> path, result |-> visited[s \ {x}]]]
  IN visited

LEMMA VisitAllIsVisits ==
  ASSUME NEW visit, NEW targets, NEW path, NEW result
  PROVE  VisitAll(visit, targets, path, result) = Visits(visit, targets, path, result)[targets]
BY DEF VisitAll, Visits, FoldSet, MapThenFoldSet

\* The target whose turn is last of some.
Chosen(s) == CHOOSE x \in s : TRUE

VisitsOn(visit, path, result, visited, s) ==
  IF s = {} THEN result
  ELSE visit[[node |-> Chosen(s), path |-> path, result |-> visited[s \ {Chosen(s)}]]]

\* A target that is chosen is one of them, and the others are fewer.
LEMMA OneLess ==
  ASSUME NEW targets, IsFiniteSet(targets), NEW s \in SUBSET targets
  PROVE  /\ Cardinality(s) \in Nat /\ Cardinality(s) <= Cardinality(targets)
         /\ s # {} => Chosen(s) \in s
         /\ \A x \in s : Cardinality(s \ {x}) = Cardinality(s) - 1 /\ Cardinality(s) # 0
<1>1. IsFiniteSet(s) /\ Cardinality(s) \in Nat /\ Cardinality(s) <= Cardinality(targets)
  BY FS_Subset, FS_CardinalityType
<1>2. ASSUME NEW x \in s
      PROVE  Cardinality(s \ {x}) = Cardinality(s) - 1 /\ Cardinality(s) # 0
  BY <1>1, FS_RemoveElement, FS_EmptySet
<1>3. s # {} => Chosen(s) \in s
  BY DEF Chosen
<1> QED
  BY <1>1, <1>2, <1>3

\* The recursion over the targets is well founded: one less each time.
LEMMA VisitsUnfold ==
  ASSUME NEW visit, NEW targets, IsFiniteSet(targets), NEW path, NEW result
  PROVE  \A s \in SUBSET targets :
           LET visited == Visits(visit, targets, path, result) IN
             visited[s] = VisitsOn(visit, path, result, visited, s)
<1> DEFINE P == SUBSET targets
           On(visited, s) == VisitsOn(visit, path, result, visited, s)
           Holds(visited, k) == \A s \in P : Cardinality(s) < k => visited[s] = On(visited, s)
           T == {k \in Nat : \E visited : Holds(visited, k)}
<1>1. 0 \in T
  <2>1. \A visited : Holds(visited, 0)
    BY OneLess
  <2> QED
    BY <2>1
<1>a. ASSUME NEW f, NEW g, NEW s \in P, \A x \in s : f[s \ {x}] = g[s \ {x}]
      PROVE  On(f, s) = On(g, s)
  BY <1>a, OneLess DEF VisitsOn
<1>2. ASSUME NEW k \in Nat, k \in T PROVE k + 1 \in T
  <2>1. PICK old : Holds(old, k)
    BY <1>2
  <2> DEFINE new == [s \in P |-> IF Cardinality(s) < k THEN old[s] ELSE On(old, s)]
  <2>2. ASSUME NEW s \in P, Cardinality(s) < k + 1 PROVE new[s] = On(new, s)
    <3>1. new[s] = On(old, s)
      BY <2>1
    <3>2. \A x \in s : new[s \ {x}] = old[s \ {x}]
      <4>1. \A x \in s : s \ {x} \in P /\ Cardinality(s \ {x}) < k
        BY <2>2, OneLess
      <4> QED
        BY <4>1
    <3> HIDE DEF new, On
    <3> QED
      BY <1>a, <3>1, <3>2
  <2>3. Holds(new, k + 1)
    BY <2>2
  <2> HIDE DEF new
  <2>4. \E visited : Holds(visited, k + 1)
    BY <2>3
  <2> HIDE DEF Holds
  <2> QED
    BY <2>4
<1>3. PICK visited : Holds(visited, Cardinality(targets) + 1)
  <2>1. Cardinality(targets) + 1 \in Nat
    BY OneLess
  <2>2. Nat \subseteq T
    BY <1>1, <1>2, Counting
  <2> QED
    BY <2>1, <2>2
<1> DEFINE full == [s \in P |-> visited[s]]
<1>4. \A s \in P : full[s] = On(full, s)
  <2> SUFFICES ASSUME NEW s \in P PROVE full[s] = On(full, s)
    OBVIOUS
  <2>1. Cardinality(s) < Cardinality(targets) + 1
    BY OneLess
  <2>2. visited[s] = On(visited, s)
    BY <1>3, <2>1
  <2>3. full[s] = visited[s] /\ \A x \in s : full[s \ {x}] = visited[s \ {x}]
    OBVIOUS
  <2> HIDE DEF full, On
  <2> QED
    BY <1>a, <2>2, <2>3
<1>5. \E f : f = [s \in P |-> On(f, s)]
  <2>1. full = [s \in P |-> On(full, s)]
    BY <1>4
  <2> HIDE DEF full
  <2> QED
    BY <2>1
<1>6. Visits(visit, targets, path, result) = CHOOSE f : f = [s \in P |-> On(f, s)]
  BY DEF Visits, VisitsOn, Chosen
<1> DEFINE fold == Visits(visit, targets, path, result)
<1>7. fold = [s \in P |-> On(fold, s)]
  <2> HIDE DEF fold, On
  <2>1. (CHOOSE f : f = [s \in P |-> On(f, s)])
          = [s \in P |-> On((CHOOSE f : f = [t \in P |-> On(f, t)]), s)]
    BY <1>5
  <2> QED
    BY <1>6, <2>1 DEF fold
<1> QED
  BY <1>7

\* What every visit keeps the visits of all targets keep.
LEMMA VisitsKeep ==
  ASSUME NEW visit, NEW targets, IsFiniteSet(targets), NEW path, NEW C, NEW result \in C,
         \A x \in targets, r \in C : visit[[node |-> x, path |-> path, result |-> r]] \in C
  PROVE  /\ VisitAll(visit, targets, path, result) \in C
         /\ \A s \in SUBSET targets : Visits(visit, targets, path, result)[s] \in C
<1> DEFINE visited == Visits(visit, targets, path, result)
           T == {k \in Nat : \A s \in SUBSET targets : Cardinality(s) < k => visited[s] \in C}
<1>1. 0 \in T
  BY OneLess
<1>2. ASSUME NEW k \in Nat, k \in T, NEW s \in SUBSET targets, Cardinality(s) < k + 1
      PROVE  visited[s] \in C
  <2> DEFINE x == Chosen(s)
  <2>1. visited[s] = VisitsOn(visit, path, result, visited, s)
    BY VisitsUnfold
  <2>2. s # {} => visited[s \ {x}] \in C /\ x \in targets
    BY <1>2, OneLess
  <2> HIDE DEF visited
  <2> QED
    BY <2>1, <2>2 DEF VisitsOn
<1>3. \A k \in Nat : k \in T => k + 1 \in T
  BY <1>2
<1>4. Cardinality(targets) + 1 \in T
  BY <1>1, <1>3, Counting, OneLess
<1>5. \A s \in SUBSET targets : visited[s] \in C
  BY <1>4, OneLess
<1> QED
  BY <1>5, VisitAllIsVisits

\* What the visit of one target brings about, and every visit keeps, has come about after all.
LEMMA VisitsBring ==
  ASSUME NEW visit, NEW targets, IsFiniteSet(targets), NEW path, NEW C, NEW result \in C,
         \A x \in targets, r \in C : visit[[node |-> x, path |-> path, result |-> r]] \in C,
         NEW B, \A x \in targets, r \in B : visit[[node |-> x, path |-> path, result |-> r]] \in B,
         NEW one \in targets,
         \A r \in C : visit[[node |-> one, path |-> path, result |-> r]] \in B
  PROVE  VisitAll(visit, targets, path, result) \in B
<1>a. \A s \in SUBSET targets : Visits(visit, targets, path, result)[s] \in C
  BY VisitsKeep
<1> DEFINE visited == Visits(visit, targets, path, result)
           T == {k \in Nat : \A s \in SUBSET targets :
                   Cardinality(s) < k /\ one \in s => visited[s] \in B}
<1>1. 0 \in T
  BY OneLess
<1>2. ASSUME NEW k \in Nat, k \in T, NEW s \in SUBSET targets, Cardinality(s) < k + 1, one \in s
      PROVE  visited[s] \in B
  <2> DEFINE x == Chosen(s)
  <2>1. visited[s] = VisitsOn(visit, path, result, visited, s)
    BY VisitsUnfold
  <2>2. x \in s /\ x \in targets /\ Cardinality(s \ {x}) < k /\ s \ {x} \in SUBSET targets
    BY <1>2, OneLess
  <2>3. visited[s \ {x}] \in C
    BY <1>a, <2>2
  <2>4. x # one => visited[s \ {x}] \in B
    BY <1>2, <2>2
  <2> HIDE DEF visited, x
  <2>5. visited[s] = visit[[node |-> x, path |-> path, result |-> visited[s \ {x}]]]
    BY <1>2, <2>1 DEF VisitsOn, x
  <2> QED
    BY <2>2, <2>3, <2>4, <2>5
<1>3. \A k \in Nat : k \in T => k + 1 \in T
  BY <1>2
<1>4. Cardinality(targets) + 1 \in T
  BY <1>1, <1>3, Counting, OneLess
<1>5. visited[targets] \in B
  BY <1>4, OneLess
<1> QED
  BY <1>5, VisitAllIsVisits

\* The visits of the targets depend on nothing but those visits.
LEMMA VisitsAgree ==
  ASSUME NEW f, NEW g, NEW targets, IsFiniteSet(targets), NEW path, NEW C, NEW result \in C,
         \A x \in targets, r \in C :
           LET call == [node |-> x, path |-> path, result |-> r] IN
             f[call] \in C /\ g[call] = f[call]
  PROVE  VisitAll(g, targets, path, result) = VisitAll(f, targets, path, result)
<1>a. \A s \in SUBSET targets : Visits(f, targets, path, result)[s] \in C
  <2>1. \A x \in targets, r \in C : f[[node |-> x, path |-> path, result |-> r]] \in C
    OBVIOUS
  <2> QED
    BY <2>1, VisitsKeep
<1> DEFINE vf == Visits(f, targets, path, result)
           vg == Visits(g, targets, path, result)
           T == {k \in Nat : \A s \in SUBSET targets : Cardinality(s) < k => vg[s] = vf[s]}
<1>1. 0 \in T
  BY OneLess
<1>2. ASSUME NEW k \in Nat, k \in T, NEW s \in SUBSET targets, Cardinality(s) < k + 1
      PROVE  vg[s] = vf[s]
  <2> DEFINE x == Chosen(s)
  <2>1. vf[s] = VisitsOn(f, path, result, vf, s) /\ vg[s] = VisitsOn(g, path, result, vg, s)
    BY VisitsUnfold
  <2>2. s # {} => x \in targets /\ vg[s \ {x}] = vf[s \ {x}]
    BY <1>2, OneLess
  <2>3. s # {} => vf[s \ {x}] \in C
    BY <1>a
  <2> HIDE DEF vf, vg
  <2> QED
    BY <2>1, <2>2, <2>3 DEF VisitsOn
<1>3. \A k \in Nat : k \in T => k + 1 \in T
  BY <1>2
<1>4. Cardinality(targets) + 1 \in T
  BY <1>1, <1>3, Counting, OneLess
<1>5. vg[targets] = vf[targets]
  BY <1>4, OneLess
<1> QED
  BY <1>5, VisitAllIsVisits

-----------------------------------------------------------------------------
(***************************************************************************)
(* The depth-first search of _validate_graph.                              *)
(***************************************************************************)
\* One step of the search.
VisitOn(edges, visit, c) ==
  IF c.result.cyclic \/ c.node \in c.path THEN [c.result EXCEPT !.cyclic = TRUE]
  ELSE IF c.node \in c.result.done THEN c.result
  ELSE [VisitAll(visit, edges[c.node], c.path \cup {c.node}, c.result)
          EXCEPT !.done = @ \cup {c.node}]

\* A graph: every edge leads to a node.
Graph(edges) ==
  IsFiniteSet(DOMAIN edges) /\ \A node \in DOMAIN edges : edges[node] \subseteq DOMAIN edges

LEMMA CallsAre ==
  ASSUME NEW edges, Graph(edges), NEW c \in Calls(edges)
  PROVE  /\ c.node \in DOMAIN edges /\ c.path \in SUBSET DOMAIN edges
         /\ c.result \in Searched(edges) /\ c.result.cyclic \in BOOLEAN
         /\ Left(DOMAIN edges, c.path) \in Nat
         /\ Left(DOMAIN edges, c.path) < Left(DOMAIN edges, {}) + 1
         /\ c.node \notin c.path =>
              Left(DOMAIN edges, c.path \cup {c.node}) = Left(DOMAIN edges, c.path) - 1
         /\ IsFiniteSet(edges[c.node]) /\ edges[c.node] \subseteq DOMAIN edges
<1> DEFINE D == DOMAIN edges
<1>1. IsFiniteSet(D) /\ \A node \in D : edges[node] \subseteq D
  BY DEF Graph
<1>2. /\ c.node \in D /\ c.path \in SUBSET D
      /\ c.result \in Searched(edges) /\ c.result.cyclic \in BOOLEAN
  BY DEF Calls, Searched
<1>3. IsFiniteSet(edges[c.node])
  BY <1>1, <1>2, FS_Subset
<1>4. Left(D, c.path) \in Nat /\ Left(D, {}) \in Nat
      /\ (c.node \notin c.path => Left(D, c.path \cup {c.node}) = Left(D, c.path) - 1)
  BY <1>1, <1>2, LeftShrinks
<1>5. Left(D, c.path) <= Left(D, {})
  <2>1. Cardinality(D \ c.path) <= Cardinality(D)
    BY <1>1, FS_Subset
  <2>2. D \ {} = D
    OBVIOUS
  <2> QED
    BY <2>1, <2>2 DEF Left
<1> QED
  BY <1>1, <1>2, <1>3, <1>4, <1>5

\* A step that searches as good a graph further with another search finds the same.
LEMMA StepAgrees ==
  ASSUME NEW edges, Graph(edges), NEW f, NEW g, NEW c \in Calls(edges),
         c.node \notin c.path =>
           \A x \in DOMAIN edges, r \in Searched(edges) :
             LET call == [node |-> x, path |-> c.path \cup {c.node}, result |-> r] IN
               f[call] \in Searched(edges) /\ g[call] = f[call]
  PROVE  VisitOn(edges, g, c) = VisitOn(edges, f, c) /\ VisitOn(edges, f, c) \in Searched(edges)
<1> DEFINE R == Searched(edges)
           path == c.path \cup {c.node}
           targets == edges[c.node]
           all == VisitAll(f, targets, path, c.result)
<1>1. /\ c.node \in DOMAIN edges /\ c.result \in R
      /\ IsFiniteSet(targets) /\ targets \subseteq DOMAIN edges
  BY CallsAre
<1>2. [c.result EXCEPT !.cyclic = TRUE] \in R
  BY <1>1 DEF Searched
<1>3. c.node \notin c.path => all \in R /\ VisitAll(g, targets, path, c.result) = all
  <2> SUFFICES ASSUME c.node \notin c.path
               PROVE  all \in R /\ VisitAll(g, targets, path, c.result) = all
    OBVIOUS
  <2>1. \A x \in targets, r \in R :
          LET call == [node |-> x, path |-> path, result |-> r] IN
            f[call] \in R /\ g[call] = f[call]
    BY <1>1
  <2> HIDE DEF R, path, targets
  <2>2. \A x \in targets, r \in R : f[[node |-> x, path |-> path, result |-> r]] \in R
    BY <2>1
  <2>3. all \in R
    BY <1>1, <2>2, VisitsKeep
  <2>4. VisitAll(g, targets, path, c.result) = all
    BY <1>1, <2>1, VisitsAgree
  <2> QED
    BY <2>3, <2>4
<1> HIDE DEF all
<1>4. all \in R => [all EXCEPT !.done = @ \cup {c.node}] \in R
  BY <1>1 DEF Searched
<1> QED
  BY <1>1, <1>2, <1>3, <1>4 DEF VisitOn, all

\* The recursion of Visit is well founded: each call below has one node more on its path.
LEMMA VisitUnfolds ==
  ASSUME NEW edges, Graph(edges)
  PROVE  \A c \in Calls(edges) :
           Visit(edges)[c] = VisitOn(edges, Visit(edges), c)
<1> DEFINE D == DOMAIN edges
           P == Calls(edges)
           R == Searched(edges)
           Holds(visit, k) == \A c \in P :
             Left(D, c.path) < k => visit[c] = VisitOn(edges, visit, c) /\ visit[c] \in R
           T == {k \in Nat : \E visit : Holds(visit, k)}
<1>b. \A c \in P : Left(D, c.path) \in Nat
  BY CallsAre
<1>1. 0 \in T
  <2>1. \A visit : Holds(visit, 0)
    BY <1>b
  <2> QED
    BY <2>1
<1>a. ASSUME NEW c \in P, c.node \notin c.path, NEW x \in D, NEW r \in R
      PROVE  LET call == [node |-> x, path |-> c.path \cup {c.node}, result |-> r] IN
               call \in P /\ Left(D, call.path) = Left(D, c.path) - 1
  BY <1>a, CallsAre DEF Calls
<1>2. ASSUME NEW k \in Nat, k \in T PROVE k + 1 \in T
  <2>1. PICK old : Holds(old, k)
    BY <1>2
  <2> DEFINE new == [c \in P |-> IF Left(D, c.path) < k THEN old[c] ELSE VisitOn(edges, old, c)]
  <2>2. ASSUME NEW c \in P, Left(D, c.path) < k + 1
        PROVE  new[c] = VisitOn(edges, new, c) /\ new[c] \in R
    <3>1. new[c] = VisitOn(edges, old, c)
      BY <2>1
    <3>2. ASSUME c.node \notin c.path, NEW x \in D, NEW r \in R
          PROVE  LET call == [node |-> x, path |-> c.path \cup {c.node}, result |-> r] IN
                   old[call] \in R /\ new[call] = old[call]
      <4> DEFINE call == [node |-> x, path |-> c.path \cup {c.node}, result |-> r]
      <4>1. call \in P /\ Left(D, call.path) = Left(D, c.path) - 1
        BY <1>a, <3>2
      <4>2. Left(D, c.path) \in Nat
        BY CallsAre
      <4>3. Left(D, call.path) < k
        BY <2>2, <4>1, <4>2
      <4> HIDE DEF call
      <4>4. old[call] \in R /\ new[call] = old[call]
        BY <2>1, <4>1, <4>3
      <4> QED
        BY <4>4 DEF call
    <3> HIDE DEF new, R
    <3>3. VisitOn(edges, new, c) = VisitOn(edges, old, c) /\ VisitOn(edges, old, c) \in R
      BY <3>2, StepAgrees DEF R
    <3> QED
      BY <3>1, <3>3
  <2>3. Holds(new, k + 1)
    BY <2>2
  <2> HIDE DEF new
  <2>4. \E visit : Holds(visit, k + 1)
    BY <2>3
  <2> HIDE DEF Holds
  <2> QED
    BY <2>4
<1>3. PICK visit : Holds(visit, Left(D, {}) + 1)
  <2>1. Left(D, {}) + 1 \in Nat
    BY LeftShrinks DEF Graph
  <2>2. Nat \subseteq T
    BY <1>1, <1>2, Counting
  <2> QED
    BY <2>1, <2>2
<1> DEFINE full == [c \in P |-> visit[c]]
<1>4. \A c \in P : full[c] = VisitOn(edges, full, c) /\ full[c] \in R
  <2> SUFFICES ASSUME NEW c \in P PROVE full[c] = VisitOn(edges, full, c) /\ full[c] \in R
    OBVIOUS
  <2>1. \A d \in P : visit[d] = VisitOn(edges, visit, d) /\ visit[d] \in R /\ full[d] = visit[d]
    BY <1>3, CallsAre
  <2>2. ASSUME c.node \notin c.path, NEW x \in D, NEW r \in R
        PROVE  LET call == [node |-> x, path |-> c.path \cup {c.node}, result |-> r] IN
                 visit[call] \in R /\ full[call] = visit[call]
    BY <1>a, <2>1, <2>2
  <2> HIDE DEF full, R
  <2>3. VisitOn(edges, full, c) = VisitOn(edges, visit, c)
    BY <2>2, StepAgrees DEF R
  <2> QED
    BY <2>1, <2>3
<1>5. full = [c \in P |-> VisitOn(edges, full, c)] /\ \A c \in P : full[c] \in R
  BY <1>4
<1>6. Visit(edges) = CHOOSE f : f = [c \in P |-> VisitOn(edges, f, c)]
  BY DEF Visit, VisitOn
<1>7. Visit(edges) = [c \in P |-> VisitOn(edges, Visit(edges), c)]
  <2> HIDE DEF full
  <2>1. \E f : f = [c \in P |-> VisitOn(edges, f, c)]
    BY <1>5
  <2> QED
    BY <1>6, <2>1
<1> QED
  BY <1>7

LEMMA VisitSearches ==
  ASSUME NEW edges, Graph(edges)
  PROVE  \A c \in Calls(edges) : Visit(edges)[c] \in Searched(edges)
<1> DEFINE D == DOMAIN edges
           visit == Visit(edges)
           Holds(k) == \A c \in Calls(edges) : Left(D, c.path) < k => visit[c] \in Searched(edges)
           T == {k \in Nat : Holds(k)}
<1>1. \A c \in Calls(edges) : Left(D, c.path) \in Nat /\ Left(D, c.path) < Left(D, {}) + 1
  BY CallsAre
<1>2. 0 \in T
  BY <1>1
<1>3. ASSUME NEW k \in Nat, Holds(k), NEW c \in Calls(edges), Left(D, c.path) < k + 1
      PROVE  visit[c] \in Searched(edges)
  <2>1. ASSUME c.node \notin c.path, NEW x \in D, NEW r \in Searched(edges)
        PROVE  visit[[node |-> x, path |-> c.path \cup {c.node}, result |-> r]] \in Searched(edges)
    <3> DEFINE call == [node |-> x, path |-> c.path \cup {c.node}, result |-> r]
    <3>1. call \in Calls(edges) /\ call.path = c.path \cup {c.node}
      BY <2>1, CallsAre DEF Calls
    <3>2. Left(D, call.path) < k
      BY <1>1, <1>3, <2>1, <3>1, CallsAre
    <3> QED
      BY <1>3, <3>1, <3>2
  <2>2. visit[c] = VisitOn(edges, visit, c)
    BY VisitUnfolds
  <2> HIDE DEF visit
  <2>3. VisitOn(edges, visit, c) \in Searched(edges)
    BY <2>1, StepAgrees
  <2> QED
    BY <2>2, <2>3
<1>4. \A k \in Nat : k \in T => k + 1 \in T
  BY <1>3
<1>5. Left(D, {}) + 1 \in T
  BY <1>2, <1>4, Counting, LeftShrinks DEF Graph
<1> QED
  BY <1>1, <1>5

\* A search that starts in a circle, or comes into one, finds a cycle: what is done is never
\* of the circle.
LEMMA SearchInCircle ==
  ASSUME NEW edges, Graph(edges), NEW some \in SUBSET DOMAIN edges,
         \A node \in some : edges[node] \cap some # {}
  PROVE  \A c \in Calls(edges) :
           LET found == Visit(edges)[c] IN
             /\ c.result.cyclic => found.cyclic
             /\ c.result.done \cap some = {} =>
                  found.cyclic \/ (found.done \cap some = {} /\ c.node \notin some)
<1> DEFINE D == DOMAIN edges
           visit == Visit(edges)
           R == Searched(edges)
           Clean == {r \in R : r.cyclic \/ r.done \cap some = {}}
           Cyclic == {r \in R : r.cyclic}
           Holds(k) == \A c \in Calls(edges) :
             Left(D, c.path) < k /\ c.result \in Clean =>
               visit[c] \in Clean /\ (c.node \in some => visit[c] \in Cyclic)
           T == {k \in Nat : Holds(k)}
<1>1. \A c \in Calls(edges) :
        /\ Left(D, c.path) \in Nat /\ Left(D, c.path) < Left(D, {}) + 1
        /\ c.result \in R /\ visit[c] \in R /\ visit[c] = VisitOn(edges, visit, c)
  BY CallsAre, VisitSearches, VisitUnfolds
<1>2. \A c \in Calls(edges) : c.result \in Cyclic => visit[c] \in Cyclic
  <2> SUFFICES ASSUME NEW c \in Calls(edges), c.result.cyclic PROVE visit[c].cyclic
    BY <1>1
  <2>1. visit[c] = [c.result EXCEPT !.cyclic = TRUE] /\ c.result \in R
    BY <1>1 DEF VisitOn
  <2> QED
    BY <2>1 DEF Searched
<1>3. ASSUME NEW k \in Nat, Holds(k), NEW c \in Calls(edges), Left(D, c.path) < k + 1,
             c.result \in Clean
      PROVE  visit[c] \in Clean /\ (c.node \in some => visit[c] \in Cyclic)
  <2> DEFINE path == c.path \cup {c.node}
             targets == edges[c.node]
             all == VisitAll(visit, targets, path, c.result)
  <2>1. /\ visit[c] = VisitOn(edges, visit, c) /\ visit[c] \in R
        /\ IsFiniteSet(targets) /\ targets \subseteq D /\ c.result \in R
    BY <1>1, CallsAre
  <2>2. CASE c.result.cyclic \/ c.node \in c.path
    <3>1. visit[c] = [c.result EXCEPT !.cyclic = TRUE]
      BY <2>1, <2>2 DEF VisitOn
    <3>2. visit[c].cyclic
      BY <2>1, <3>1 DEF Searched
    <3> QED
      BY <2>1, <3>2
  <2>3. CASE ~c.result.cyclic /\ c.node \notin c.path /\ c.node \in c.result.done
    <3>1. visit[c] = c.result /\ c.node \notin some
      BY <1>3, <2>1, <2>3 DEF VisitOn
    <3> QED
      BY <1>3, <3>1
  <2>4. CASE ~c.result.cyclic /\ c.node \notin c.path /\ c.node \notin c.result.done
    <3>1. visit[c] = [all EXCEPT !.done = @ \cup {c.node}]
      BY <2>1, <2>4 DEF VisitOn
    <3>2. ASSUME NEW x \in targets, NEW r \in R
          PROVE  LET call == [node |-> x, path |-> path, result |-> r] IN
                   /\ call \in Calls(edges) /\ call.node = x /\ call.result = r
                   /\ Left(D, call.path) < k
      <4> DEFINE call == [node |-> x, path |-> path, result |-> r]
      <4>1. call \in Calls(edges) /\ call.node = x /\ call.result = r /\ call.path = path
        BY <2>1, CallsAre DEF Calls
      <4>2. Left(D, path) = Left(D, c.path) - 1
        BY <2>4, CallsAre
      <4>3. Left(D, path) < k
        BY <1>1, <1>3, <4>2
      <4> HIDE DEF call
      <4> QED
        BY <4>1, <4>3 DEF call
    <3>3. \A x \in targets, r \in Clean :
            visit[[node |-> x, path |-> path, result |-> r]] \in Clean
      BY <1>3, <3>2
    <3>4. \A x \in targets, r \in Cyclic :
            visit[[node |-> x, path |-> path, result |-> r]] \in Cyclic
      BY <1>2, <3>2
    <3>5. \A x \in targets, r \in Clean :
            x \in some => visit[[node |-> x, path |-> path, result |-> r]] \in Cyclic
      BY <1>3, <3>2
    <3> HIDE DEF Clean, Cyclic, visit, targets, path
    <3>6. all \in Clean
      BY <1>3, <2>1, <3>3, VisitsKeep
    <3>7. ASSUME c.node \in some PROVE all \in Cyclic
      <4>1. PICK one \in targets : one \in some
        BY <3>7 DEF targets
      <4>2. \A r \in Clean : visit[[node |-> one, path |-> path, result |-> r]] \in Cyclic
        BY <3>5, <4>1
      <4> QED
        BY <1>3, <2>1, <3>3, <3>4, <4>1, <4>2, VisitsBring
    <3> HIDE DEF all
    <3>8. all \in R /\ (all.cyclic \/ all.done \cap some = {})
          /\ (c.node \in some => all.cyclic)
      BY <3>6, <3>7 DEF Clean, Cyclic
    <3>9. visit[c].cyclic = all.cyclic /\ visit[c].done = all.done \cup {c.node}
      BY <3>1, <3>8 DEF Searched
    <3> QED
      BY <2>1, <3>8, <3>9 DEF Clean, Cyclic
  <2> QED
    BY <2>2, <2>3, <2>4
<1>4. \A k \in Nat : k \in T => k + 1 \in T
  BY <1>3
<1>5. 0 \in T
  BY <1>1
<1>6. Left(D, {}) + 1 \in T
  BY <1>4, <1>5, Counting, LeftShrinks DEF Graph
<1>7. \A c \in Calls(edges) : c.result \in Clean =>
        visit[c] \in Clean /\ (c.node \in some => visit[c] \in Cyclic)
  BY <1>1, <1>6
<1> QED
  BY <1>1, <1>2, <1>7

\* A graph in which the search finds no cycle has none.
LEMMA NoCircle ==
  ASSUME NEW edges, Graph(edges), ~HasCycle(edges),
         NEW some \in SUBSET DOMAIN edges, some # {}
  PROVE  \E node \in some : edges[node] \cap some = {}
<1> SUFFICES ASSUME \A node \in some : edges[node] \cap some # {} PROVE HasCycle(edges)
  OBVIOUS
<1> DEFINE D == DOMAIN edges
           visit == Visit(edges)
           R == Searched(edges)
           Clean == {r \in R : r.cyclic \/ r.done \cap some = {}}
           Cyclic == {r \in R : r.cyclic}
           start == [cyclic |-> FALSE, done |-> {}]
           Call(x, r) == [node |-> x, path |-> {}, result |-> r]
<1>1. start \in Clean
  BY DEF Searched
<1>2. ASSUME NEW x \in D, NEW r \in R
      PROVE  /\ r \in Clean => visit[Call(x, r)] \in Clean
             /\ r \in Cyclic => visit[Call(x, r)] \in Cyclic
             /\ r \in Clean /\ x \in some => visit[Call(x, r)] \in Cyclic
  <2> DEFINE call == Call(x, r)
  <2>1. call \in Calls(edges) /\ call.node = x /\ call.result = r
    BY DEF Calls
  <2> HIDE DEF call
  <2>2. visit[call] \in R
    BY <2>1, VisitSearches
  <2>3. /\ r.cyclic => visit[call].cyclic
        /\ r.done \cap some = {} =>
             visit[call].cyclic \/ (visit[call].done \cap some = {} /\ x \notin some)
    BY <2>1, SearchInCircle
  <2> HIDE DEF visit, R
  <2>4. /\ r \in Clean => visit[call] \in Clean
        /\ r \in Cyclic => visit[call] \in Cyclic
        /\ r \in Clean /\ x \in some => visit[call] \in Cyclic
    BY <2>2, <2>3
  <2> QED
    BY <2>4 DEF call
<1>3. /\ \A x \in D, r \in Clean : visit[[node |-> x, path |-> {}, result |-> r]] \in Clean
      /\ \A x \in D, r \in Cyclic : visit[[node |-> x, path |-> {}, result |-> r]] \in Cyclic
  BY <1>2
<1>4. PICK one \in some : TRUE
  OBVIOUS
<1>5. one \in D
      /\ \A r \in Clean : visit[[node |-> one, path |-> {}, result |-> r]] \in Cyclic
  BY <1>2, <1>4
<1>6. IsFiniteSet(D)
  BY DEF Graph
<1>7. VisitAll(visit, D, {}, start) \in Cyclic
  <2> HIDE DEF Clean, Cyclic, visit, D, start
  <2> QED
    BY <1>1, <1>3, <1>5, <1>6, VisitsBring
<1> QED
  BY <1>7 DEF HasCycle

-----------------------------------------------------------------------------
(***************************************************************************)
(* What is accepted, and what is loaded of it.                             *)
(***************************************************************************)
\* What _validate_graph accepts has no circle of references and none of supersessions,
\* and what a record supersedes is a record.
LEMMA AcceptedIsGrounded ==
  ASSUME NEW p, GraphHolds(p), IsFiniteSet(DOMAIN p.records), None \notin DOMAIN p.records
  PROVE  /\ \A some \in (SUBSET DOMAIN p.records) \ {{}} :
              /\ \E id \in some : p.records[id].references \cap some = {}
              /\ \E id \in some : p.records[id].supersedes \notin some
         /\ \A id \in DOMAIN p.records :
              p.records[id].supersedes \in DOMAIN p.records \cup {None}
<1> DEFINE D == DOMAIN p.records
           edges == Edges(p)
<1>1. DOMAIN edges = D /\ \A id \in D : edges[id] = p.records[id].references \cap D
  BY DEF Edges
<1>2. ASSUME NEW some \in SUBSET D, some # {}
      PROVE  /\ \E id \in some : p.records[id].references \cap some = {}
             /\ \E id \in some : p.records[id].supersedes \notin some
  <2>1. \E id \in some : p.records[id].supersedes \notin some
    BY <1>2, WalkInCircle DEF GraphHolds
  <2>2. Graph(edges) /\ ~HasCycle(edges)
    BY <1>1 DEF Graph, GraphHolds
  <2> HIDE DEF edges
  <2>3. \E id \in some : edges[id] \cap some = {}
    BY <1>1, <1>2, <2>2, NoCircle
  <2> QED
    BY <1>1, <2>1, <2>3
<1>3. ASSUME NEW id \in D
      PROVE  p.records[id].supersedes \in D \cup {None}
  <2> DEFINE start == [at |-> id, seen |-> {}]
  <2>1. start \in Places(p.records) /\ start.at = id
    BY DEF Places
  <2>2. Walk(p.records)[start] = WalkOn(p.records, Walk(p.records), start)
    BY <2>1, WalkUnfolds
  <2>3. Walk(p.records)[start] # Broken
    BY DEF GraphHolds, ChainHolds, Root
  <2> QED
    BY <2>1, <2>2, <2>3 DEF WalkOn
<1> QED
  BY <1>2, <1>3

\* The second part of LoadedDatasetIsSound.
Sound ==
  data["package"].exists =>
    /\ Grounded([id \in Ids |-> Row(id).references])
    /\ Grounded([id \in Ids |-> {Row(id).supersedes}])
    /\ \A row \in data["package"].revisions :
         row.supersedes # None =>
           row.supersedes \in Ids /\ Row(row.supersedes).record = row.record

LEMMA SoundStays ==
  ASSUME Sound, data'["package"] = data["package"]
  PROVE  Sound'
<1>1. Ids' = Ids /\ \A id : Row(id)' = Row(id)
  BY DEF Ids, Row
<1>2. /\ [id \in Ids |-> Row(id).references]' = [id \in Ids |-> Row(id).references]
      /\ [id \in Ids |-> {Row(id).supersedes}]' = [id \in Ids |-> {Row(id).supersedes}]
  BY <1>1
<1> QED
  BY <1>1, <1>2 DEF Sound

LEMMA LoadIsSound ==
  ASSUME DInv, NEW l \in Loaders, Load(l), RowsHold(Package)
  PROVE  Sound'
<1> DEFINE p == Package
           D == DOMAIN p.records
           R == LoadedRevisions(p)
           row(id) == [id |-> id, record |-> Stable(p.records, id),
                       names |-> {id, Stable(p.records, id)} \cup p.records[id].actions,
                       order |-> sequence + OrderIn(D, id), recorded |-> p.records[id].recorded,
                       supersedes |-> p.records[id].supersedes,
                       disclosed |-> p.records[id].disclosed,
                       references |-> p.records[id].references]
           Find(id) == CHOOSE x \in R : x.id = id
<1>1. /\ GraphHolds(p) /\ SameRecord(p.records)
      /\ IsFiniteSet(D) /\ None \notin D
  BY MemoryAssumption DEF DInv, Inserts, Shapes, Load, RowsHold, Package
<1>2. data'["package"].revisions = R
  BY DEF DInv, Shapes, Load
<1>3. R = {row(id) : id \in D}
  BY DEF LoadedRevisions
<1>4. \A id \in D :
        /\ row(id).id = id /\ row(id).record = Stable(p.records, id)
        /\ row(id).supersedes = p.records[id].supersedes
        /\ row(id).references = p.records[id].references
  OBVIOUS
<1> HIDE DEF row, R
<1>5. Ids' = D
  BY <1>2, <1>3, <1>4 DEF Ids
<1>6. \A id \in D : Row(id)' = row(id)
  <2>1. \A id \in D : Row(id)' = Find(id)
    BY <1>2 DEF Row
  <2>2. \A id \in D : Find(id) \in R /\ Find(id).id = id
    BY <1>3, <1>4
  <2> HIDE DEF Find
  <2>3. \A id \in D : Find(id) = row(id)
    BY <1>3, <1>4, <2>2
  <2> QED
    BY <2>1, <2>3
<1>7. /\ \A some \in (SUBSET D) \ {{}} :
           /\ \E id \in some : p.records[id].references \cap some = {}
           /\ \E id \in some : p.records[id].supersedes \notin some
      /\ \A id \in D : p.records[id].supersedes \in D \cup {None}
  BY <1>1, AcceptedIsGrounded
<1>8. Grounded([id \in D |-> p.records[id].references])
      /\ Grounded([id \in D |-> {p.records[id].supersedes}])
  BY <1>7 DEF Grounded
<1>9. /\ [id \in Ids |-> Row(id).references]' = [id \in D |-> p.records[id].references]
      /\ [id \in Ids |-> {Row(id).supersedes}]' = [id \in D |-> {p.records[id].supersedes}]
  BY <1>4, <1>5, <1>6
<1>10. ASSUME NEW x \in R, x.supersedes # None
       PROVE  x.supersedes \in D /\ row(x.supersedes).record = x.record
  BY <1>1, <1>3, <1>4, <1>7, <1>10 DEF SameRecord
<1> QED
  BY <1>2, <1>5, <1>6, <1>8, <1>9, <1>10 DEF Sound

\* Nothing but a load writes to the package dataset.
LEMMA SoundStep ==
  ASSUME DInv, Sound, [Next]_vars
  PROVE  Sound'
<1>1. ASSUME NEW l \in Loaders, Load(l) PROVE Sound'
  <2>1. CASE RowsHold(Package)
    BY <1>1, <2>1, LoadIsSound
  <2>2. CASE ~RowsHold(Package)
    BY <1>1, <2>2, SoundStays DEF Load
  <2> QED
    BY <2>1, <2>2
<1>2. ASSUME NEW w \in Writers, CommitProjections(w) PROVE Sound'
  <2>1. data'["package"] = data["package"]
    BY <1>2 DEF CommitProjections, DInv, Shapes
  <2> QED
    BY <2>1, SoundStays
<1>3. CASE UNCHANGED data
  BY <1>3, SoundStays
<1>4. \/ UNCHANGED data \/ \E w \in Writers : CommitProjections(w)
      \/ \E l \in Loaders : Load(l)
  BY ZenonT(60) DEF Next, vars, Project, AbandonProjections, StagePackage, Check, Insert, KillLoad, Ask,
     AskNext, TakeWatermark, TakeCount, TakeRows, TakeNames, Answer, LoseAnswer, Leave, Withdraw,
     ReaderKeeps
<1> QED
  BY <1>1, <1>2, <1>3, <1>4

-----------------------------------------------------------------------------
(***************************************************************************)
(* Theorems.                                                               *)
(***************************************************************************)
\* The inductive invariant: one writer at a time and behind every watermark, one load of a
\* package, and how far each reader has come in its view.
THEOREM Invariance == Spec => []IInv
<1>1. Init => IInv
  BY InitInvariant
<1>2. IInv /\ [Next]_vars => IInv'
  BY Steps
<1> QED
  BY <1>1, <1>2, PTL DEF Spec

\* The pages of a reader (read_memory by its cursors) are one view, each row once and in
\* order, for any rows projected between them, any limit, and any answers lost.
THEOREM PagesOneView == Spec => []PagesAreOneView
<1>1. IInv => PagesAreOneView
  <2>1. SUFFICES ASSUME IInv, NEW r \in Readers, reader[r].at = "answered"
                 PROVE  LET now == reader[r] IN
                          /\ IsPrefix(now.seen, now.view)
                          /\ now.count = Len(now.view)
                          /\ now.cursor.set <=> Len(now.seen) < Len(now.view)
    BY DEF PagesAreOneView
  <2> DEFINE now == reader[r]
             n == Cardinality(Selected(Dataset, now.query, now.watermark))
             k == Len(now.seen)
             V == {now.view[i] : i \in 1 .. n}
  <2>2. Paging(Dataset, now) /\ Sortable(Dataset.revisions) /\ now.cursor.set \in BOOLEAN
    BY <2>1, DatasetSortable DEF IInv, Answers, Reads, Underway
  <2>3. /\ now.view = View(Dataset, now.query, now.watermark)
        /\ k \in 0 .. n /\ now.seen = [i \in 1 .. k |-> now.view[i]] /\ now.count = n
        /\ now.cursor.set => k < n
        /\ ~now.cursor.set => k = n
    BY <2>1, <2>2 DEF Paging, Progress, InHand
  <2>4. n \in Nat /\ now.view = [i \in 1 .. n |-> now.view[i]] /\ Len(now.view) = n
    <3>1. n \in Nat /\ Len(View(Dataset, now.query, now.watermark)) = n
      BY <2>2, ViewRows
    <3>2. now.view = [i \in 1 .. n |-> Entry(Dataset,
             Sorted(Selected(Dataset, now.query, now.watermark))[i], now.query, now.watermark,
             VisibleNames(Dataset, now.query, now.watermark),
             Superseded(Dataset, now.query, now.watermark))]
      BY <2>2, <2>3, ViewRows
    <3> HIDE DEF n, now
    <3> QED
      BY <2>3, <3>1, <3>2
  <2> HIDE DEF n, k, now
  <2>5. now.seen \in Seq(V) /\ now.view \in Seq(V)
    <3>1. now.seen \in [1 .. k -> V] /\ now.view \in [1 .. n -> V]
      BY <2>3, <2>4
    <3> HIDE DEF V
    <3> QED
      BY <2>3, <2>4, <3>1
  <2>6. IsPrefix(now.seen, now.view)
    <3>1. k \in Nat /\ k <= Len(now.view) /\ k <= Len(now.seen) /\ k = Len(now.seen)
      BY <2>3, <2>4 DEF k
    <3> HIDE DEF V
    <3>2. SubSeq(now.seen, 1, k) = [i \in 1 .. k |-> now.seen[i]]
      BY <2>5, <3>1, Prefix
    <3>3. SubSeq(now.view, 1, k) = [i \in 1 .. k |-> now.view[i]]
      BY <2>5, <3>1, Prefix
    <3>4. \A i \in 1 .. k : now.seen[i] = now.view[i]
      BY <2>3
    <3>5. SubSeq(now.seen, 1, k) = SubSeq(now.view, 1, k)
      BY <3>2, <3>3, <3>4
    <3> QED
      BY <3>1, <3>5 DEF IsPrefix
  <2> QED
    BY <2>2, <2>3, <2>4, <2>6 DEF k, now
<1> QED
  BY <1>1, Invariance, PTL

\* No page names a record or an action that is not disclosed to its reader, for any rows,
\* disclosures, cutoffs and grants that end.
THEOREM NothingHidden == Spec => []NothingHiddenIsNamed
<1>1. IInv => NothingHiddenIsNamed
  <2>1. SUFFICES ASSUME IInv, NEW r \in Readers, NEW i \in DOMAIN reader[r].seen
                 PROVE  LET entry == reader[r].seen[i] IN
                          /\ entry.references \subseteq Disclosed(reader[r].query)
                          /\ \A item \in entry.related : item.ends \subseteq Disclosed(reader[r].query)
    BY DEF NothingHiddenIsNamed
  <2> DEFINE now == reader[r]
             q == now.query
             w == now.watermark
             names == VisibleNames(Dataset, q, w)
             superseded == Superseded(Dataset, q, w)
             S == Selected(Dataset, q, w)
             n == Cardinality(S)
             k == Len(now.seen)
  <2>2. Reads(Dataset, now) /\ Sortable(Dataset.revisions)
    BY <2>1, DatasetSortable DEF IInv, Answers
  <2>3. now.at \in Underway
    BY <2>1, <2>2 DEF Reads
  <2>4. /\ now.view = View(Dataset, q, w) /\ k \in 0 .. n
        /\ now.seen = [j \in 1 .. k |-> now.view[j]]
    BY <2>2, <2>3 DEF Reads, Paging, Progress, InHand
  <2>5. /\ n \in Nat
        /\ now.view = [j \in 1 .. n |-> Entry(Dataset, Sorted(S)[j], q, w, names, superseded)]
    BY <2>2, <2>4, ViewRows
  <2>6. PICK row : now.seen[i] = Entry(Dataset, row, q, w, names, superseded)
    <3> HIDE DEF now, q, w, names, superseded, S, n
    <3> SUFFICES \E row : now.seen[i] = Entry(Dataset, row, q, w, names, superseded)
      OBVIOUS
    <3>1. i \in 1 .. k /\ i \in 1 .. n
      BY <2>1, <2>4, <2>5 DEF now
    <3> HIDE DEF k
    <3> QED
      BY <2>4, <2>5, <3>1
  <2>7. names \subseteq Disclosed(q)
    BY DEF VisibleNames, Authorized, Disclosed
  <2>8. /\ Entry(Dataset, row, q, w, names, superseded).references \subseteq names
        /\ \A item \in Entry(Dataset, row, q, w, names, superseded).related :
             item.ends \subseteq names
    <3> HIDE DEF names, superseded, q, w
    <3> QED
      BY DEF Entry, PermittedTargets, Summaries
  <2> QED
    BY <2>6, <2>7, <2>8
<1> QED
  BY <1>1, Invariance, PTL

\* No package that load_timeline lets through is unsound, for packages of any size: the walks
\* and the depth-first search of _validate_graph leave no circle of references or supersessions
\* in what is written, and the foreign key keeps a chain within one record.
THEOREM LoadedSound == Spec => []LoadedDatasetIsSound
<1>1. Init => Sound
  BY DEF Init, Sound, Absent
<1>2. IInv /\ Sound /\ [Next]_vars => Sound'
  BY SoundStep DEF IInv
<1>3. IInv /\ Sound => LoadedDatasetIsSound
  BY DEF IInv, DInv, Sound, LoadedDatasetIsSound
<1> QED
  BY <1>1, <1>2, <1>3, Invariance, PTL DEF Spec

=============================================================================
