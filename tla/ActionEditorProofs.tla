------------------------- MODULE ActionEditorProofs -------------------------
(***************************************************************************)
(* Proofs about ActionEditor, for every set of texts and all bounds.       *)
(***************************************************************************)
EXTENDS ActionEditor, FiniteSetTheorems, WellFoundedInduction, TLAPS

-----------------------------------------------------------------------------
(***************************************************************************)
(* The saved packages and what refers to them.                             *)
(***************************************************************************)
Saved == [text : Texts, removed : BOOLEAN]

Row == [cmd : Commands, package : Seq(Saved)]

Elsewheres == {v \in 1 .. Version : revisions[v].cmd.key = 0}

\* A key is claimed once, and others save as often as they may.
Counted ==
  /\ \A v, w \in 1 .. Version :
       revisions[v].cmd.key = revisions[w].cmd.key /\ revisions[v].cmd.key # 0 => v = w
  /\ Cardinality(Elsewheres) <= Len(Opened) + MaxOthers
  /\ \A v \in Versions : Len(PackageAt(v)) <= v

\* What becomes of an action from one version to a later one: it stays, a
\* removal stays, and another content was saved by a command of that action.
Carried(v, w) ==
  /\ Len(PackageAt(v)) <= Len(PackageAt(w))
  /\ \A a \in DOMAIN PackageAt(v) :
       /\ PackageAt(v)[a].removed => PackageAt(w)[a].removed
       /\ PackageAt(v)[a] = PackageAt(w)[a] \/ \E u \in v + 1 .. w : revisions[u].cmd.editor = a

\* What a keyed command saved: its text, in the action it names or in one more.
Kept(v) ==
  LET c == revisions[v].cmd
      saved == [text |-> c.text, removed |-> FALSE] IN
    IF c.editor = 0
      THEN /\ Len(PackageAt(v)) = Len(PackageAt(v - 1)) + 1
           /\ PackageAt(v)[Len(PackageAt(v))] = saved
      ELSE c.editor \in DOMAIN PackageAt(v) /\ PackageAt(v)[c.editor] = saved

Rows ==
  /\ revisions \in Seq(Row)
  /\ Counted
  /\ \A v, w \in Versions : v <= w => Carried(v, w)
  /\ \A v \in 1 .. Version : revisions[v].cmd.key # 0 => Kept(v)

\* The version knows the action.
Known(e, v) == v \in Versions /\ (e = 0 \/ e \in DOMAIN PackageAt(v))

\* A command of this page is made over a version that knows its action.
GoodCommand(c, k) == c \in Commands /\ c.key \in 1 .. k /\ Known(c.editor, c.base)

MaybeGood(c, k) == c = NoCommand \/ GoodCommand(c, k)

GoodForm(f, k) ==
  /\ f \in Forms /\ f.key \in 0 .. k
  /\ Known(f.editor, f.version)
  /\ f.target.given => Known(f.editor, f.target.version)
  /\ f.target.key \in 0 .. k
  /\ f.panel.open => Known(f.editor, f.panel.version)

GoodForms(fs, k) ==
  /\ fs = [i \in DOMAIN fs |-> fs[i]]
  /\ DOMAIN fs \subseteq Places
  /\ \A i \in DOMAIN fs : GoodForm(fs[i], k)

GoodStore(st) ==
  /\ st \in [Editors -> Copies]
  /\ \A e \in Editors : st[e].kept => Known(e, st[e].version)

GoodStored(sd, k) ==
  /\ sd \in [Editors -> Commands]
  /\ \A e \in Editors : sd[e] = NoCommand \/ (GoodCommand(sd[e], k) /\ sd[e].editor = e)

GoodOffers(sd, un, orp, k) ==
  /\ GoodStored(sd, k) /\ MaybeGood(un, k)
  /\ orp \in Orphans /\ MaybeGood(orp.cmd, k)

GoodCopies(cs, k) == \A c \in cs : GoodCommand(c, k)

\* AnswerNamesItsAction and ConflictsAreOfTheAction, of any save in flight.
Named(ft) ==
  /\ ft.page \in 1 .. Version
  /\ revisions[ft.page].cmd.key = ft.cmd.key
  /\ ft.action \in DOMAIN PackageAt(ft.page)
  /\ PackageAt(ft.page)[ft.action] = [text |-> ft.cmd.text, removed |-> FALSE]
  /\ ft.cmd.editor \in {0, ft.action}

Changed(ft) == \E v \in ft.cmd.base + 1 .. Version : revisions[v].cmd.editor = ft.cmd.editor

GoodFetch(fs, ft, k) ==
  /\ ft \in Fetches /\ GoodForm(ft.left, k)
  /\ ft.phase \in Unanswered => GoodCommand(ft.cmd, k)
  /\ ft.phase = "committed" => Named(ft)
  /\ ft.phase \in {"refused", "conflict"} => Changed(ft)
  /\ ft.phase = "conflict" =>
       \A i \in DOMAIN fs : fs[i].inflight => Known(fs[i].editor, ft.page)

Shape ==
  /\ paused \in BOOLEAN /\ reread \in Rereads
  /\ keys \in Keys /\ faults \in 0 .. MaxFaults
  /\ told \in Nat /\ met \in BOOLEAN

BInv ==
  /\ Rows /\ Shape
  /\ GoodForms(forms, keys) /\ GoodStore(store) /\ GoodOffers(stored, unknown, orphan, keys)
  /\ GoodFetch(forms, fetch, keys) /\ GoodCopies(copies, keys)

-----------------------------------------------------------------------------
(***************************************************************************)
(* Places, rows and packages.                                              *)
(***************************************************************************)
LEMMA Sizes ==
  /\ Len(Opened) \in Nat /\ MostActions \in Nat
  /\ Blank \in Texts
  /\ 0 \in Editors /\ Editors \subseteq Nat
  /\ Editors \subseteq Places /\ Places \subseteq Int
  /\ \A e \in Editors : -e \in Places
  /\ MaxKeys \in Nat /\ MaxOthers \in Nat /\ MaxFaults \in Nat
<1>1. Len(Opened) \in Nat /\ MaxKeys \in Nat /\ MaxOthers \in Nat /\ MaxFaults \in Nat
      /\ Blank \in Texts
  BY ActionAssumption
<1>2. MostActions \in Nat
  BY <1>1 DEF MostActions
<1> QED
  BY <1>1, <1>2 DEF Editors, Places

\* Of finitely many places one is the last in document order: a smallest set
\* without a least member would still lack one without any of its members.
LEMMA LastExists ==
  ASSUME NEW S, S \subseteq Places, S # {}
  PROVE  LastOf(S) \in S /\ \A j \in S : LastOf(S) <= j
<1> DEFINE Has(T) == \E i \in T : \A j \in T : i <= j
           Bad == {T \in SUBSET S : T # {} /\ ~Has(T)}
<1>0. \A i \in S : i \in Int
  BY Sizes
<1>1. SUFFICES ASSUME Bad # {} PROVE FALSE
  <2>1. S \in SUBSET S
    OBVIOUS
  <2>2. Has(S)
    BY <1>1, <2>1
  <2> QED
    BY <2>2 DEF LastOf
<1>2. PICK T \in Bad : \A U \in Bad : ~(<<U, T>> \in StrictSubsetOrdering(S))
  <2>1. Bad \subseteq SUBSET S
    OBVIOUS
  <2>2. IsFiniteSet(S)
    <3>1. IsFiniteSet(Places)
      BY Sizes, FS_Interval DEF Places
    <3> QED
      BY <3>1, FS_Subset
  <2> HIDE DEF Bad
  <2>3. IsWellFoundedOn(StrictSubsetOrdering(S), SUBSET S)
    BY <2>2, FS_StrictSubsetOrderingWellFounded, FS_FiniteSubsetsOfFinite
  <2> QED
    BY <1>1, <2>1, <2>3, WFMin
<1>3. T \in SUBSET S /\ ~Has(T)
  OBVIOUS
<1>4. PICK m \in T : TRUE
  OBVIOUS
<1> DEFINE U == T \ {m}
<1>5. U \notin Bad
  <2>1. <<U, T>> \in StrictSubsetOrdering(S)
    BY <1>3, <1>4 DEF StrictSubsetOrdering
  <2> QED
    BY <2>1, <1>2
<1>6. CASE U = {}
  BY <1>0, <1>3, <1>4, <1>6
<1>7. CASE U # {}
  <2>1. PICK i \in U : \A j \in U : i <= j
    BY <1>3, <1>5, <1>7
  <2>2. i \in Int /\ m \in Int /\ \A j \in T : j \in Int
    BY <1>0, <1>3, <1>4, <2>1
  <2>3. CASE i <= m
    BY <2>1, <2>2, <2>3, <1>3
  <2>4. CASE m <= i
    <3>1. \A j \in T : m <= j
      BY <2>1, <2>2, <2>4
    <3> QED
      BY <3>1, <1>3, <1>4
  <2> QED
    BY <2>2, <2>3, <2>4
<1> QED
  BY <1>6, <1>7

\* The rows are numbered from 1, and every package is a sequence of actions.
LEMMA Packaged ==
  ASSUME revisions \in Seq(Row)
  PROVE  /\ Version \in Nat /\ DOMAIN revisions = 1 .. Version
         /\ Versions \subseteq Nat /\ 0 \in Versions /\ Version \in Versions
         /\ \A v \in 1 .. Version : revisions[v] \in Row /\ v \in Versions /\ v - 1 \in Versions
         /\ PackageAt(0) = <<>>
         /\ \A v \in 1 .. Version : PackageAt(v) = revisions[v].package
         /\ \A v \in Versions :
              /\ PackageAt(v) \in Seq(Saved)
              /\ Len(PackageAt(v)) \in Nat
              /\ DOMAIN PackageAt(v) = 1 .. Len(PackageAt(v))
              /\ \A a \in DOMAIN PackageAt(v) : PackageAt(v)[a] \in Saved
<1>1. Version \in Nat /\ DOMAIN revisions = 1 .. Version
  BY DEF Version
<1>2. \A v \in 1 .. Version : revisions[v] \in Row
  BY <1>1
<1>3. \A v \in 1 .. Version : v # 0 /\ PackageAt(v) = revisions[v].package
  BY <1>1 DEF PackageAt
<1>4. PackageAt(0) = <<>>
  BY DEF PackageAt
<1>5. \A v \in Versions : v = 0 \/ v \in 1 .. Version
  BY <1>1 DEF Versions
<1>6. \A v \in Versions : PackageAt(v) \in Seq(Saved)
  <2>1. \A v \in 1 .. Version : revisions[v].package \in Seq(Saved)
    BY <1>2 DEF Row
  <2>2. <<>> \in Seq(Saved)
    OBVIOUS
  <2> QED
    BY <2>1, <2>2, <1>3, <1>4, <1>5
<1>7. \A v \in Versions :
         /\ Len(PackageAt(v)) \in Nat
         /\ DOMAIN PackageAt(v) = 1 .. Len(PackageAt(v))
         /\ \A a \in DOMAIN PackageAt(v) : PackageAt(v)[a] \in Saved
  BY <1>6
<1> QED
  BY <1>1, <1>2, <1>3, <1>4, <1>6, <1>7 DEF Versions

\* What the rows say of an action, from one version to a later one.
LEMMA Later ==
  ASSUME Rows, NEW v \in Versions, NEW w \in Versions, v <= w, NEW e, Known(e, v)
  PROVE  /\ Known(e, w)
         /\ e # 0 => e \in DOMAIN PackageAt(v) /\ e \in DOMAIN PackageAt(w)
         /\ e # 0 /\ ScopeAt(v, e).removed => ScopeAt(w, e).removed
         /\ e = 0 \/ ScopeAt(v, e) = ScopeAt(w, e)
              \/ \E u \in v + 1 .. w : revisions[u].cmd.editor = e
<1>1. revisions \in Seq(Row) /\ Carried(v, w)
  BY DEF Rows
<1>2. /\ Len(PackageAt(v)) \in Nat /\ DOMAIN PackageAt(v) = 1 .. Len(PackageAt(v))
      /\ Len(PackageAt(w)) \in Nat /\ DOMAIN PackageAt(w) = 1 .. Len(PackageAt(w))
  BY <1>1, Packaged
<1>3. Len(PackageAt(v)) <= Len(PackageAt(w))
  BY <1>1 DEF Carried
<1>4. e # 0 => e \in DOMAIN PackageAt(v) /\ e \in DOMAIN PackageAt(w)
  BY <1>2, <1>3 DEF Known
<1>5. ASSUME e # 0 PROVE /\ ScopeAt(v, e) = PackageAt(v)[e]
                         /\ ScopeAt(w, e) = PackageAt(w)[e]
  BY <1>4, <1>5 DEF ScopeAt
<1> QED
  BY <1>1, <1>4, <1>5 DEF Known, Carried

\* An action of a package is an editor: every row has one action at most.
LEMMA ScopeTyped ==
  ASSUME revisions \in Seq(Row), NEW v \in Versions, NEW e
  PROVE  ScopeAt(v, e) \in Saved /\ ScopeAt(v, e).text \in Texts
         /\ ScopeAt(v, e).removed \in BOOLEAN
<1>1. ScopeAt(v, e) \in Saved
  BY Packaged, Sizes DEF ScopeAt, Saved
<1> QED
  BY <1>1 DEF Saved

\* Rows are keyed once by the page, and otherwise by other sessions: there are
\* no more than the bounds allow.
LEMMA FewRows ==
  ASSUME NEW rows, NEW n \in Nat, \A v \in 1 .. n : rows[v].cmd.key \in Keys,
         \A v, w \in 1 .. n : rows[v].cmd.key = rows[w].cmd.key /\ rows[v].cmd.key # 0 => v = w,
         Cardinality({v \in 1 .. n : rows[v].cmd.key = 0}) <= Len(Opened) + MaxOthers
  PROVE  n <= MostActions
<1> DEFINE All == 1 .. n
           Keyed == {v \in All : rows[v].cmd.key # 0}
           Unkeyed == {v \in 1 .. n : rows[v].cmd.key = 0}
           KeyOf == [v \in Keyed |-> rows[v].cmd.key]
<1>2. IsFiniteSet(All) /\ Cardinality(All) = n
  BY FS_Interval
<1>3. IsFiniteSet(1 .. MaxKeys) /\ Cardinality(1 .. MaxKeys) = MaxKeys
  <2>1. MaxKeys \in Nat /\ MaxKeys \in Int /\ 1 \in Int
    BY Sizes
  <2>2. IsFiniteSet(1 .. MaxKeys)
        /\ Cardinality(1 .. MaxKeys) = IF 1 > MaxKeys THEN 0 ELSE MaxKeys - 1 + 1
    BY ONLY <2>1, FS_Interval
  <2> QED
    BY <2>1, <2>2
<1>4. KeyOf \in Injection(Keyed, 1 .. MaxKeys)
  <2>1. \A v \in Keyed : KeyOf[v] \in 1 .. MaxKeys
    BY Sizes DEF Keys
  <2>2. \A v, w \in Keyed : KeyOf[v] = KeyOf[w] => v = w
    OBVIOUS
  <2> QED
    BY <2>1, <2>2 DEF Injection, IsInjective
<1>5. IsFiniteSet(Keyed) /\ Cardinality(Keyed) <= MaxKeys
  <2>1. IsFiniteSet(Keyed)
    BY <1>2, FS_Subset
  <2> HIDE DEF Keyed, KeyOf
  <2>2. Cardinality(Keyed) <= Cardinality(1 .. MaxKeys)
    BY <1>3, <1>4, <2>1, FS_Injection
  <2> QED
    BY <2>1, <2>2, <1>3
<1>6. IsFiniteSet(Unkeyed)
  BY <1>2, FS_Subset
<1>7. All = Unkeyed \cup Keyed /\ Unkeyed \cap Keyed = {}
  OBVIOUS
<1>8. n = Cardinality(Unkeyed) + Cardinality(Keyed)
  <2> HIDE DEF All, Keyed, Unkeyed
  <2>1. Cardinality(Unkeyed \cup Keyed)
          = Cardinality(Unkeyed) + Cardinality(Keyed) - Cardinality(Unkeyed \cap Keyed)
    BY <1>5, <1>6, FS_Union
  <2>2. Cardinality(Unkeyed \cap Keyed) = 0
    BY <1>7, FS_EmptySet
  <2>3. Cardinality(Unkeyed) \in Nat /\ Cardinality(Keyed) \in Nat
    BY <1>5, <1>6, FS_CardinalityType
  <2> QED
    BY <2>1, <2>2, <2>3, <1>2, <1>7
<1>9. Cardinality(Unkeyed) <= Len(Opened) + MaxOthers /\ Cardinality(Unkeyed) \in Nat
  BY <1>6, FS_CardinalityType
<1> HIDE DEF Unkeyed, Keyed
<1> QED
  BY <1>5, <1>8, <1>9, Sizes, FS_CardinalityType DEF MostActions

LEMMA FewVersions ==
  ASSUME revisions \in Seq(Row), Counted
  PROVE  Version <= MostActions
<1>1. Version \in Nat /\ \A v \in 1 .. Version : revisions[v].cmd.key \in Keys
  BY Packaged DEF Row, Commands
<1> QED
  BY <1>1, FewRows DEF Counted, Elsewheres

\* The actions of a version are editors.
LEMMA ActionsAreEditors ==
  ASSUME Rows, NEW v \in Versions, NEW e, Known(e, v)
  PROVE  e \in Editors
<1>1. revisions \in Seq(Row) /\ Counted
  BY DEF Rows
<1>2. Version <= MostActions /\ Version \in Nat /\ v \in 0 .. Version
  BY <1>1, FewVersions, Packaged DEF Versions
<1>3. Len(PackageAt(v)) <= v /\ Len(PackageAt(v)) \in Nat
      /\ DOMAIN PackageAt(v) = 1 .. Len(PackageAt(v))
  BY <1>1, Packaged DEF Counted
<1> QED
  BY <1>2, <1>3, Sizes DEF Known, Editors

-----------------------------------------------------------------------------
(***************************************************************************)
(* Forms that refer to known actions still do after every change the page  *)
(* makes of them.                                                          *)
(***************************************************************************)
LEMMA FormTyped ==
  ASSUME NEW f \in Forms
  PROVE  /\ f.editor \in Editors /\ f.text \in Texts /\ f.baseline \in Texts
         /\ f.version \in Versions /\ f.key \in Keys
         /\ f.target \in Targets /\ f.panel \in Panels
         /\ f.target.text \in Texts /\ f.target.version \in Versions
         /\ f.target.key \in Keys /\ f.target.given \in BOOLEAN
         /\ f.panel.open \in BOOLEAN /\ f.panel.mine \in Texts
         /\ f.panel.current \in Texts /\ f.panel.version \in Versions
         /\ f.panel.listed \in BOOLEAN
         /\ f.inflight \in BOOLEAN /\ f.pending \in BOOLEAN /\ f.gone \in BOOLEAN
         /\ f.unrefreshed \in BOOLEAN
<1>1. f.target \in Targets /\ f.panel \in Panels
  BY DEF Forms
<1>2. /\ f.target.text \in Texts /\ f.target.version \in Versions
      /\ f.target.key \in Keys /\ f.target.given \in BOOLEAN
  BY <1>1 DEF Targets
<1>3. /\ f.panel.open \in BOOLEAN /\ f.panel.mine \in Texts
      /\ f.panel.current \in Texts /\ f.panel.version \in Versions
      /\ f.panel.listed \in BOOLEAN
  BY <1>1 DEF Panels
<1> QED
  BY <1>1, <1>2, <1>3 DEF Forms

\* Nothing stored, remembered or compared.
LEMMA Nothing ==
  ASSUME revisions \in Seq(Row)
  PROVE  /\ NoTarget \in Targets /\ NoPanel \in Panels /\ NoCommand \in Commands
         /\ NoCopy \in Copies /\ NoOrphan \in Orphans /\ NoReread \in Rereads
         /\ NoFetch \in Fetches /\ NoForm \in Forms /\ NoFetch.left = NoForm
         /\ NoFetch.detached = FALSE
         /\ NoTarget.given = FALSE /\ NoTarget.key = 0 /\ NoPanel.open = FALSE
         /\ NoCopy.kept = FALSE /\ NoCommand.editor = 0 /\ NoCommand.key = 0
         /\ NoOrphan.cmd = NoCommand /\ NoFetch.phase = "idle" /\ NoFetch.cmd = NoCommand
         /\ 0 \in Keys
<1>1. 0 \in Versions /\ 0 \in Editors /\ Blank \in Texts /\ 0 \in Keys
  BY Packaged, Sizes DEF Keys
<1>2. NoCommand \in Commands
  BY <1>1 DEF NoCommand, Commands
<1>5. NoTarget \in Targets /\ NoPanel \in Panels
  BY <1>1 DEF NoTarget, Targets, NoPanel, Panels
<1>6. NoForm \in Forms
  BY <1>1, <1>5 DEF NoForm, Forms
<1>3. NoFetch \in Fetches
  BY <1>1, <1>2, <1>6 DEF NoFetch, Fetches, Phases
<1>4. NoOrphan \in Orphans
  BY <1>2 DEF NoOrphan, Orphans
<1> QED
  BY <1>1, <1>2, <1>3, <1>4, <1>5, <1>6
     DEF NoTarget, NoPanel, NoCopy, Copies, NoReread, Rereads, NoCommand, NoOrphan, NoFetch

LEMMA GoodNoForm ==
  ASSUME Rows, NEW k \in Nat
  PROVE  GoodForm(NoForm, k)
<1>1. revisions \in Seq(Row)
  BY DEF Rows
<1>2. /\ NoForm \in Forms /\ NoForm.key = 0 /\ NoForm.editor = 0 /\ NoForm.version = 0
      /\ ~NoForm.target.given /\ NoForm.target.key = 0 /\ ~NoForm.panel.open
  BY <1>1, Nothing DEF NoForm
<1>3. Known(0, 0)
  BY <1>1, Packaged DEF Known
<1> QED
  BY <1>2, <1>3 DEF GoodForm

LEMMA GoodFormOf ==
  ASSUME Rows, NEW v \in Versions, NEW e, Known(e, v), NEW k \in Nat
  PROVE  /\ GoodForm(FormOf(e, v), k)
         /\ FormOf(e, v).editor = e /\ ~FormOf(e, v).inflight
         /\ ~FormOf(e, v).panel.open /\ ~FormOf(e, v).gone /\ ~FormOf(e, v).pending
         /\ ~Dirty(FormOf(e, v))
<1> DEFINE f == FormOf(e, v)
<1>0. revisions \in Seq(Row)
  BY DEF Rows
<1>1. e \in Editors
  BY ActionsAreEditors
<1>2. ScopeAt(v, e).text \in Texts
  BY <1>0, ScopeTyped
<1>3. /\ f.editor = e /\ f.text = ScopeAt(v, e).text /\ f.baseline = f.text /\ f.version = v
      /\ f.key = 0 /\ f.target = NoTarget /\ f.panel = NoPanel
      /\ f.inflight = FALSE /\ f.pending = FALSE /\ f.gone = FALSE /\ f.unrefreshed = FALSE
  BY DEF FormOf
<1>4. f \in Forms
  BY <1>0, <1>1, <1>2, Nothing DEF FormOf, Forms
<1> HIDE DEF f
<1>5. f.target.given = FALSE /\ f.target.key = 0 /\ f.panel.open = FALSE
  BY <1>3 DEF NoTarget, NoPanel
<1>6. GoodForm(f, k)
  BY <1>3, <1>4, <1>5 DEF GoodForm
<1> QED
  BY <1>3, <1>5, <1>6 DEF f, Dirty

LEMMA GoodRestored ==
  ASSUME NEW k \in Nat, NEW f, GoodForm(f, k), GoodStore(store), NEW kept
  PROVE  /\ GoodForm(Restored(f, kept), k)
         /\ Restored(f, kept).editor = f.editor /\ Restored(f, kept).inflight = f.inflight
<1> DEFINE copy == store[f.editor]
           back == IF copy.kept
                     THEN [f EXCEPT !.text = copy.text, !.version = copy.version]
                     ELSE f
           g == [back EXCEPT !.pending = kept[f.editor] # NoCommand]
<1>1. f \in Forms /\ f.editor \in Editors
  BY FormTyped DEF GoodForm
<1>2. copy \in Copies /\ (copy.kept => Known(f.editor, copy.version))
  BY <1>1 DEF GoodStore
<1>3. copy.text \in Texts /\ copy.version \in Versions
  BY <1>2 DEF Copies
<1>4. back \in Forms /\ back.editor = f.editor /\ back.inflight = f.inflight
      /\ back.key = f.key /\ back.target = f.target /\ back.panel = f.panel
      /\ Known(f.editor, back.version)
  <2>1. CASE copy.kept
    BY <2>1, <1>1, <1>2, <1>3 DEF Forms
  <2>2. CASE ~copy.kept
    BY <2>2, <1>1 DEF GoodForm
  <2> QED
    BY <2>1, <2>2
<1> HIDE DEF back
<1>5. g \in Forms /\ g.editor = f.editor /\ g.inflight = f.inflight
      /\ g.key = f.key /\ g.target = f.target /\ g.panel = f.panel
      /\ Known(f.editor, g.version)
  BY <1>4 DEF Forms
<1> HIDE DEF g
<1>6. GoodForm(g, k)
  BY <1>5 DEF GoodForm
<1>7. Restored(f, kept) = g
  BY DEF Restored, g, back
<1> QED
  BY <1>5, <1>6, <1>7

\* What a form of a page without a dirty form before it is made of.
LEMMA GraftedFrom ==
  ASSUME NEW k \in Nat, NEW fs, GoodForms(fs, k), NEW e, DirtyFormsOf(fs, e) # {}, NEW v
  PROVE  LET last == LastOf(DirtyFormsOf(fs, e))
             g == Grafted(fs, e, v) IN
           /\ last \in DirtyFormsOf(fs, e) /\ last \in DOMAIN fs /\ fs[last].editor = e
           /\ \A j \in DirtyFormsOf(fs, e) : last <= j
           /\ fs[last] \in Forms
           /\ g.editor = e /\ g.text = fs[last].text /\ g.baseline = fs[last].baseline
           /\ g.version = fs[last].version /\ g.key = fs[last].key /\ g.panel = fs[last].panel
           /\ g.inflight = fs[last].inflight /\ g.pending = fs[last].pending
           /\ g.gone = fs[last].gone
<1> DEFINE last == LastOf(DirtyFormsOf(fs, e))
<1>1. DirtyFormsOf(fs, e) \subseteq Places
  BY DEF DirtyFormsOf, GoodForms
<1>2. last \in DirtyFormsOf(fs, e) /\ \A j \in DirtyFormsOf(fs, e) : last <= j
  BY <1>1, LastExists
<1>3. last \in DOMAIN fs /\ fs[last].editor = e
  BY <1>2 DEF DirtyFormsOf
<1>4. fs[last] \in Forms
  BY <1>3 DEF GoodForms, GoodForm
<1> HIDE DEF last
<1>5. LET g == [fs[last] EXCEPT !.target =
       IF DirtyFormsOf(fs, e) \ {last} = {}
         THEN [given |-> TRUE, text |-> ScopeAt(v, e).text, version |-> v, key |-> 0]
         ELSE LET first == fs[LastOf(DirtyFormsOf(fs, e) \ {last})] IN
                [given |-> TRUE, text |-> first.text, version |-> first.version,
                 key |-> first.key]] IN
           /\ g.editor = fs[last].editor /\ g.text = fs[last].text
           /\ g.baseline = fs[last].baseline
           /\ g.version = fs[last].version /\ g.key = fs[last].key /\ g.panel = fs[last].panel
           /\ g.inflight = fs[last].inflight /\ g.pending = fs[last].pending
           /\ g.gone = fs[last].gone
  BY <1>4 DEF Forms
<1> QED
  BY <1>2, <1>3, <1>4, <1>5 DEF Grafted, last

LEMMA GoodGrafted ==
  ASSUME Rows, NEW k \in Nat, NEW fs, GoodForms(fs, k), NEW v \in Versions, NEW e, Known(e, v),
         DirtyFormsOf(fs, e) # {}
  PROVE  GoodForm(Grafted(fs, e, v), k)
<1> DEFINE last == LastOf(DirtyFormsOf(fs, e))
           replaced == DirtyFormsOf(fs, e) \ {last}
           first == fs[LastOf(replaced)]
           target == IF replaced = {}
             THEN [given |-> TRUE, text |-> ScopeAt(v, e).text, version |-> v, key |-> 0]
             ELSE [given |-> TRUE, text |-> first.text, version |-> first.version,
                   key |-> first.key]
           g == [fs[last] EXCEPT !.target = target]
<1>1. last \in DOMAIN fs /\ fs[last].editor = e
  BY GraftedFrom
<1>2. GoodForm(fs[last], k)
  BY <1>1 DEF GoodForms
<1>3. target \in Targets /\ target.key \in 0 .. k /\ Known(e, target.version)
  <2>1. CASE replaced = {}
    <3>1. ScopeAt(v, e).text \in Texts /\ 0 \in Keys
      BY ScopeTyped, Nothing DEF Rows
    <3> QED
      BY <2>1, <3>1 DEF Targets
  <2>2. CASE replaced # {}
    <3>1. replaced \subseteq Places
      BY DEF DirtyFormsOf, GoodForms
    <3> HIDE DEF last
    <3>2. LastOf(replaced) \in replaced
      BY <2>2, <3>1, LastExists
    <3>3. LastOf(replaced) \in DOMAIN fs /\ first.editor = e
      BY <3>2 DEF DirtyFormsOf
    <3>4. GoodForm(first, k)
      BY <3>3 DEF GoodForms
    <3> HIDE DEF replaced, first
    <3>5. /\ first.text \in Texts /\ first.version \in Versions /\ first.key \in Keys
          /\ first.key \in 0 .. k /\ Known(e, first.version)
      BY <3>3, <3>4, FormTyped DEF GoodForm
    <3> QED
      BY <2>2, <3>5 DEF Targets
  <2> QED
    BY <2>1, <2>2
<1> HIDE DEF target, last
<1>4. g \in Forms /\ g.editor = e /\ g.target = target /\ g.version = fs[last].version
      /\ g.key = fs[last].key /\ g.panel = fs[last].panel
  BY <1>1, <1>2, <1>3 DEF GoodForm, Forms
<1> HIDE DEF g
<1>5. GoodForm(g, k)
  BY <1>1, <1>2, <1>3, <1>4 DEF GoodForm
<1>6. Grafted(fs, e, v) = g
  BY DEF Grafted, g, target, last
<1> QED
  BY <1>5, <1>6

\* The place of a form of the page; the form it is made from, if there was one.
LEMMA PageForms ==
  ASSUME Rows, NEW k \in Nat, NEW fs, GoodForms(fs, k), NEW v \in Versions, NEW kept,
         NEW p \in DOMAIN Page(fs, v, kept)
  PROVE  \/ /\ p \in {0} \cup Live(v) /\ Known(p, v) /\ DirtyFormsOf(fs, p) = {}
            /\ Page(fs, v, kept)[p] = Restored(FormOf(p, v), kept)
         \/ /\ p \in {0} \cup Live(v) /\ Known(p, v) /\ DirtyFormsOf(fs, p) # {}
            /\ Page(fs, v, kept)[p] = Grafted(fs, p, v)
         \/ /\ p \notin {0} \cup Live(v)
            /\ \E i \in WithoutPlace(fs, v) :
                 /\ KeptAt(fs, i) = p
                 /\ \A j \in WithoutPlace(fs, v) : KeptAt(fs, j) = p => i <= j
                 /\ Page(fs, v, kept)[p] = [fs[i] EXCEPT !.gone = TRUE]
<1> DEFINE here == {i \in WithoutPlace(fs, v) : KeptAt(fs, i) = p}
<1>1. CASE p \in {0} \cup Live(v)
  <2>1. Page(fs, v, kept)[p] = EditorOn(fs, p, v, kept)
    BY <1>1 DEF Page
  <2>2. Known(p, v)
    BY <1>1 DEF Known, Live
  <2> QED
    BY <1>1, <2>1, <2>2 DEF EditorOn
<1>2. CASE p \notin {0} \cup Live(v)
  <2>1. here # {}
    BY <1>2 DEF Page
  <2>2. here \subseteq Places
    BY DEF WithoutPlace, GoodForms
  <2> HIDE DEF here
  <2>3. LastOf(here) \in here /\ \A j \in here : LastOf(here) <= j
    BY <2>1, <2>2, LastExists
  <2>4. Page(fs, v, kept)[p] = [fs[LastOf(here)] EXCEPT !.gone = TRUE]
    BY <1>2 DEF Page, here
  <2> QED
    BY <1>2, <2>3, <2>4 DEF here
<1> QED
  BY <1>1, <1>2

LEMMA GoodPage ==
  ASSUME Rows, NEW k \in Nat, NEW fs, GoodForms(fs, k), GoodStore(store), NEW v \in Versions,
         NEW kept
  PROVE  /\ GoodForms(Page(fs, v, kept), k)
         /\ \A p \in DOMAIN Page(fs, v, kept) :
              Page(fs, v, kept)[p].inflight =>
                \E i \in DOMAIN fs : fs[i].inflight /\ fs[i].editor = Page(fs, v, kept)[p].editor
<1> DEFINE page == Page(fs, v, kept)
<1>1. page = [p \in DOMAIN page |-> page[p]]
  BY DEF Page
<1>2. DOMAIN page \subseteq Places
  <2>1. \A a \in Live(v) : a \in Places
    BY ActionsAreEditors, Sizes DEF Live, Known
  <2>2. \A i \in WithoutPlace(fs, v) : KeptAt(fs, i) \in Places
    <3> TAKE i \in WithoutPlace(fs, v)
    <3>1. i \in Places /\ fs[i] \in Forms
      BY DEF WithoutPlace, GoodForms, GoodForm
    <3>2. -fs[i].editor \in Places
      BY <3>1, FormTyped, Sizes
    <3> QED
      BY <3>1, <3>2 DEF KeptAt
  <2>3. 0 \in Places
    BY Sizes
  <2> QED
    BY <2>1, <2>2, <2>3 DEF Page
<1>3. ASSUME NEW p \in DOMAIN page
      PROVE  GoodForm(page[p], k)
             /\ (page[p].inflight => \E i \in DOMAIN fs : fs[i].inflight /\ fs[i].editor = page[p].editor)
  <2>1. CASE Known(p, v) /\ page[p] = Restored(FormOf(p, v), kept)
    BY <2>1, GoodFormOf, GoodRestored
  <2>2. CASE Known(p, v) /\ DirtyFormsOf(fs, p) # {} /\ page[p] = Grafted(fs, p, v)
    BY <2>2, GoodGrafted, GraftedFrom
  <2>3. CASE \E i \in WithoutPlace(fs, v) : page[p] = [fs[i] EXCEPT !.gone = TRUE]
    <3>1. PICK i \in WithoutPlace(fs, v) : page[p] = [fs[i] EXCEPT !.gone = TRUE]
      BY <2>3
    <3>2. i \in DOMAIN fs /\ GoodForm(fs[i], k)
      BY DEF WithoutPlace, GoodForms
    <3>3. /\ page[p] \in Forms /\ page[p].editor = fs[i].editor
          /\ page[p].version = fs[i].version /\ page[p].key = fs[i].key
          /\ page[p].target = fs[i].target /\ page[p].panel = fs[i].panel
          /\ page[p].inflight = fs[i].inflight
      BY <3>1, <3>2 DEF GoodForm, Forms
    <3> QED
      BY <3>2, <3>3 DEF GoodForm
  <2> HIDE DEF page
  <2> QED
    BY <2>1, <2>2, <2>3, PageForms DEF page
<1> QED
  BY <1>1, <1>2, <1>3 DEF GoodForms

LEMMA GoodCopyOf ==
  ASSUME Rows, NEW k \in Nat, NEW f, GoodForm(f, k)
  PROVE  CopyOf(f) \in Copies /\ (CopyOf(f).kept => Known(f.editor, CopyOf(f).version))
<1>1. f.text \in Texts /\ f.version \in Versions /\ Known(f.editor, f.version)
  BY FormTyped DEF GoodForm
<1>2. NoCopy \in Copies /\ NoCopy.kept = FALSE
  BY Nothing DEF Rows
<1> QED
  BY <1>1, <1>2 DEF CopyOf, Copies

LEMMA GoodStoring ==
  ASSUME Rows, NEW k \in Nat, NEW f, GoodForm(f, k), NEW st, GoodStore(st)
  PROVE  /\ GoodStore([st EXCEPT ![f.editor] = CopyOf(f)])
         /\ \A e : GoodStore([st EXCEPT ![e] = NoCopy])
<1>1. f.editor \in Editors
  BY FormTyped DEF GoodForm
<1>2. CopyOf(f) \in Copies /\ (CopyOf(f).kept => Known(f.editor, CopyOf(f).version))
  BY GoodCopyOf
<1>3. NoCopy \in Copies /\ NoCopy.kept = FALSE
  BY Nothing DEF Rows
<1> QED
  BY <1>1, <1>2, <1>3 DEF GoodStore

LEMMA GoodStoreOf ==
  ASSUME Rows, NEW k \in Nat, NEW fs, NEW page, NEW who, GoodForms(page, k), GoodStore(store)
  PROVE  GoodStore(StoreOf(fs, page, who))
<1> SUFFICES ASSUME NEW e \in Editors
             PROVE  /\ StoreOf(fs, page, who)[e] \in Copies
                    /\ StoreOf(fs, page, who)[e].kept => Known(e, StoreOf(fs, page, who)[e].version)
  BY DEF GoodStore, StoreOf
<1> DEFINE touched == {i \in DOMAIN page : /\ page[i].editor = e
                                           /\ Followed(page[i], who) \/ DirtyFormsOf(fs, e) = {}}
           i == CHOOSE j \in touched : TRUE
<1>1. CASE touched = {}
  BY <1>1 DEF StoreOf, GoodStore
<1>2. CASE touched # {}
  <2>1. StoreOf(fs, page, who)[e] = CopyOf(page[i])
    BY <1>2 DEF StoreOf
  <2>2. i \in touched
    BY <1>2
  <2>3. GoodForm(page[i], k) /\ page[i].editor = e
    BY <2>2 DEF GoodForms
  <2> HIDE DEF i
  <2> QED
    BY <2>1, <2>3, GoodCopyOf
<1> QED
  BY <1>1, <1>2

LEMMA GoodOvertaken ==
  ASSUME NEW st, GoodStore(st), NEW es
  PROVE  GoodStore(Overtaken(st, es))
<1>1. ASSUME NEW e \in Editors
      PROVE  /\ Overtaken(st, es)[e] \in Copies /\ Overtaken(st, es)[e].kept = st[e].kept
             /\ Overtaken(st, es)[e].version = st[e].version
  BY DEF GoodStore, Overtaken, Copies
<1> QED
  BY <1>1 DEF GoodStore, Overtaken

LEMMA GoodAdopt ==
  ASSUME Rows, NEW k \in Nat, NEW fs, GoodForms(fs, k), GoodStore(store), NEW v \in Versions,
         NEW panel \in Orphans, MaybeGood(panel.cmd, k), MaybeGood(unknown', k),
         NEW pause \in BOOLEAN, NEW who, Adopt(fs, v, panel, pause, who)
  PROVE  /\ GoodForms(forms', k) /\ GoodStore(store')
         /\ orphan' \in Orphans /\ MaybeGood(orphan'.cmd, k) /\ paused' \in BOOLEAN
         /\ \A i \in DOMAIN forms' :
              forms'[i].inflight =>
                /\ fetch'.phase # "idle"
                /\ \E j \in DOMAIN fs : fs[j].inflight /\ fs[j].editor = forms'[i].editor
<1> DEFINE page == Page(fs, v, stored')
           moving == fetch'.phase # "idle"
           waiting == reread'.phase # "none"
<1>1. GoodForms(page, k)
  BY GoodPage
<1>2. forms' = [i \in DOMAIN page |-> [page[i] EXCEPT !.inflight = @ /\ moving,
                                                        !.unrefreshed = @ /\ waiting]]
      /\ store' = StoreOf(fs, page, who) /\ orphan' = OrphanOn(page, panel, unknown')
      /\ paused' \in BOOLEAN
  BY DEF Adopt
<1>3. GoodStore(store')
  BY <1>1, <1>2, GoodStoreOf
<1>4. orphan' \in Orphans /\ MaybeGood(orphan'.cmd, k)
  <2>1. CASE orphan' = panel
    BY <2>1
  <2>2. CASE orphan' = [cmd |-> unknown', pending |-> TRUE] /\ unknown' # NoCommand
    <3>1. unknown' \in Commands
      BY <2>2 DEF MaybeGood, GoodCommand
    <3> QED
      BY <2>2, <3>1 DEF Orphans
  <2> QED
    BY <1>2, <2>1, <2>2 DEF OrphanOn
<1>5. moving \in BOOLEAN /\ waiting \in BOOLEAN
  OBVIOUS
<1> HIDE DEF moving, waiting
<1>6. ASSUME NEW i \in DOMAIN page
      PROVE  GoodForm(forms'[i], k) /\ forms'[i].editor = page[i].editor
             /\ (forms'[i].inflight => page[i].inflight /\ moving)
  <2> DEFINE g == [page[i] EXCEPT !.inflight = @ /\ moving, !.unrefreshed = @ /\ waiting]
  <2>1. GoodForm(page[i], k)
    BY <1>1 DEF GoodForms
  <2>3. (page[i].inflight /\ moving) \in BOOLEAN /\ (page[i].unrefreshed /\ waiting) \in BOOLEAN
    OBVIOUS
  <2>4. /\ g \in Forms /\ g.editor = page[i].editor
        /\ g.version = page[i].version /\ g.key = page[i].key
        /\ g.target = page[i].target /\ g.panel = page[i].panel
        /\ g.inflight = (page[i].inflight /\ moving)
    BY <2>1, <2>3 DEF GoodForm, Forms
  <2>5. forms'[i] = g
    BY <1>2
  <2> HIDE DEF g
  <2>6. GoodForm(g, k)
    BY <2>1, <2>4 DEF GoodForm
  <2> QED
    BY <2>4, <2>5, <2>6
<1>7. GoodForms(forms', k)
  <2>1. DOMAIN forms' = DOMAIN page /\ forms' = [i \in DOMAIN forms' |-> forms'[i]]
    BY <1>2
  <2> HIDE DEF page
  <2> QED
    BY <1>1, <1>6, <2>1 DEF GoodForms
<1>8. ASSUME NEW i \in DOMAIN forms', forms'[i].inflight
      PROVE  /\ fetch'.phase # "idle"
             /\ \E j \in DOMAIN fs : fs[j].inflight /\ fs[j].editor = forms'[i].editor
  <2>1. i \in DOMAIN page
    BY <1>2
  <2>2. page[i].inflight /\ moving /\ forms'[i].editor = page[i].editor
    BY <1>6, <1>8, <2>1
  <2> QED
    BY <2>1, <2>2, GoodPage DEF moving
<1> QED
  BY <1>2, <1>3, <1>4, <1>7, <1>8

\* What is good with the keys drawn so far is with more of them.
LEMMA MoreKeys ==
  ASSUME NEW k \in Nat, NEW l \in Nat, k <= l
  PROVE  /\ \A c : GoodCommand(c, k) => GoodCommand(c, l)
         /\ \A f : GoodForm(f, k) => GoodForm(f, l)
         /\ \A fs : GoodForms(fs, k) => GoodForms(fs, l)
         /\ \A sd, un, orp : GoodOffers(sd, un, orp, k) => GoodOffers(sd, un, orp, l)
         /\ \A cs : GoodCopies(cs, k) => GoodCopies(cs, l)
<1>1. \A c : GoodCommand(c, k) => GoodCommand(c, l)
  BY DEF GoodCommand
<1>2. \A f : GoodForm(f, k) => GoodForm(f, l)
  BY DEF GoodForm
<1>3. \A sd, un, orp : GoodOffers(sd, un, orp, k) => GoodOffers(sd, un, orp, l)
  BY <1>1 DEF GoodOffers, GoodStored, MaybeGood
<1> QED
  BY <1>1, <1>2, <1>3 DEF GoodForms, GoodCopies

LEMMA GoodPut ==
  ASSUME NEW k \in Nat, NEW l \in Nat, k <= l, NEW fs, GoodForms(fs, k),
         NEW i \in DOMAIN fs, NEW f, GoodForm(f, l)
  PROVE  GoodForms([fs EXCEPT ![i] = f], l)
BY MoreKeys DEF GoodForms

LEMMA GoodFetchStays ==
  ASSUME NEW k \in Nat, NEW l \in Nat, k <= l, NEW fs, NEW gs, NEW ft, GoodFetch(fs, ft, k),
         \A i \in DOMAIN gs : gs[i].inflight =>
           \E j \in DOMAIN fs : fs[j].inflight /\ fs[j].editor = gs[i].editor
  PROVE  GoodFetch(gs, ft, l)
<1>1. (ft.phase \in Unanswered => GoodCommand(ft.cmd, l)) /\ GoodForm(ft.left, l)
  BY MoreKeys DEF GoodFetch
<1>2. ASSUME ft.phase = "conflict", NEW i \in DOMAIN gs, gs[i].inflight
      PROVE  Known(gs[i].editor, ft.page)
  BY <1>2 DEF GoodFetch
<1> QED
  BY <1>1, <1>2 DEF GoodFetch

LEMMA GoodTyped ==
  ASSUME NEW k \in Nat, NEW f, GoodForm(f, k), NEW t \in Texts
  PROVE  LET g == [f EXCEPT !.text = t] IN
           GoodForm(g, k) /\ g.editor = f.editor /\ g.inflight = f.inflight
<1> DEFINE g == [f EXCEPT !.text = t]
<1>1. /\ g \in Forms /\ g.editor = f.editor /\ g.inflight = f.inflight
      /\ g.version = f.version /\ g.key = f.key /\ g.target = f.target /\ g.panel = f.panel
  BY DEF GoodForm, Forms
<1> HIDE DEF g
<1>2. GoodForm(g, k)
  BY <1>1 DEF GoodForm
<1> QED
  BY <1>1, <1>2 DEF g

LEMMA GoodDiscarded ==
  ASSUME Rows, NEW k \in Nat, NEW f, GoodForm(f, k)
  PROVE  /\ GoodForm(Discarded(f), k)
         /\ Discarded(f).editor = f.editor /\ Discarded(f).inflight = f.inflight
<1> DEFINE t == f.target
           back == IF t.given
                     THEN [f EXCEPT !.text = t.text, !.baseline = t.text, !.version = t.version,
                                    !.key = t.key]
                     ELSE [f EXCEPT !.text = f.baseline]
           g == [back EXCEPT !.panel = NoPanel]
<1>1. f \in Forms /\ Known(f.editor, f.version) /\ f.key \in 0 .. k
      /\ (t.given => Known(f.editor, t.version)) /\ t.key \in 0 .. k
  BY DEF GoodForm
<1>2. t.text \in Texts /\ t.version \in Versions /\ t.key \in Keys /\ f.baseline \in Texts
  BY <1>1, FormTyped
<1>3. NoPanel \in Panels /\ NoPanel.open = FALSE
  BY Nothing DEF Rows
<1>4. /\ back \in Forms /\ back.editor = f.editor /\ back.inflight = f.inflight
      /\ back.target = t /\ Known(f.editor, back.version) /\ back.key \in 0 .. k
  <2>1. CASE t.given
    BY <2>1, <1>1, <1>2 DEF Forms
  <2>2. CASE ~t.given
    BY <2>2, <1>1, <1>2 DEF Forms
  <2> QED
    BY <2>1, <2>2
<1> HIDE DEF back
<1>5. /\ g \in Forms /\ g.editor = f.editor /\ g.inflight = f.inflight /\ g.target = t
      /\ g.version = back.version /\ g.key = back.key /\ g.panel = NoPanel
  BY <1>3, <1>4 DEF Forms
<1> HIDE DEF g
<1>6. GoodForm(g, k)
  BY <1>1, <1>3, <1>4, <1>5 DEF GoodForm
<1>7. Discarded(f) = g
  BY DEF Discarded, g, back
<1> QED
  BY <1>5, <1>6, <1>7

LEMMA GoodCurrentUsed ==
  ASSUME Rows, NEW k \in Nat, NEW f, GoodForm(f, k)
  PROVE  /\ GoodForm(CurrentUsed(f), k)
         /\ CurrentUsed(f).editor = f.editor /\ CurrentUsed(f).inflight = f.inflight
<1>1. CASE f.panel.listed
  BY <1>1, GoodDiscarded DEF CurrentUsed
<1>2. CASE ~f.panel.listed
  <2> DEFINE g == [f EXCEPT !.text = f.panel.current, !.baseline = f.panel.current,
                            !.panel = NoPanel]
  <2>1. f \in Forms /\ f.panel.current \in Texts /\ NoPanel \in Panels /\ NoPanel.open = FALSE
    BY FormTyped, Nothing DEF GoodForm, Rows
  <2>2. /\ g \in Forms /\ g.editor = f.editor /\ g.inflight = f.inflight
        /\ g.version = f.version /\ g.key = f.key /\ g.target = f.target /\ g.panel = NoPanel
    BY <2>1 DEF Forms
  <2> HIDE DEF g
  <2>3. GoodForm(g, k)
    BY <2>1, <2>2 DEF GoodForm
  <2>4. CurrentUsed(f) = g
    BY <1>2 DEF CurrentUsed, g
  <2> QED
    BY <2>2, <2>3, <2>4
<1> QED
  BY <1>1, <1>2

LEMMA GoodMine ==
  ASSUME Rows, NEW k \in Nat, NEW f, GoodForm(f, k), f.panel.open
  PROVE  /\ GoodForm(Mine(f), k)
         /\ Mine(f).editor = f.editor /\ Mine(f).inflight = f.inflight /\ Mine(f).key = 0
         /\ GoodForm([Mine(f) EXCEPT !.panel = NoPanel], k)
         /\ [Mine(f) EXCEPT !.panel = NoPanel].editor = f.editor
         /\ [Mine(f) EXCEPT !.panel = NoPanel].inflight = f.inflight
         /\ CopyOf([Mine(f) EXCEPT !.panel = NoPanel]) = CopyOf(Mine(f))
<1> DEFINE g == Mine(f)
           h == [g EXCEPT !.panel = NoPanel]
<1>1. f \in Forms /\ f.panel.mine \in Texts /\ f.panel.version \in Versions
      /\ Known(f.editor, f.panel.version) /\ 0 \in Keys
      /\ NoPanel \in Panels /\ NoPanel.open = FALSE
  BY FormTyped, Nothing DEF GoodForm, Rows
<1>2. /\ g \in Forms /\ g.editor = f.editor /\ g.inflight = f.inflight
      /\ g.version = f.panel.version /\ g.key = 0 /\ g.target = f.target /\ g.panel = f.panel
  BY <1>1 DEF Mine, Forms
<1> HIDE DEF g
<1>3. /\ h \in Forms /\ h.editor = f.editor /\ h.inflight = f.inflight
      /\ h.version = f.panel.version /\ h.key = 0 /\ h.target = f.target /\ h.panel = NoPanel
      /\ h.text = g.text /\ h.baseline = g.baseline /\ h.version = g.version
  BY <1>1, <1>2 DEF Forms
<1> HIDE DEF h
<1>4. GoodForm(g, k)
  BY <1>1, <1>2 DEF GoodForm
<1>5. GoodForm(h, k)
  BY <1>1, <1>2, <1>3 DEF GoodForm
<1>6. CopyOf(h) = CopyOf(g)
  BY <1>3 DEF CopyOf, Dirty
<1> QED
  BY <1>2, <1>3, <1>4, <1>5, <1>6 DEF g, h

-----------------------------------------------------------------------------
(***************************************************************************)
(* The page's own steps: the saved packages stay as they are.              *)
(***************************************************************************)
GoodAfter ==
  /\ GoodForms(forms', keys') /\ GoodStore(store')
  /\ GoodOffers(stored', unknown', orphan', keys')
  /\ GoodFetch(forms', fetch', keys') /\ GoodCopies(copies', keys')
  /\ paused' \in BOOLEAN /\ reread' \in Rereads
  /\ keys' \in Keys /\ faults' \in 0 .. MaxFaults
  /\ told' \in Nat /\ met' \in BOOLEAN

LEMMA PageStep ==
  ASSUME BInv, revisions' = revisions, GoodAfter
  PROVE  BInv'
<1>1. Rows'
  BY DEF BInv, Rows, Row, Commands, Versions, Version, Counted, Elsewheres, PackageAt, Carried,
         Kept
<1>2. Shape'
  BY DEF GoodAfter, Shape, Rereads, Versions, Version
<1>3. \A v : Versions' = Versions /\ PackageAt(v)' = PackageAt(v)
  BY DEF Versions, Version, PackageAt
<1>4. GoodForms(forms, keys)' /\ GoodStore(store)'
  BY DEF GoodAfter, GoodForms, GoodForm, GoodStore, Known, Versions, Version, PackageAt,
         Forms, Targets, Panels, Copies
<1>5. GoodOffers(stored, unknown, orphan, keys)'
  BY DEF GoodAfter, GoodOffers, GoodStored, MaybeGood, GoodCommand, Commands, Known,
         Versions, Version, PackageAt, Orphans
<1>6. GoodCopies(copies, keys)'
  BY DEF GoodAfter, GoodCopies, GoodCommand, Commands, Known, Versions, Version, PackageAt
<1>7. GoodFetch(forms, fetch, keys)'
  <2>1. GoodForm(fetch.left, keys)'
    BY DEF GoodAfter, GoodFetch, GoodForm, Known, Versions, Version, PackageAt, Forms, Targets,
           Panels
  <2>2. Fetches' = Fetches
    BY DEF Fetches, Commands, Forms, Targets, Panels, Versions, Version
  <2>3. /\ Named(fetch)' <=> Named(fetch')
        /\ Changed(fetch)' <=> Changed(fetch')
        /\ GoodCommand(fetch.cmd, keys)' <=> GoodCommand(fetch'.cmd, keys')
        /\ \A e, v : Known(e, v)' <=> Known(e, v)
    BY DEF Named, Changed, GoodCommand, Commands, Known, Versions, Version, PackageAt
  <2> QED
    BY <2>1, <2>2, <2>3 DEF GoodAfter, GoodFetch
<1> QED
  BY <1>1, <1>2, <1>4, <1>5, <1>6, <1>7 DEF BInv

\* The invariant, part by part.
LEMMA BInvParts ==
  ASSUME BInv
  PROVE  /\ Rows /\ revisions \in Seq(Row) /\ Counted
         /\ GoodForms(forms, keys) /\ GoodStore(store)
         /\ GoodStored(stored, keys) /\ MaybeGood(unknown, keys)
         /\ orphan \in Orphans /\ MaybeGood(orphan.cmd, keys)
         /\ GoodFetch(forms, fetch, keys) /\ GoodCopies(copies, keys)
         /\ paused \in BOOLEAN /\ reread \in Rereads
         /\ keys \in Keys /\ keys \in Nat /\ faults \in 0 .. MaxFaults
         /\ told \in Nat /\ met \in BOOLEAN
<1>1. keys \in Keys /\ keys \in Nat
  BY Sizes DEF BInv, Shape, Keys
<1> QED
  BY <1>1 DEF BInv, Shape, Rows, GoodOffers

\* A form is changed and stays what it is: it has the editor it had, it is sending
\* if it was, and its recovery copy is made anew.
Edited(i, f) ==
  /\ GoodForm(f, keys) /\ f.editor = forms[i].editor /\ f.inflight = forms[i].inflight
  /\ Put(i, f) /\ store' = Marked(f)
  /\ UNCHANGED <<revisions, offers, fetch, reread, copies, keys, faults, told>>

LEMMA EditedGood ==
  ASSUME BInv, NEW i \in DOMAIN forms, NEW f, Edited(i, f)
  PROVE  BInv'
<1>1. /\ stored' = stored /\ unknown' = unknown /\ paused' = paused /\ orphan' = orphan
      /\ fetch' = fetch /\ reread' = reread /\ copies' = copies /\ keys' = keys
      /\ faults' = faults /\ told' = told /\ revisions' = revisions
  BY DEF offers, Edited
<1>2. /\ GoodForm(f, keys) /\ f.editor = forms[i].editor /\ f.inflight = forms[i].inflight
      /\ forms' = [forms EXCEPT ![i] = f] /\ met' \in BOOLEAN
  BY DEF Put, Edited
<1>3. GoodForms(forms', keys)
  <2>1. keys \in Nat /\ keys <= keys /\ GoodForms(forms, keys)
    BY BInvParts
  <2>2. GoodForms([forms EXCEPT ![i] = f], keys)
    BY <1>2, <2>1, GoodPut
  <2> QED
    BY <1>2, <2>2
<1>4. ASSUME NEW j \in DOMAIN forms', forms'[j].inflight
      PROVE  j \in DOMAIN forms /\ forms[j].inflight /\ forms[j].editor = forms'[j].editor
  BY <1>2, <1>4
<1>5. GoodFetch(forms', fetch, keys)
  BY <1>4, BInvParts, GoodFetchStays
<1>6. GoodStore(store')
  BY <1>2, BInvParts, GoodStoring DEF Marked, Edited
<1> QED
  BY <1>1, <1>2, <1>3, <1>5, <1>6, BInvParts, PageStep DEF GoodAfter, GoodOffers

LEMMA AuthorEdits ==
  ASSUME BInv, NEW i \in DOMAIN forms
  PROVE  /\ \A t \in Texts : Type(i, t) => Edited(i, [forms[i] EXCEPT !.text = t])
         /\ Discard(i) => Edited(i, Discarded(forms[i]))
         /\ UseCurrent(i) => Edited(i, CurrentUsed(forms[i]))
         /\ Combine(i) => Edited(i, [Mine(forms[i]) EXCEPT !.panel = NoPanel])
         /\ SaveMine(i) => \/ Edited(i, Mine(forms[i]))
                           \/ /\ Idle /\ SendForm(i, Mine(forms[i]))
                              /\ GoodForm(Mine(forms[i]), keys)
                              /\ Mine(forms[i]).editor = forms[i].editor
                              /\ Mine(forms[i]).key = 0
                              /\ store' = Marked(Mine(forms[i]))
                              /\ UNCHANGED <<revisions, offers, reread, copies, faults, told>>
<1>1. GoodForm(forms[i], keys) /\ Rows /\ keys \in Nat
  BY BInvParts DEF GoodForms
<1>2. ASSUME NEW t \in Texts, Type(i, t)
      PROVE  Edited(i, [forms[i] EXCEPT !.text = t])
  BY <1>1, <1>2, GoodTyped DEF Type, Edited
<1>3. ASSUME Discard(i)
      PROVE  Edited(i, Discarded(forms[i]))
  BY <1>1, <1>3, GoodDiscarded DEF Discard, Edited
<1>4. ASSUME UseCurrent(i)
      PROVE  Edited(i, CurrentUsed(forms[i]))
  BY <1>1, <1>4, GoodCurrentUsed DEF UseCurrent, Edited
<1>5. ASSUME Combine(i)
      PROVE  Edited(i, [Mine(forms[i]) EXCEPT !.panel = NoPanel])
  <2> DEFINE f == Mine(forms[i])
             g == [f EXCEPT !.panel = NoPanel]
  <2>1. /\ GoodForm(g, keys) /\ g.editor = forms[i].editor /\ g.inflight = forms[i].inflight
        /\ f.editor = forms[i].editor /\ CopyOf(g) = CopyOf(f)
    BY <1>1, <1>5, GoodMine DEF Combine
  <2>2. /\ Put(i, g) /\ store' = Marked(f)
        /\ UNCHANGED <<revisions, offers, fetch, reread, copies, keys, faults, told>>
    BY <1>5 DEF Combine
  <2> HIDE DEF f, g
  <2>3. Edited(i, g)
    BY <2>1, <2>2 DEF Edited, Marked
  <2> QED
    BY <2>3 DEF f, g
<1>6. ASSUME SaveMine(i)
      PROVE  \/ Edited(i, Mine(forms[i]))
             \/ /\ Idle /\ SendForm(i, Mine(forms[i]))
                /\ GoodForm(Mine(forms[i]), keys)
                /\ Mine(forms[i]).editor = forms[i].editor
                /\ Mine(forms[i]).key = 0
                /\ store' = Marked(Mine(forms[i]))
                /\ UNCHANGED <<revisions, offers, reread, copies, faults, told>>
  <2>1. /\ GoodForm(Mine(forms[i]), keys) /\ Mine(forms[i]).editor = forms[i].editor
        /\ Mine(forms[i]).inflight = forms[i].inflight /\ Mine(forms[i]).key = 0
    BY <1>1, <1>6, GoodMine DEF SaveMine
  <2> QED
    BY <2>1, <1>6 DEF SaveMine, Edited
<1> QED
  BY <1>2, <1>3, <1>4, <1>5, <1>6

LEMMA DiscardRetainedGood ==
  ASSUME BInv, NEW i \in DOMAIN forms, DiscardRetained(i)
  PROVE  BInv'
<1>1. /\ stored' = stored /\ unknown' = unknown /\ paused' = paused /\ orphan' = orphan
      /\ fetch' = fetch /\ reread' = reread /\ copies' = copies /\ keys' = keys
      /\ faults' = faults /\ told' = told /\ met' = met /\ revisions' = revisions
  BY DEF DiscardRetained, offers
<1>2. forms' = [j \in DOMAIN forms \ {i} |-> forms[j]]
  BY DEF DiscardRetained, Restrict
<1>3. GoodForms(forms', keys)
  BY <1>2, BInvParts DEF GoodForms
<1>4. \A j \in DOMAIN forms' : j \in DOMAIN forms /\ forms'[j] = forms[j]
  BY <1>2
<1>5. GoodFetch(forms', fetch, keys)
  BY <1>4, BInvParts, GoodFetchStays
<1>6. GoodStore(store')
  BY BInvParts, GoodStoring DEF DiscardRetained, GoodForms
<1> QED
  BY <1>1, <1>3, <1>5, <1>6, BInvParts, PageStep DEF GoodAfter, GoodOffers

\* A command made over a version that knows its action is sent.
LEMMA GoodDispatch ==
  ASSUME Rows, NEW l \in Nat, NEW c, GoodCommand(c, l), NEW again \in BOOLEAN,
         Dispatch(c, again), NEW fs
  PROVE  /\ GoodFetch(fs, fetch', l)
         /\ fetch'.phase = "sent" /\ fetch'.cmd = c /\ fetch'.retry = again
         /\ fetch'.detached = FALSE
<1> DEFINE ft == [NoFetch EXCEPT !.phase = "sent", !.cmd = c, !.retry = again]
<1>1. NoFetch \in Fetches /\ c \in Commands
  BY Nothing DEF Rows, GoodCommand
<1>2. ft \in Fetches /\ ft.phase = "sent" /\ ft.cmd = c /\ ft.retry = again /\ ft.left = NoForm
      /\ ft.detached = FALSE
  BY <1>1, Nothing DEF Fetches, Phases, Rows
<1>3. fetch' = ft
  BY DEF Dispatch
<1> HIDE DEF ft
<1> QED
  BY <1>2, <1>3, GoodNoForm DEF GoodFetch

LEMMA GoodSendForm ==
  ASSUME BInv, NEW i \in DOMAIN forms, NEW f, GoodForm(f, keys), SendForm(i, f)
  PROVE  /\ keys' \in Keys /\ keys' \in Nat /\ keys <= keys'
         /\ GoodForms(forms', keys') /\ GoodFetch(forms', fetch', keys')
         /\ met' \in BOOLEAN
<1> DEFINE named == IF f.key = 0 THEN [f EXCEPT !.key = keys + 1] ELSE f
           g == [named EXCEPT !.inflight = TRUE]
<1>1. keys \in Nat /\ Rows
  BY BInvParts
<1>2. f \in Forms /\ f.key \in 0 .. keys /\ Known(f.editor, f.version) /\ f.text \in Texts
      /\ f.editor \in Editors /\ f.version \in Versions
  BY FormTyped DEF GoodForm
<1>3. named.key \in Keys /\ keys' = (IF f.key = 0 THEN keys + 1 ELSE keys)
      /\ Put(i, g) /\ Dispatch(Freeze(named), FALSE)
  BY DEF SendForm
<1>4. /\ named \in Forms /\ named.editor = f.editor /\ named.text = f.text
      /\ named.version = f.version /\ named.target = f.target /\ named.panel = f.panel
      /\ named.key \in 1 .. keys'
  <2>1. CASE f.key = 0
    <3>1. named = [f EXCEPT !.key = keys + 1] /\ keys + 1 \in Keys /\ keys' = keys + 1
      BY <1>2, <1>3, <2>1 DEF Forms
    <3> HIDE DEF named
    <3>2. named.key = keys + 1
      BY <3>1, <1>2 DEF Forms
    <3> QED
      BY <3>1, <3>2, <1>1, <1>2 DEF Forms
  <2>2. CASE f.key # 0
    BY <2>2, <1>1, <1>2, <1>3
  <2> QED
    BY <2>1, <2>2
<1>5. keys' \in Nat /\ keys <= keys' /\ keys' \in Keys
  <2>1. CASE f.key = 0
    <3>1. named.key = keys + 1 /\ keys' = keys + 1
      BY <1>2, <1>3, <2>1 DEF Forms
    <3> HIDE DEF named
    <3> QED
      BY <3>1, <1>1, <1>3
  <2>2. CASE f.key # 0
    BY <2>2, <1>1, <1>3, BInvParts
  <2> QED
    BY <2>1, <2>2
<1> HIDE DEF named
<1>6. /\ g \in Forms /\ g.editor = f.editor /\ g.version = f.version
      /\ g.target = f.target /\ g.panel = f.panel /\ g.key = named.key
  BY <1>4 DEF Forms
<1> HIDE DEF g
<1>7. GoodForm(g, keys')
  <2>1. f.target.key \in 0 .. keys'
    BY <1>1, <1>5 DEF GoodForm
  <2>2. g.key \in 0 .. keys'
    BY <1>4, <1>5, <1>6
  <2> QED
    BY <1>6, <2>1, <2>2 DEF GoodForm
<1>8. GoodForms(forms', keys')
  <2>1. GoodForms([forms EXCEPT ![i] = g], keys')
    BY <1>1, <1>5, <1>7, BInvParts, GoodPut
  <2> QED
    BY <2>1, <1>3 DEF Put
<1>9. GoodCommand(Freeze(named), keys')
  <2> DEFINE c == Freeze(named)
  <2>1. /\ c.editor = f.editor /\ c.base = f.version /\ c.key = named.key
        /\ c = [editor |-> f.editor, text |-> f.text, base |-> f.version, key |-> named.key]
    BY <1>4 DEF Freeze
  <2>2. c \in Commands
    BY <2>1, <1>2, <1>3 DEF Commands
  <2> HIDE DEF c
  <2>3. GoodCommand(c, keys')
    BY <2>1, <2>2, <1>2, <1>4 DEF GoodCommand
  <2> QED
    BY <2>3 DEF c
<1>10. GoodFetch(forms', fetch', keys')
  BY <1>1, <1>3, <1>5, <1>9, GoodDispatch
<1> QED
  BY <1>3, <1>5, <1>8, <1>10 DEF Put

LEMMA SubmitGood ==
  ASSUME BInv, NEW i \in DOMAIN forms, Submit(i)
  PROVE  BInv'
<1>1. GoodForm(forms[i], keys)
  BY BInvParts DEF GoodForms
<1>2. /\ keys' \in Keys /\ keys' \in Nat /\ keys <= keys'
      /\ GoodForms(forms', keys') /\ GoodFetch(forms', fetch', keys')
      /\ met' \in BOOLEAN
  BY <1>1, GoodSendForm DEF Submit
<1>3. /\ stored' = stored /\ unknown' = unknown /\ paused' = paused /\ orphan' = orphan
      /\ reread' = reread /\ copies' = copies /\ store' = store
      /\ faults' = faults /\ told' \in {told, told + 1} /\ revisions' = revisions
  BY DEF Submit, offers
<1>4. GoodOffers(stored, unknown, orphan, keys') /\ GoodCopies(copies, keys')
  <2>1. GoodOffers(stored, unknown, orphan, keys) /\ GoodCopies(copies, keys) /\ keys \in Nat
    BY BInvParts DEF BInv
  <2> QED
    BY <1>2, <2>1, MoreKeys
<1> QED
  BY <1>2, <1>3, <1>4, BInvParts, PageStep DEF GoodAfter

LEMMA SaveMineGood ==
  ASSUME BInv, NEW i \in DOMAIN forms, SaveMine(i)
  PROVE  BInv'
<1>1. CASE Edited(i, Mine(forms[i]))
  BY <1>1, EditedGood
<1>2. CASE /\ SendForm(i, Mine(forms[i]))
           /\ GoodForm(Mine(forms[i]), keys) /\ store' = Marked(Mine(forms[i]))
           /\ UNCHANGED <<revisions, offers, reread, copies, faults, told>>
  <2>1. /\ keys' \in Keys /\ keys' \in Nat /\ keys <= keys'
        /\ GoodForms(forms', keys') /\ GoodFetch(forms', fetch', keys')
        /\ met' \in BOOLEAN
    BY <1>2, GoodSendForm
  <2>2. GoodStore(store')
    BY <1>2, BInvParts, GoodStoring DEF Marked
  <2>3. /\ stored' = stored /\ unknown' = unknown /\ paused' = paused /\ orphan' = orphan
        /\ reread' = reread /\ copies' = copies
        /\ faults' = faults /\ told' = told /\ revisions' = revisions
    BY <1>2 DEF offers
  <2>4. GoodOffers(stored, unknown, orphan, keys') /\ GoodCopies(copies, keys')
    <3>1. GoodOffers(stored, unknown, orphan, keys) /\ GoodCopies(copies, keys) /\ keys \in Nat
      BY BInvParts DEF BInv
    <3> QED
      BY <2>1, <3>1, MoreKeys
  <2> QED
    BY <2>1, <2>2, <2>3, <2>4, BInvParts, PageStep DEF GoodAfter
<1> QED
  BY <1>1, <1>2, AuthorEdits

\* A retry sends a command kept for its form.
LEMMA RetryGood ==
  ASSUME BInv, NEW i \in DOMAIN forms, Retry(i)
  PROVE  BInv'
<1> DEFINE c == stored[forms[i].editor]
           f == [forms[i] EXCEPT !.inflight = TRUE]
<1>1. GoodForm(forms[i], keys) /\ forms[i].editor \in Editors /\ forms[i] \in Forms
  BY BInvParts, FormTyped DEF GoodForms, GoodForm
<1>2. c # NoCommand /\ Put(i, f) /\ Dispatch(c, TRUE)
      /\ UNCHANGED <<revisions, store, offers, reread, copies, keys, faults, told>>
  BY DEF Retry
<1>3. GoodCommand(c, keys)
  BY <1>1, <1>2, BInvParts DEF GoodStored
<1>4. GoodForm(f, keys)
  <2>1. /\ f \in Forms /\ f.editor = forms[i].editor /\ f.version = forms[i].version
        /\ f.key = forms[i].key /\ f.target = forms[i].target /\ f.panel = forms[i].panel
    BY <1>1 DEF Forms
  <2> HIDE DEF f
  <2> QED
    BY <1>1, <2>1 DEF GoodForm
<1> HIDE DEF c, f
<1>5. GoodForms(forms', keys) /\ met' \in BOOLEAN
  <2>1. keys \in Nat /\ keys <= keys /\ GoodForms(forms, keys)
    BY BInvParts
  <2>2. GoodForms([forms EXCEPT ![i] = f], keys)
    BY <1>4, <2>1, GoodPut
  <2> QED
    BY <1>2, <2>2 DEF Put
<1>6. GoodFetch(forms', fetch', keys)
  BY <1>2, <1>3, BInvParts, GoodDispatch
<1>7. /\ stored' = stored /\ unknown' = unknown /\ paused' = paused /\ orphan' = orphan
      /\ reread' = reread /\ copies' = copies /\ store' = store
      /\ faults' = faults /\ told' = told /\ revisions' = revisions /\ keys' = keys
  BY <1>2 DEF offers
<1> QED
  BY <1>5, <1>6, <1>7, BInvParts, PageStep DEF GoodAfter, GoodOffers

\* A step that leaves the forms and what is offered alone.
LEMMA GoodAnswer ==
  ASSUME BInv, UNCHANGED <<revisions, client, copies, keys, told>>,
         GoodFetch(forms, fetch', keys), faults' \in 0 .. MaxFaults, reread' \in Rereads
  PROVE  BInv'
<1>1. /\ stored' = stored /\ unknown' = unknown /\ paused' = paused /\ orphan' = orphan
      /\ copies' = copies /\ store' = store /\ forms' = forms /\ met' = met
      /\ told' = told /\ revisions' = revisions /\ keys' = keys
  BY DEF client, offers
<1> QED
  BY <1>1, BInvParts, PageStep DEF GoodAfter, GoodOffers

LEMMA RetryOrphanGood ==
  ASSUME BInv, RetryOrphan
  PROVE  BInv'
<1> DEFINE c == stored[orphan.cmd.editor]
<1>1. c # NoCommand /\ Dispatch(c, TRUE)
      /\ UNCHANGED <<revisions, client, reread, copies, keys, faults, told>>
  BY DEF RetryOrphan
<1>2. orphan.cmd.editor \in Editors
  BY BInvParts DEF Orphans, Commands
<1>3. GoodCommand(c, keys)
  BY <1>1, <1>2, BInvParts DEF GoodStored
<1> HIDE DEF c
<1>4. GoodFetch(forms, fetch', keys)
  BY <1>1, <1>3, BInvParts, GoodDispatch
<1> QED
  BY <1>1, <1>4, BInvParts, GoodAnswer

LEMMA ResendOrphanGood ==
  ASSUME BInv, ResendOrphan
  PROVE  BInv'
<1>1. orphan.cmd # NoCommand /\ Dispatch(orphan.cmd, FALSE)
      /\ UNCHANGED <<revisions, client, reread, copies, keys, faults, told>>
  BY DEF ResendOrphan
<1>2. GoodFetch(forms, fetch', keys)
  BY <1>1, BInvParts, GoodDispatch DEF MaybeGood
<1> QED
  BY <1>1, <1>2, BInvParts, GoodAnswer

LEMMA ReadsGood ==
  ASSUME BInv, RetryRefresh \/ RefreshRead
  PROVE  BInv'
<1>1. Version \in Versions /\ fetch \in Fetches
  BY BInvParts, Packaged DEF GoodFetch
<1>2. CASE RetryRefresh
  <2>1. reread' \in Rereads
    BY <1>1, <1>2 DEF RetryRefresh, Rereads
  <2> QED
    BY <1>2, <2>1, BInvParts, GoodAnswer DEF RetryRefresh
<1>3. CASE RefreshRead
  <2>1. fetch' \in Fetches /\ fetch'.phase = "refreshed" /\ fetch'.left = fetch.left
    BY <1>1, <1>3 DEF RefreshRead, Fetches, Phases
  <2>2. GoodFetch(forms, fetch', keys)
    BY <2>1, BInvParts DEF GoodFetch, Unanswered
  <2> QED
    BY <1>3, <2>2, BInvParts, GoodAnswer DEF RefreshRead
<1> QED
  BY <1>2, <1>3

LEMMA ServerRejectsGood ==
  ASSUME BInv, ServerRejects
  PROVE  BInv'
<1>1. fetch \in Fetches /\ GoodCommand(fetch.cmd, keys)
  BY BInvParts DEF GoodFetch, ServerRejects, Unanswered
<1>2. fetch' \in Fetches /\ fetch'.phase = "rejected" /\ fetch'.cmd = fetch.cmd
      /\ fetch'.left = fetch.left
  BY <1>1 DEF ServerRejects, Fetches, Phases
<1>3. GoodFetch(forms, fetch', keys)
  BY <1>1, <1>2, BInvParts DEF GoodFetch
<1>4. faults' \in 0 .. MaxFaults
  BY BInvParts, Sizes DEF ServerRejects
<1> QED
  BY <1>3, <1>4, BInvParts, GoodAnswer DEF ServerRejects

\* The page that comes with a refusal knows the actions of the senders.
LEMMA ServerReadsGood ==
  ASSUME BInv, ServerReads
  PROVE  BInv'
<1>1. fetch \in Fetches /\ GoodCommand(fetch.cmd, keys) /\ Changed(fetch)
  BY BInvParts DEF GoodFetch, ServerReads, Unanswered
<1>2. Version \in Versions /\ Version \in Nat
  BY BInvParts, Packaged
<1>3. /\ fetch' \in Fetches /\ fetch'.phase = "conflict" /\ fetch'.cmd = fetch.cmd
      /\ fetch'.page = Version /\ fetch'.left = fetch.left
  BY <1>1, <1>2 DEF ServerReads, Fetches, Phases
<1>4. ASSUME NEW i \in DOMAIN forms
      PROVE  Known(forms[i].editor, Version)
  <2>1. Known(forms[i].editor, forms[i].version)
    BY BInvParts DEF GoodForms, GoodForm
  <2>2. forms[i].version \in Versions /\ forms[i].version <= Version
    BY <2>1, <1>2 DEF Known, Versions
  <2>3. Rows
    BY BInvParts
  <2> QED
    BY <1>2, <2>1, <2>2, <2>3, Later
<1>5. GoodFetch(forms, fetch', keys)
  BY <1>1, <1>3, <1>4, BInvParts DEF GoodFetch, Changed
<1> QED
  BY <1>5, BInvParts, GoodAnswer DEF ServerReads

-----------------------------------------------------------------------------
(***************************************************************************)
(* Answers and fresh views.                                                *)
(***************************************************************************)
LEMMA ClearPendingGood ==
  ASSUME BInv, ClearPending
  PROVE  GoodStored(stored', keys) /\ MaybeGood(unknown', keys)
<1>1. NoCommand \in Commands
  BY BInvParts, Nothing
<1>2. GoodStored(stored', keys)
  BY <1>1, BInvParts DEF ClearPending, GoodStored
<1> QED
  BY <1>2, BInvParts DEF ClearPending, MaybeGood

LEMMA RetainPendingGood ==
  ASSUME BInv, RetainPending, GoodCommand(fetch.cmd, keys)
  PROVE  GoodStored(stored', keys) /\ MaybeGood(unknown', keys)
<1>1. fetch.cmd \in Commands /\ fetch.cmd.editor \in Editors
  BY DEF GoodCommand, Commands
<1>2. GoodStored(stored', keys)
  BY <1>1, BInvParts DEF RetainPending, GoodStored
<1> QED
  BY <1>2 DEF RetainPending, MaybeGood

LEMMA OrphanPendsGood ==
  ASSUME BInv, NEW still \in BOOLEAN, OrphanPends(still)
  PROVE  orphan' \in Orphans /\ MaybeGood(orphan'.cmd, keys)
<1>1. orphan \in Orphans /\ MaybeGood(orphan.cmd, keys)
  BY BInvParts
<1>2. /\ [orphan EXCEPT !.pending = still] \in Orphans
      /\ [orphan EXCEPT !.pending = still].cmd = orphan.cmd
  BY <1>1 DEF Orphans
<1> QED
  BY <1>1, <1>2 DEF OrphanPends

LEMMA LeaveBehindGood ==
  ASSUME BInv, LeaveBehind
  PROVE  GoodCopies(copies', keys)
<1>1. fetch.phase = "sent" => GoodCommand(fetch.cmd, keys)
  BY BInvParts DEF GoodFetch, Unanswered
<1> QED
  BY <1>1, BInvParts DEF LeaveBehind, GoodCopies

\* Nothing is in flight.
LEMMA GoodIdle ==
  ASSUME Rows, NEW fs, NEW k \in Nat
  PROVE  GoodFetch(fs, NoFetch, k)
BY Nothing, GoodNoForm DEF Rows, GoodFetch, Unanswered

LEMMA GoodAcknowledged ==
  ASSUME BInv, fetch.phase = "committed", NEW f, GoodForm(f, keys)
  PROVE  GoodForm(AcknowledgeEditor(f), keys) /\ AcknowledgeEditor(f).editor = fetch.action
<1> DEFINE g == AcknowledgeEditor(f)
<1>1. /\ fetch \in Fetches /\ fetch.cmd \in Commands /\ fetch.cmd.text \in Texts
      /\ fetch.action \in Editors /\ fetch.page \in Versions
  BY BInvParts DEF GoodFetch, Fetches, Commands
<1>2. Known(fetch.action, fetch.page)
  BY <1>1, BInvParts DEF GoodFetch, Named, Known
<1>3. NoTarget \in Targets /\ NoPanel \in Panels /\ 0 \in Keys
      /\ NoTarget.given = FALSE /\ NoTarget.key = 0 /\ NoPanel.open = FALSE
  BY BInvParts, Nothing
<1>4. /\ g \in Forms /\ g.editor = fetch.action /\ g.version = fetch.page /\ g.key = 0
      /\ g.target = NoTarget /\ g.panel = NoPanel
  BY <1>1, <1>3 DEF AcknowledgeEditor, GoodForm, Forms
<1> HIDE DEF g
<1>5. GoodForm(g, keys)
  BY <1>2, <1>3, <1>4, BInvParts DEF GoodForm
<1> QED
  BY <1>4, <1>5 DEF g

LEMMA AcknowledgedGood ==
  ASSUME BInv, Acknowledged
  PROVE  BInv'
<1>1. /\ fetch.phase = "committed" /\ ClearPending
      /\ fetch' = [NoFetch EXCEPT !.phase = "refreshing"]
      /\ paused' = FALSE /\ revisions' = revisions /\ reread' = reread /\ copies' = copies
      /\ keys' = keys /\ faults' = faults
  BY DEF Acknowledged
<1>2. told' \in Nat
  BY BInvParts DEF Acknowledged
<1>3. GoodStored(stored', keys) /\ MaybeGood(unknown', keys)
  BY <1>1, ClearPendingGood
<1>4. GoodForms(forms', keys) /\ GoodStore(store') /\ met' \in BOOLEAN
      /\ orphan' \in Orphans /\ MaybeGood(orphan'.cmd, keys)
  <2>1. ASSUME NEW i \in Senders, Put(i, AcknowledgeEditor(forms[i])),
               store' = StoreAcknowledged(AcknowledgeEditor(forms[i])), orphan' = orphan
        PROVE  GoodForms(forms', keys) /\ GoodStore(store') /\ met' \in BOOLEAN
    <3> DEFINE f == AcknowledgeEditor(forms[i])
    <3>1. i \in DOMAIN forms /\ GoodForm(forms[i], keys)
      BY BInvParts DEF Senders, GoodForms
    <3>2. GoodForm(f, keys)
      BY <1>1, <3>1, GoodAcknowledged
    <3> HIDE DEF f
    <3>3. keys \in Nat /\ keys <= keys /\ GoodForms(forms, keys) /\ Rows /\ GoodStore(store)
      BY BInvParts
    <3>4. GoodForms([forms EXCEPT ![i] = f], keys)
      BY <3>1, <3>2, <3>3, GoodPut
    <3>5. GoodStore([store EXCEPT ![fetch.cmd.editor] = NoCopy])
      BY <3>1, <3>3, GoodStoring
    <3>6. GoodStore([[store EXCEPT ![fetch.cmd.editor] = NoCopy] EXCEPT ![f.editor] = CopyOf(f)])
      BY <3>2, <3>3, <3>5, GoodStoring
    <3>7. store' = [[store EXCEPT ![fetch.cmd.editor] = NoCopy] EXCEPT ![f.editor] = CopyOf(f)]
      BY <2>1 DEF StoreAcknowledged, f
    <3>8. forms' = [forms EXCEPT ![i] = f] /\ met' \in BOOLEAN
      BY <2>1 DEF Put, f
    <3> QED
      BY <3>4, <3>6, <3>7, <3>8
  <2>5. ASSUME LET f == AcknowledgeEditor(fetch.left) IN
                 store' = Overtaken(StoreAcknowledged(f), {fetch.cmd.editor, f.editor}),
               UNCHANGED <<forms, orphan, met>>
        PROVE  GoodForms(forms', keys) /\ GoodStore(store') /\ met' \in BOOLEAN
    <3> DEFINE f == AcknowledgeEditor(fetch.left)
    <3>1. GoodForm(f, keys)
      BY <1>1, BInvParts, GoodAcknowledged DEF GoodFetch
    <3>2. store' = Overtaken(StoreAcknowledged(f), {fetch.cmd.editor, f.editor})
      BY <2>5
    <3> HIDE DEF f
    <3>3. keys \in Nat /\ GoodForms(forms, keys) /\ Rows /\ GoodStore(store)
      BY BInvParts
    <3>4. GoodStore([store EXCEPT ![fetch.cmd.editor] = NoCopy])
      BY <3>1, <3>3, GoodStoring
    <3>5. GoodStore([[store EXCEPT ![fetch.cmd.editor] = NoCopy] EXCEPT ![f.editor] = CopyOf(f)])
      BY <3>1, <3>3, <3>4, GoodStoring
    <3>6. StoreAcknowledged(f)
            = [[store EXCEPT ![fetch.cmd.editor] = NoCopy] EXCEPT ![f.editor] = CopyOf(f)]
      BY DEF StoreAcknowledged
    <3>7. GoodStore(StoreAcknowledged(f))
      BY <3>5, <3>6
    <3>8. GoodStore(store')
      BY <3>2, <3>7, GoodOvertaken
    <3> QED
      BY <2>5, <3>3, <3>8, BInvParts
  <2>2. ASSUME orphan' = NoOrphan, UNCHANGED <<forms, store, met>>
        PROVE  GoodForms(forms', keys) /\ GoodStore(store') /\ met' \in BOOLEAN
    BY <2>2, BInvParts
  <2>3. NoOrphan \in Orphans /\ NoOrphan.cmd = NoCommand
    BY BInvParts, Nothing
  <2>4. orphan \in Orphans /\ MaybeGood(orphan.cmd, keys)
    BY BInvParts
  <2> QED
    BY <2>1, <2>2, <2>3, <2>4, <2>5 DEF Acknowledged, MaybeGood
<1>5. GoodFetch(forms', fetch', keys)
  <2>1. fetch' \in Fetches /\ fetch'.phase = "refreshing" /\ fetch'.left = NoForm
    BY <1>1, BInvParts, Nothing DEF Fetches, Phases
  <2> QED
    BY <2>1, BInvParts, GoodNoForm DEF GoodFetch, Unanswered
<1> QED
  BY <1>1, <1>2, <1>3, <1>4, <1>5, BInvParts, PageStep DEF GoodAfter, GoodOffers

\* Marking or releasing the senders.
LEMMA GoodMarks ==
  ASSUME BInv, NEW gs, gs = [i \in DOMAIN forms |-> gs[i]],
         \A i \in DOMAIN forms :
           /\ gs[i] \in Forms /\ gs[i].editor = forms[i].editor
           /\ gs[i].version = forms[i].version /\ gs[i].target = forms[i].target
           /\ gs[i].panel = forms[i].panel /\ gs[i].key \in {0, forms[i].key}
  PROVE  GoodForms(gs, keys)
<1>1. ASSUME NEW i \in DOMAIN forms
      PROVE  GoodForm(gs[i], keys)
  <2>1. GoodForm(forms[i], keys)
    BY BInvParts DEF GoodForms
  <2>2. gs[i].key \in 0 .. keys
    BY <2>1, BInvParts DEF GoodForm
  <2> QED
    BY <2>1, <2>2 DEF GoodForm
<1>2. DOMAIN gs = DOMAIN forms /\ DOMAIN forms \subseteq Places
  BY BInvParts DEF GoodForms
<1> QED
  BY <1>1, <1>2 DEF GoodForms

LEMMA FormsTyped ==
  ASSUME BInv, NEW i \in DOMAIN forms
  PROVE  forms[i] \in Forms /\ GoodForm(forms[i], keys)
BY BInvParts DEF GoodForms, GoodForm

LEMMA FaultCounted ==
  ASSUME BInv, faults < MaxFaults, faults' = faults + 1
  PROVE  faults' \in 0 .. MaxFaults
BY BInvParts, Sizes

LEMMA SenderMarkedGood ==
  ASSUME BInv, SenderMarked
  PROVE  GoodStore(store')
<1>1. Rows /\ keys \in Nat /\ GoodStore(store) /\ GoodForm(fetch.left, keys)
  BY BInvParts DEF GoodFetch
<1>2. ASSUME NEW i \in Senders, store' = Marked(forms[i])
      PROVE  GoodStore(store')
  BY <1>1, <1>2, FormsTyped, GoodStoring DEF Senders, Marked
<1>3. ASSUME store' = Overtaken(Marked(fetch.left), {fetch.left.editor})
      PROVE  GoodStore(store')
  <2>1. GoodStore(Marked(fetch.left))
    BY <1>1, GoodStoring DEF Marked
  <2> QED
    BY <1>3, <2>1, GoodOvertaken
<1> QED
  BY <1>1, <1>2, <1>3 DEF SenderMarked

LEMMA RefusedGood ==
  ASSUME BInv, Refused
  PROVE  BInv'
<1> DEFINE still == fetch.phase = "rejected" /\ fetch.retry
<1>1. fetch' = NoFetch /\ OrphanPends(still) /\ paused' = still
      /\ (IF still THEN UNCHANGED <<stored, unknown>> ELSE ClearPending)
      /\ UNCHANGED <<revisions, reread, copies, keys, faults, told, met>>
      /\ (store' = store \/ SenderMarked)
      /\ forms' = [i \in DOMAIN forms |->
            IF forms[i].inflight
              THEN [Answered(forms[i]) EXCEPT !.pending = still,
                      !.key = IF fetch.phase = "key_conflict" THEN 0 ELSE @]
              ELSE forms[i]]
  BY DEF Refused
<1>2. still \in BOOLEAN
  BY BInvParts DEF GoodFetch, Fetches
<1> HIDE DEF still
<1>3. 0 \in Keys
  BY BInvParts, Nothing
<1>4. GoodForms(forms', keys)
  <2>1. ASSUME NEW i \in DOMAIN forms
        PROVE  /\ forms'[i] \in Forms /\ forms'[i].editor = forms[i].editor
               /\ forms'[i].version = forms[i].version /\ forms'[i].target = forms[i].target
               /\ forms'[i].panel = forms[i].panel /\ forms'[i].key \in {0, forms[i].key}
    <3>1. forms[i] \in Forms
      BY FormsTyped
    <3>2. CASE ~forms[i].inflight
      BY <1>1, <3>1, <3>2
    <3>3. CASE forms[i].inflight
      <4>1. forms'[i] = [Answered(forms[i]) EXCEPT !.pending = still,
                           !.key = IF fetch.phase = "key_conflict" THEN 0 ELSE @]
        BY <1>1, <3>3
      <4> QED
        BY <4>1, <3>1, <1>2, <1>3 DEF Answered, Forms
    <3> QED
      BY <3>2, <3>3
  <2>2. DOMAIN forms' = DOMAIN forms /\ forms' = [i \in DOMAIN forms |-> forms'[i]]
    BY <1>1
  <2> QED
    BY <2>1, <2>2, GoodMarks
<1>5. GoodStored(stored', keys) /\ MaybeGood(unknown', keys)
  BY <1>1, ClearPendingGood, BInvParts
<1>6. orphan' \in Orphans /\ MaybeGood(orphan'.cmd, keys)
  BY <1>1, <1>2, OrphanPendsGood
<1>7. GoodFetch(forms', fetch', keys)
  BY <1>1, BInvParts, GoodIdle
<1>8. GoodStore(store')
  BY <1>1, BInvParts, SenderMarkedGood
<1> QED
  BY <1>1, <1>2, <1>4, <1>5, <1>6, <1>7, <1>8, BInvParts, PageStep DEF GoodAfter, GoodOffers

LEMMA FetchFailsGood ==
  ASSUME BInv, FetchFails
  PROVE  BInv'
<1>1. fetch' = NoFetch /\ OrphanPends(TRUE) /\ paused' = TRUE /\ RetainPending /\ LeaveBehind
      /\ UNCHANGED <<revisions, store, reread, keys, told, met>>
      /\ forms' = [i \in DOMAIN forms |->
       IF forms[i].inflight THEN [forms[i] EXCEPT !.inflight = FALSE, !.pending = TRUE]
       ELSE forms[i]]
  BY DEF FetchFails
<1>2. GoodCommand(fetch.cmd, keys)
  BY BInvParts DEF FetchFails, GoodFetch
<1>3. faults' \in 0 .. MaxFaults
  BY FaultCounted DEF FetchFails
<1>4. GoodForms(forms', keys)
  <2>1. ASSUME NEW i \in DOMAIN forms
        PROVE  /\ forms'[i] \in Forms /\ forms'[i].editor = forms[i].editor
               /\ forms'[i].version = forms[i].version /\ forms'[i].target = forms[i].target
               /\ forms'[i].panel = forms[i].panel /\ forms'[i].key \in {0, forms[i].key}
    <3>1. forms[i] \in Forms
      BY FormsTyped
    <3> QED
      BY <1>1, <3>1 DEF Forms
  <2>2. DOMAIN forms' = DOMAIN forms /\ forms' = [i \in DOMAIN forms |-> forms'[i]]
    BY <1>1
  <2> QED
    BY <2>1, <2>2, GoodMarks
<1>5. GoodStored(stored', keys) /\ MaybeGood(unknown', keys)
  BY <1>1, <1>2, RetainPendingGood
<1>6. orphan' \in Orphans /\ MaybeGood(orphan'.cmd, keys)
  BY <1>1, OrphanPendsGood
<1>7. GoodFetch(forms', fetch', keys)
  BY <1>1, BInvParts, GoodIdle
<1>8. GoodCopies(copies', keys)
  BY <1>1, LeaveBehindGood
<1> QED
  BY <1>1, <1>3, <1>4, <1>5, <1>6, <1>7, <1>8, BInvParts, PageStep DEF GoodAfter, GoodOffers

LEMMA RefreshFailsGood ==
  ASSUME BInv, RefreshFails
  PROVE  BInv'
<1>1. fetch' = NoFetch
      /\ UNCHANGED <<revisions, store, offers, copies, keys, told, met>>
      /\ forms' = [i \in DOMAIN forms |->
           [forms[i] EXCEPT !.inflight = FALSE,
                            !.unrefreshed = IF reread.phase = "read" THEN @ ELSE forms[i].inflight]]
  BY DEF RefreshFails
<1>2. faults' \in 0 .. MaxFaults
  BY FaultCounted DEF RefreshFails
<1>3. reread' \in Rereads
  BY BInvParts DEF RefreshFails, Rereads
<1>4. GoodForms(forms', keys)
  <2>1. ASSUME NEW i \in DOMAIN forms
        PROVE  /\ forms'[i] \in Forms /\ forms'[i].editor = forms[i].editor
               /\ forms'[i].version = forms[i].version /\ forms'[i].target = forms[i].target
               /\ forms'[i].panel = forms[i].panel /\ forms'[i].key \in {0, forms[i].key}
    <3>1. forms[i] \in Forms
      BY FormsTyped
    <3> QED
      BY <1>1, <3>1 DEF Forms
  <2>2. DOMAIN forms' = DOMAIN forms /\ forms' = [i \in DOMAIN forms |-> forms'[i]]
    BY <1>1
  <2> QED
    BY <2>1, <2>2, GoodMarks
<1>5. GoodFetch(forms', fetch', keys)
  BY <1>1, BInvParts, GoodIdle
<1> QED
  BY <1>1, <1>2, <1>3, <1>4, <1>5, BInvParts, PageStep DEF GoodAfter, GoodOffers, offers

\* A fresh view, with the answer or the refresh it belongs to.
LEMMA GoodView ==
  ASSUME BInv, NEW fs, GoodForms(fs, keys), NEW v \in Versions, NEW panel \in Orphans,
         MaybeGood(panel.cmd, keys), NEW pause \in BOOLEAN, NEW who,
         Adopt(fs, v, panel, pause, who), GoodStored(stored', keys), MaybeGood(unknown', keys), GoodFetch(fs, fetch', keys),
         GoodCopies(copies', keys), reread' \in Rereads, faults' \in 0 .. MaxFaults,
         told' \in Nat, met' = met, keys' = keys, revisions' = revisions
  PROVE  BInv'
<1>1. Rows /\ keys \in Nat /\ GoodStore(store) /\ keys <= keys
  BY BInvParts
<1>2. /\ GoodForms(forms', keys) /\ GoodStore(store')
      /\ orphan' \in Orphans /\ MaybeGood(orphan'.cmd, keys) /\ paused' \in BOOLEAN
      /\ \A i \in DOMAIN forms' :
           forms'[i].inflight =>
             \E j \in DOMAIN fs : fs[j].inflight /\ fs[j].editor = forms'[i].editor
  BY <1>1, GoodAdopt
<1>3. GoodFetch(forms', fetch', keys)
  BY <1>1, <1>2, GoodFetchStays
<1> QED
  BY <1>2, <1>3, BInvParts, PageStep DEF GoodAfter, GoodOffers

LEMMA GoodCompared ==
  ASSUME BInv, fetch.phase = "conflict", NEW i \in Senders
  PROVE  /\ GoodForm(Compared(forms[i]), keys)
         /\ Compared(forms[i]).editor = forms[i].editor
<1> DEFINE f == forms[i]
           listed == f.editor \in Live(fetch.page)
           panel == [open |-> TRUE, mine |-> fetch.cmd.text, current |-> fetch.text,
                     version |-> fetch.page, listed |-> listed]
           target == IF listed THEN [given |-> TRUE, text |-> fetch.text,
                                     version |-> fetch.page, key |-> 0]
                     ELSE f.target
           a == Answered(f)
           g == [a EXCEPT !.panel = panel, !.target = target]
<1>1. f \in Forms /\ GoodForm(f, keys) /\ f.inflight /\ i \in DOMAIN forms
  BY FormsTyped DEF Senders
<1>2. /\ fetch.cmd.text \in Texts /\ fetch.text \in Texts /\ fetch.page \in Versions
      /\ Known(f.editor, fetch.page)
  BY <1>1, BInvParts DEF GoodFetch, Fetches, Commands
<1>3. keys \in Nat /\ 0 \in Keys
  BY BInvParts, Nothing
<1>4. listed \in BOOLEAN
  OBVIOUS
<1> HIDE DEF listed
<1>5. panel \in Panels /\ panel.version = fetch.page
  BY <1>2, <1>4 DEF Panels
<1>6. /\ target \in Targets /\ target.key \in 0 .. keys
      /\ (target.given => Known(f.editor, target.version))
  <2>1. CASE listed
    BY <2>1, <1>2, <1>3 DEF Targets
  <2>2. CASE ~listed
    BY <2>2, <1>1, FormTyped DEF GoodForm
  <2> QED
    BY <2>1, <2>2
<1>7. /\ a \in Forms /\ a.editor = f.editor /\ a.version = f.version /\ a.key = f.key
      /\ a.target = f.target
  BY <1>1 DEF Answered, Forms
<1>8. Compared(f) = g
  BY <1>7 DEF Compared, listed
<1> HIDE DEF panel, target, a
<1>9. /\ g \in Forms /\ g.editor = f.editor /\ g.version = f.version /\ g.key = f.key
      /\ g.target = target /\ g.panel = panel
  BY <1>5, <1>6, <1>7 DEF Forms
<1> HIDE DEF g
<1>10. GoodForm(g, keys)
  BY <1>1, <1>2, <1>5, <1>6, <1>9 DEF GoodForm
<1> QED
  BY <1>8, <1>9, <1>10

LEMMA ConflictShownGood ==
  ASSUME BInv, ConflictShown
  PROVE  BInv'
<1>1. fetch.phase = "conflict" /\ ClearPending /\ fetch' = NoFetch
      /\ UNCHANGED <<revisions, reread, copies, keys, faults, told>>
  BY DEF ConflictShown
<1>2. GoodStored(stored', keys) /\ MaybeGood(unknown', keys)
  BY <1>1, ClearPendingGood
<1>3. fetch.page \in Versions
  BY BInvParts DEF GoodFetch, Fetches
<1>4. CASE /\ Adopt(WithoutPending, fetch.page,
                    IF SentByPanel THEN [orphan EXCEPT !.pending = FALSE] ELSE orphan, FALSE,
                    "nobody")
           /\ UNCHANGED met
  <2> DEFINE panel == IF SentByPanel THEN [orphan EXCEPT !.pending = FALSE] ELSE orphan
  <2>1. panel \in Orphans /\ panel.cmd = orphan.cmd
    BY BInvParts DEF Orphans
  <2>2. GoodForms(WithoutPending, keys)
    <3>1. ASSUME NEW i \in DOMAIN forms
          PROVE  LET g == WithoutPending[i] IN
                 /\ g \in Forms /\ g.editor = forms[i].editor
                 /\ g.version = forms[i].version /\ g.target = forms[i].target
                 /\ g.panel = forms[i].panel /\ g.key \in {0, forms[i].key}
      <4>1. forms[i] \in Forms
        BY FormsTyped
      <4> QED
        BY <4>1 DEF Forms, WithoutPending
    <3>2. WithoutPending = [i \in DOMAIN forms |-> WithoutPending[i]]
      BY DEF WithoutPending
    <3> QED
      BY <3>1, <3>2, GoodMarks
  <2>3. GoodFetch(WithoutPending, fetch', keys)
    BY <1>1, BInvParts, GoodIdle
  <2>4. Adopt(WithoutPending, fetch.page, panel, FALSE, "nobody") /\ MaybeGood(panel.cmd, keys)
    BY <1>4, <2>1, BInvParts
  <2> HIDE DEF panel
  <2>5. /\ GoodCopies(copies', keys) /\ reread' \in Rereads /\ faults' \in 0 .. MaxFaults
        /\ told' \in Nat /\ met' = met /\ keys' = keys /\ revisions' = revisions
    BY <1>1, <1>4, BInvParts
  <2> QED
    BY <1>2, <1>3, <2>1, <2>2, <2>3, <2>4, <2>5, GoodView
<1>5. CASE /\ \E i \in Senders : Put(i, Compared(forms[i]))
           /\ OrphanPends(FALSE) /\ paused' = FALSE
           /\ UNCHANGED store
  <2>1. PICK i \in Senders : Put(i, Compared(forms[i]))
    BY <1>5
  <2>2. GoodForm(Compared(forms[i]), keys) /\ i \in DOMAIN forms
    BY <1>1, GoodCompared DEF Senders
  <2>3. keys \in Nat /\ keys <= keys /\ GoodForms(forms, keys)
    BY BInvParts
  <2>4. GoodForms([forms EXCEPT ![i] = Compared(forms[i])], keys)
    BY <2>2, <2>3, GoodPut
  <2>5. GoodForms(forms', keys) /\ met' \in BOOLEAN
    BY <2>1, <2>4 DEF Put
  <2>6. GoodFetch(forms', fetch', keys)
    BY <1>1, BInvParts, GoodIdle
  <2>7. orphan' \in Orphans /\ MaybeGood(orphan'.cmd, keys)
    BY <1>5, OrphanPendsGood
  <2> QED
    BY <1>1, <1>2, <1>5, <2>5, <2>6, <2>7, BInvParts, PageStep DEF GoodAfter, GoodOffers
<1>6. CASE /\ UNCHANGED <<forms, met>>
           /\ OrphanPends(FALSE) /\ paused' = FALSE
           /\ UNCHANGED store
  <2>1. GoodForms(forms', keys) /\ met' \in BOOLEAN
    BY <1>6, BInvParts
  <2>2. GoodFetch(forms', fetch', keys)
    BY <1>1, BInvParts, GoodIdle
  <2>3. orphan' \in Orphans /\ MaybeGood(orphan'.cmd, keys)
    BY <1>6, OrphanPendsGood
  <2> QED
    BY <1>1, <1>2, <1>6, <2>1, <2>2, <2>3, BInvParts, PageStep DEF GoodAfter, GoodOffers
<1> QED
  BY <1>4, <1>5, <1>6 DEF ConflictShown

\* The save goes on under the form it was sent from.
LEMMA TakenAwayGood ==
  ASSUME BInv, Rereaded
  PROVE  GoodFetch(forms, fetch', keys)
<1>1. GoodFetch(forms, fetch, keys) /\ fetch \in Fetches
  BY BInvParts DEF GoodFetch
<1>2. ASSUME NEW i \in TakenAway(reread.page),
             fetch' = [fetch EXCEPT !.detached = TRUE, !.left = forms[i]]
      PROVE  GoodFetch(forms, fetch', keys)
  <2>1. forms[i] \in Forms /\ GoodForm(forms[i], keys)
    BY FormsTyped DEF TakenAway, Senders
  <2>2. /\ fetch' \in Fetches /\ fetch'.left = forms[i] /\ fetch'.phase = fetch.phase
        /\ fetch'.cmd = fetch.cmd /\ fetch'.page = fetch.page /\ fetch'.action = fetch.action
    BY <1>1, <1>2, <2>1 DEF Fetches
  <2> QED
    BY <1>1, <2>1, <2>2 DEF GoodFetch, Named, Changed
<1> QED
  BY <1>1, <1>2 DEF Rereaded

LEMMA ViewsGood ==
  ASSUME BInv, Refreshed \/ Rereaded
  PROVE  BInv'
<1>1. fetch.page \in Versions /\ reread.page \in Versions
  BY BInvParts DEF GoodFetch, Fetches, Rereads
<1>2. /\ GoodStored(stored, keys) /\ MaybeGood(unknown, keys) /\ orphan \in Orphans
      /\ MaybeGood(orphan.cmd, keys) /\ paused \in BOOLEAN /\ GoodForms(forms, keys)
      /\ GoodCopies(copies, keys) /\ GoodFetch(forms, fetch, keys)
      /\ reread \in Rereads /\ faults \in 0 .. MaxFaults /\ told \in Nat
      /\ NoReread \in Rereads
  BY BInvParts, Nothing
<1>3. CASE Refreshed
  <2>1. /\ Adopt(forms, fetch.page, orphan, paused, "sender")
        /\ stored' = stored /\ unknown' = unknown
        /\ copies' = copies /\ reread' \in Rereads /\ faults' = faults /\ told' = told
        /\ met' = met /\ keys' = keys /\ revisions' = revisions /\ fetch' = NoFetch
    BY <1>2, <1>3 DEF Refreshed
  <2>2. GoodFetch(forms, fetch', keys)
    BY <2>1, BInvParts, GoodIdle
  <2> QED
    BY <1>1, <1>2, <2>1, <2>2, GoodView
<1>4. CASE Rereaded
  <2>1. /\ Adopt(forms, reread.page, orphan, paused, "offerer")
        /\ stored' = stored /\ unknown' = unknown
        /\ copies' = copies /\ reread' \in Rereads /\ faults' = faults /\ told' = told
        /\ met' = met /\ keys' = keys /\ revisions' = revisions
    BY <1>2, <1>4 DEF Rereaded
  <2>2. GoodFetch(forms, fetch', keys)
    BY <1>4, TakenAwayGood
  <2> QED
    BY <1>1, <1>2, <2>1, <2>2, GoodView
<1> QED
  BY <1>3, <1>4

LEMMA ReloadGood ==
  ASSUME BInv, Reload
  PROVE  BInv'
<1>1. /\ Adopt(NoForms, Version, NoOrphan, FALSE, "nobody")
      /\ stored' = stored /\ unknown' = unknown
      /\ met' = met /\ keys' = keys /\ revisions' = revisions /\ fetch' = NoFetch
      /\ LeaveBehind /\ reread' = NoReread
  BY DEF Reload
<1>2. told' \in Nat
  BY BInvParts DEF Reload
<1>3. faults' \in 0 .. MaxFaults
  BY FaultCounted DEF Reload
<1>4. Version \in Versions /\ NoOrphan \in Orphans /\ NoReread \in Rereads
      /\ MaybeGood(NoOrphan.cmd, keys)
  BY BInvParts, Packaged, Nothing DEF MaybeGood
<1>5. GoodForms(NoForms, keys)
  <2>1. DOMAIN NoForms = {} /\ NoForms = [i \in {} |-> NoForms[i]]
    BY DEF NoForms
  <2> QED
    BY <2>1 DEF GoodForms
<1>6. GoodFetch(NoForms, fetch', keys)
  BY <1>1, BInvParts, GoodIdle
<1>7. GoodCopies(copies', keys)
  BY <1>1, LeaveBehindGood
<1>8. GoodStored(stored', keys) /\ MaybeGood(unknown', keys)
  BY <1>1, BInvParts
<1> QED
  BY <1>1, <1>2, <1>3, <1>4, <1>5, <1>6, <1>7, <1>8, GoodView

-----------------------------------------------------------------------------
(***************************************************************************)
(* Steps that save: the rows there were stay as they are.                  *)
(***************************************************************************)
Grown ==
  /\ Version' \in Nat /\ Version <= Version'
  /\ \A v \in 1 .. Version : revisions'[v] = revisions[v]

LEMMA GrownPackages ==
  ASSUME revisions \in Seq(Row), Grown
  PROVE  /\ Versions \subseteq Versions'
         /\ \A v \in Versions : PackageAt(v)' = PackageAt(v)
         /\ \A e, v : Known(e, v) => Known(e, v)'
         /\ Commands \subseteq Commands'
<1>1. Version \in Nat
  BY Packaged
<1>2. Versions \subseteq Versions'
  BY <1>1 DEF Grown, Versions
<1>3. ASSUME NEW v \in Versions
      PROVE  PackageAt(v)' = PackageAt(v)
  <2>1. v = 0 \/ v \in 1 .. Version
    BY <1>1 DEF Versions
  <2> QED
    BY <2>1, <1>3 DEF Grown, PackageAt
<1>4. \A e, v : Known(e, v) => Known(e, v)'
  BY <1>2, <1>3 DEF Known
<1>5. Commands \subseteq Commands'
  BY <1>2 DEF Commands
<1> QED
  BY <1>2, <1>3, <1>4, <1>5

LEMMA CarriedStays ==
  ASSUME NEW m \in Nat, NEW v \in Nat, NEW w \in Nat, w <= m, Carried(v, w),
         \A u \in 1 .. m : revisions'[u] = revisions[u],
         PackageAt(v)' = PackageAt(v), PackageAt(w)' = PackageAt(w)
  PROVE  Carried(v, w)'
<1>1. \A u \in v + 1 .. w : revisions'[u] = revisions[u]
  OBVIOUS
<1> QED
  BY <1>1 DEF Carried

LEMMA CarriedNext ==
  ASSUME Version \in Nat, NEW n, n = Version + 1, NEW v \in Nat, v <= Version, Carried(v, Version),
         NEW pkg, NEW a0, revisions'[n].cmd.editor = a0,
         \A u \in 1 .. Version : revisions'[u] = revisions[u],
         PackageAt(v)' = PackageAt(v), PackageAt(n)' = pkg,
         Len(PackageAt(v)) \in Nat, DOMAIN PackageAt(v) = 1 .. Len(PackageAt(v)),
         Len(PackageAt(Version)) \in Nat, DOMAIN PackageAt(Version) = 1 .. Len(PackageAt(Version)),
         Len(pkg) \in Nat, Len(PackageAt(Version)) <= Len(pkg),
         \A a \in DOMAIN PackageAt(Version) :
           /\ PackageAt(Version)[a].removed => pkg[a].removed
           /\ PackageAt(Version)[a] = pkg[a] \/ a0 = a
  PROVE  Carried(v, n)'
<1>1. Len(PackageAt(v)) <= Len(PackageAt(Version)) /\ Len(PackageAt(v)) <= Len(pkg)
  BY DEF Carried
<1>2. ASSUME NEW a \in DOMAIN PackageAt(v)
      PROVE  /\ PackageAt(v)[a].removed => pkg[a].removed
             /\ PackageAt(v)[a] = pkg[a] \/ \E u \in v + 1 .. n : revisions'[u].cmd.editor = a
  <2>1. a \in DOMAIN PackageAt(Version)
    BY <1>1
  <2>2. PackageAt(v)[a].removed => pkg[a].removed
    BY <2>1 DEF Carried
  <2>3. CASE \E u \in v + 1 .. Version : revisions[u].cmd.editor = a
    <3>1. PICK u \in v + 1 .. Version : revisions[u].cmd.editor = a
      BY <2>3
    <3>2. u \in 1 .. Version /\ u \in v + 1 .. n
      OBVIOUS
    <3> QED
      BY <2>2, <3>1, <3>2
  <2>4. CASE PackageAt(v)[a] = PackageAt(Version)[a] /\ a0 = a
    <3>1. n \in v + 1 .. n
      OBVIOUS
    <3> QED
      BY <2>2, <2>4, <3>1
  <2>5. CASE PackageAt(v)[a] = PackageAt(Version)[a] /\ PackageAt(Version)[a] = pkg[a]
    BY <2>2, <2>5
  <2> QED
    BY <2>1, <2>3, <2>4, <2>5 DEF Carried
<1> QED
  BY <1>1, <1>2 DEF Carried

\* A saved command and the package it leaves.
LEMMA NextRow ==
  ASSUME Rows, NEW c \in Commands, NEW pkg \in Seq(Saved),
         revisions' = Append(revisions, [cmd |-> c, package |-> pkg]),
         c.key = 0 => Cardinality(Elsewheres) < Len(Opened) + MaxOthers,
         c.key # 0 => \A v \in 1 .. Version : revisions[v].cmd.key # c.key,
         Len(PackageAt(Version)) <= Len(pkg), Len(pkg) <= Len(PackageAt(Version)) + 1,
         \A a \in DOMAIN PackageAt(Version) :
           /\ PackageAt(Version)[a].removed => pkg[a].removed
           /\ PackageAt(Version)[a] = pkg[a] \/ c.editor = a,
         c.key # 0 =>
           IF c.editor = 0
             THEN /\ Len(pkg) = Len(PackageAt(Version)) + 1
                  /\ pkg[Len(pkg)] = [text |-> c.text, removed |-> FALSE]
             ELSE c.editor \in DOMAIN pkg /\ pkg[c.editor] = [text |-> c.text, removed |-> FALSE]
  PROVE  Rows' /\ Grown /\ Version' = Version + 1
<1> DEFINE row == [cmd |-> c, package |-> pkg]
<1>1. /\ revisions \in Seq(Row) /\ Counted /\ Version \in Nat
      /\ \A v \in 1 .. Version : revisions[v] \in Row
      /\ \A v, w \in Versions : v <= w => Carried(v, w)
      /\ \A v \in 1 .. Version : revisions[v].cmd.key # 0 => Kept(v)
  BY Packaged DEF Rows
<1>2. PICK n \in Nat : n = Version + 1
  BY <1>1
<1>3. /\ Len(revisions') = n
      /\ \A v \in 1 .. Version : revisions'[v] = revisions[v]
      /\ revisions'[n] = row /\ revisions'[n].cmd = c
  <2> HIDE DEF row
  <2>1. revisions \in Seq(Row \cup {row})
    BY <1>1
  <2> QED
    BY <2>1, <1>2 DEF Version, row
<1>4. Version' = n /\ Grown
  BY <1>1, <1>2, <1>3 DEF Version, Grown
<1>5. /\ Versions \subseteq Versions' /\ Commands \subseteq Commands'
      /\ \A v \in Versions : PackageAt(v)' = PackageAt(v)
  BY <1>1, <1>4, GrownPackages
<1>6. PackageAt(n)' = pkg /\ n # 0
  BY <1>1, <1>2, <1>3 DEF PackageAt
<1>7. /\ Versions' = Versions \cup {n} /\ n \notin Versions
      /\ \A v \in Versions : v \in Nat /\ v <= Version /\ v < n
  BY <1>1, <1>2, <1>4 DEF Versions
<1>8. 1 .. Version' = (1 .. Version) \cup {n}
  BY <1>1, <1>2, <1>4
<1>9. /\ \A v \in Versions : /\ PackageAt(v) \in Seq(Saved) /\ Len(PackageAt(v)) \in Nat
                             /\ DOMAIN PackageAt(v) = 1 .. Len(PackageAt(v))
      /\ Len(pkg) \in Nat /\ DOMAIN pkg = 1 .. Len(pkg) /\ Version \in Versions
      /\ Len(PackageAt(Version)) \in Nat
      /\ DOMAIN PackageAt(Version) = 1 .. Len(PackageAt(Version))
  BY <1>1, Packaged
<1>15. /\ \A v \in 1 .. Version : revisions'[v] = revisions[v]
       /\ Version \in Nat
  BY <1>1, <1>3
<1>16. /\ Len(PackageAt(Version)) \in Nat /\ Len(pkg) \in Nat
       /\ DOMAIN PackageAt(Version) = 1 .. Len(PackageAt(Version))
       /\ Len(PackageAt(Version)) <= Len(pkg)
  BY <1>9
<1>14. /\ \A v \in Versions : Len(PackageAt(v))' = Len(PackageAt(v))
       /\ Len(PackageAt(n))' = Len(pkg)
  BY <1>5, <1>6
<1>10. revisions' \in Seq(Row')
  <2>1. row \in Row'
    BY <1>5 DEF Row, Saved
  <2>2. Row \subseteq Row'
    BY <1>5 DEF Row, Saved
  <2>3. revisions \in Seq(Row')
    BY <1>1, <2>2
  <2> HIDE DEF row
  <2> QED
    BY <2>1, <2>3 DEF row
<1>11. Counted'
  <2>1. ASSUME NEW v \in 1 .. Version', NEW w \in 1 .. Version',
               revisions'[v].cmd.key = revisions'[w].cmd.key, revisions'[v].cmd.key # 0
        PROVE  v = w
    <3>1. revisions'[n].cmd = c
      BY <1>3
    <3>2. CASE v \in 1 .. Version /\ w \in 1 .. Version
      <4>1. Counted
        BY <1>1
      <4> QED
        BY <2>1, <3>2, <4>1, <1>15, ZenonT(60) DEF Counted
    <3>3. CASE v = n /\ w \in 1 .. Version
      <4>1. revisions[w].cmd.key = c.key /\ c.key # 0
        BY <1>15, <2>1, <3>1, <3>3
      <4> QED
        BY <3>3, <4>1
    <3>4. CASE w = n /\ v \in 1 .. Version
      <4>1. revisions[v].cmd.key = c.key /\ c.key # 0
        BY <1>15, <2>1, <3>1, <3>4
      <4> QED
        BY <3>4, <4>1
    <3> QED
      BY <3>2, <3>3, <3>4, <1>8
  <2>2. Cardinality(Elsewheres)' <= Len(Opened) + MaxOthers
    <3>1. CASE c.key = 0
      <4>1. Elsewheres' = Elsewheres \cup {n} /\ n \notin Elsewheres
        BY <1>2, <1>1, <1>3, <1>8, <3>1 DEF Elsewheres
      <4>2. IsFiniteSet(Elsewheres)
        <5>1. IsFiniteSet(1 .. Version)
          BY <1>1, FS_Interval
        <5> QED
          BY <5>1, FS_Subset DEF Elsewheres
      <4>3. Cardinality(Elsewheres \cup {n}) = Cardinality(Elsewheres) + 1
        BY <4>1, <4>2, FS_AddElement
      <4>4. Cardinality(Elsewheres) \in Nat
        BY <4>2, FS_CardinalityType
      <4> QED
        BY <4>1, <4>3, <4>4, <3>1, Sizes
    <3>2. CASE c.key # 0
      <4>1. Elsewheres' = Elsewheres
        BY <1>3, <1>8, <3>2, <1>4 DEF Elsewheres
      <4> QED
        BY <4>1, <1>1 DEF Counted
    <3> QED
      BY <3>1, <3>2
  <2>3. ASSUME NEW v \in Versions'
        PROVE  Len(PackageAt(v))' <= v
    <3>1. CASE v \in Versions
      BY <3>1, <1>1, <1>5 DEF Counted
    <3>2. CASE v = n
      <4>1. Len(PackageAt(Version)) <= Version
        BY <1>1, <1>9 DEF Counted
      <4> QED
        BY <4>1, <3>2, <1>1, <1>2, <1>14, <1>9
    <3> QED
      BY <3>1, <3>2, <1>7
  <2> QED
    BY <2>1, <2>2, <2>3 DEF Counted
<1>12. ASSUME NEW v \in Versions', NEW w \in Versions', v <= w
       PROVE  Carried(v, w)'
  <2>1. CASE w \in Versions
    <3>1. v \in Versions /\ v \in Nat /\ w \in Nat /\ w <= Version
      BY <1>2, <1>7, <1>12, <2>1
    <3>2. Carried(v, w)
      BY <3>1, <2>1, <1>1, <1>12
    <3>3. PackageAt(v)' = PackageAt(v) /\ PackageAt(w)' = PackageAt(w)
      BY <3>1, <2>1, <1>5
    <3> QED
      BY <3>1, <3>2, <3>3, <1>15, CarriedStays
  <2>2. CASE v \in Versions /\ w = n
    <3>1. Carried(v, Version) /\ v <= Version /\ v \in Nat
      BY <2>2, <1>1, <1>7, <1>9
    <3>2. PackageAt(v)' = PackageAt(v)
      BY <2>2, <1>5
    <3>3. Len(PackageAt(v)) \in Nat /\ DOMAIN PackageAt(v) = 1 .. Len(PackageAt(v))
      BY <2>2, <1>9
    <3>4. revisions'[n].cmd.editor = c.editor
      BY <1>3
    <3>5. PackageAt(n)' = pkg /\ Version \in Nat /\ n = Version + 1
      BY <1>2, <1>6, <1>15
    <3>6. \A a \in DOMAIN PackageAt(Version) :
            /\ PackageAt(Version)[a].removed => pkg[a].removed
            /\ PackageAt(Version)[a] = pkg[a] \/ c.editor = a
      OBVIOUS
    <3>7. \A u \in 1 .. Version : revisions'[u] = revisions[u]
      BY <1>15
    <3> DEFINE a0 == c.editor
    <3> HIDE DEF a0, row
    <3>8. revisions'[n].cmd.editor = a0 /\ \A a \in DOMAIN PackageAt(Version) :
            /\ PackageAt(Version)[a].removed => pkg[a].removed
            /\ PackageAt(Version)[a] = pkg[a] \/ a0 = a
      BY <3>4, <3>6 DEF a0
    <3>9. Carried(v, n)'
      BY ONLY <3>1, <3>2, <3>3, <3>5, <3>7, <3>8, <1>16, CarriedNext
    <3> QED
      BY <3>9, <2>2
  <2>3. CASE v = n /\ w = n
    <3>1. PackageAt(v)' = pkg /\ PackageAt(w)' = pkg
      BY <2>3, <1>6
    <3> QED
      BY <3>1, <1>16 DEF Carried
  <2>4. v # n \/ w = n
    BY <1>2, <1>7, <1>12
  <2> QED
    BY <2>1, <2>2, <2>3, <2>4, <1>7
<1>13. ASSUME NEW v \in 1 .. Version', revisions'[v].cmd.key # 0
       PROVE  Kept(v)'
  <2>1. CASE v \in 1 .. Version
    <3>1. v \in Versions /\ v - 1 \in Versions
      BY <2>1, <1>1 DEF Versions
    <3>2. Kept(v)
      BY <1>1, <1>3, <1>13, <2>1
    <3> QED
      BY <3>1, <3>2, <2>1, <1>3, <1>5 DEF Kept
  <2>2. CASE v = n
    <3>1. v - 1 = Version /\ revisions'[v].cmd = c
      BY <2>2, <1>1, <1>2, <1>3
    <3>2. PackageAt(v)' = pkg /\ PackageAt(v - 1)' = PackageAt(Version)
      <4>1. PICK m \in Versions : m = Version
        BY <1>9
      <4>2. v - 1 = m /\ PackageAt(m)' = PackageAt(m)
        BY <4>1, <3>1, <1>5
      <4> QED
        BY <4>1, <4>2, <2>2, <1>6
    <3> QED
      BY <3>1, <3>2, <2>2, <1>13, ZenonT(60) DEF Kept
  <2> QED
    BY <2>1, <2>2, <1>8
<1> QED
  BY <1>2, <1>4, <1>10, <1>11, <1>12, <1>13 DEF Rows

\* What was good with the rows there were is with more of them.
LEMMA GrownGood ==
  ASSUME revisions \in Seq(Row), Grown, NEW k
  PROVE  /\ \A c : GoodCommand(c, k) => GoodCommand(c, k)'
         /\ \A f : GoodForm(f, k) => GoodForm(f, k)'
         /\ Copies \subseteq Copies' /\ Orphans \subseteq Orphans' /\ Rereads \subseteq Rereads'
         /\ Fetches \subseteq Fetches' /\ Commands \subseteq Commands'
         /\ \A e, v : Known(e, v) => Known(e, v)'
         /\ \A ft : Named(ft) => Named(ft)'
         /\ \A ft \in Fetches : Changed(ft) => Changed(ft)'
<1>1. /\ Versions \subseteq Versions' /\ Commands \subseteq Commands'
      /\ \A v \in Versions : PackageAt(v)' = PackageAt(v)
      /\ \A e, v : Known(e, v) => Known(e, v)'
      /\ Version \in Nat /\ Version' \in Nat /\ Version <= Version'
      /\ \A v \in 1 .. Version : revisions'[v] = revisions[v] /\ v \in Versions
  BY GrownPackages, Packaged DEF Grown
<1>2. Targets \subseteq Targets' /\ Panels \subseteq Panels'
  BY <1>1 DEF Targets, Panels
<1>3. Forms \subseteq Forms'
  BY <1>1, <1>2 DEF Forms
<1>4. Copies \subseteq Copies' /\ Orphans \subseteq Orphans' /\ Rereads \subseteq Rereads'
  BY <1>1 DEF Copies, Orphans, Rereads
<1>5. Fetches \subseteq Fetches'
  BY <1>1, <1>3 DEF Fetches
<1>6. \A c : GoodCommand(c, k) => GoodCommand(c, k)'
  BY <1>1 DEF GoodCommand
<1>7. \A f : GoodForm(f, k) => GoodForm(f, k)'
  BY <1>1, <1>3 DEF GoodForm
<1>8. ASSUME NEW ft, Named(ft)
      PROVE  Named(ft)'
  <2>1. ft.page \in 1 .. Version /\ ft.page \in 1 .. Version' /\ ft.page \in Versions
    BY <1>1, <1>8 DEF Named
  <2>2. PackageAt(ft.page)' = PackageAt(ft.page) /\ revisions'[ft.page] = revisions[ft.page]
    BY <1>1, <2>1
  <2> QED
    BY <2>1, <2>2, <1>8 DEF Named
<1>9. ASSUME NEW ft \in Fetches, Changed(ft)
      PROVE  Changed(ft)'
  <2>1. ft.cmd.base \in Nat
    BY <1>1 DEF Fetches, Commands, Versions
  <2>2. PICK v \in ft.cmd.base + 1 .. Version : revisions[v].cmd.editor = ft.cmd.editor
    BY <1>9 DEF Changed
  <2>3. v \in 1 .. Version /\ v \in ft.cmd.base + 1 .. Version'
    BY <1>1, <2>1
  <2> QED
    BY <1>1, <2>2, <2>3 DEF Changed
<1> QED
  BY <1>1, <1>4, <1>5, <1>6, <1>7, <1>8, <1>9

LEMMA SaveStep ==
  ASSUME BInv, Rows', Grown, UNCHANGED <<client, keys, told, reread, faults>>,
         copies' \subseteq copies, GoodFetch(forms, fetch, keys)'
  PROVE  BInv'
<1>1. /\ stored' = stored /\ unknown' = unknown /\ paused' = paused /\ orphan' = orphan
      /\ store' = store /\ forms' = forms /\ met' = met /\ told' = told /\ keys' = keys
      /\ reread' = reread /\ faults' = faults
  BY DEF client, offers
<1>2. /\ \A c : GoodCommand(c, keys) => GoodCommand(c, keys)'
      /\ \A f : GoodForm(f, keys) => GoodForm(f, keys)'
      /\ Copies \subseteq Copies' /\ Orphans \subseteq Orphans' /\ Rereads \subseteq Rereads'
      /\ Commands \subseteq Commands'
      /\ \A e, v : Known(e, v) => Known(e, v)'
  <2>1. PICK k : k = keys
    OBVIOUS
  <2>2. k' = k /\ keys' = k
    BY <1>1, <2>1
  <2>3. /\ \A c : GoodCommand(c, k) => GoodCommand(c, k)'
        /\ \A f : GoodForm(f, k) => GoodForm(f, k)'
        /\ Copies \subseteq Copies' /\ Orphans \subseteq Orphans' /\ Rereads \subseteq Rereads'
        /\ Commands \subseteq Commands'
        /\ \A e, v : Known(e, v) => Known(e, v)'
    BY BInvParts, GrownGood
  <2>4. /\ \A c : GoodCommand(c, k)' <=> GoodCommand(c, keys)'
        /\ \A f : GoodForm(f, k)' <=> GoodForm(f, keys)'
    BY <2>2 DEF GoodCommand, GoodForm
  <2> QED
    BY <2>1, <2>3, <2>4
<1>3. Shape'
  BY <1>1, <1>2, BInvParts DEF Shape
<1>4. GoodForms(forms, keys)'
  BY <1>1, <1>2, BInvParts DEF GoodForms
<1>5. GoodStore(store)'
  BY <1>1, <1>2, BInvParts DEF GoodStore
<1>6. GoodOffers(stored, unknown, orphan, keys)'
  BY <1>1, <1>2, BInvParts DEF GoodOffers, GoodStored, MaybeGood
<1>7. GoodCopies(copies, keys)'
  BY <1>2, BInvParts DEF GoodCopies
<1> QED
  BY <1>3, <1>4, <1>5, <1>6, <1>7 DEF BInv

LEMMA GrownFetch ==
  ASSUME BInv, Grown, fetch' = fetch, forms' = forms, keys' = keys
  PROVE  GoodFetch(forms, fetch, keys)'
<1>1. GoodFetch(forms, fetch, keys)
  BY BInvParts
<1>2. PICK k : k = keys
  OBVIOUS
<1>3. /\ \A c : GoodCommand(c, k) => GoodCommand(c, k)'
      /\ \A f : GoodForm(f, k) => GoodForm(f, k)'
      /\ Fetches \subseteq Fetches'
      /\ \A e, v : Known(e, v) => Known(e, v)'
      /\ \A ft : Named(ft) => Named(ft)'
      /\ \A ft \in Fetches : Changed(ft) => Changed(ft)'
  BY BInvParts, GrownGood
<1>4. PICK ft : ft = fetch
  OBVIOUS
<1>5. ft \in Fetches /\ ft \in Fetches'
  BY <1>1, <1>3, <1>4 DEF GoodFetch
<1>6. ft.phase \in Unanswered => GoodCommand(ft.cmd, k)'
  BY <1>1, <1>2, <1>3, <1>4 DEF GoodFetch
<1>7. ft.phase = "committed" => Named(ft)'
  BY <1>1, <1>3, <1>4 DEF GoodFetch
<1>8. ft.phase \in {"refused", "conflict"} => Changed(ft)'
  BY <1>1, <1>3, <1>4, <1>5 DEF GoodFetch
<1>9. ft.phase = "conflict" =>
        \A i \in DOMAIN forms : \A e : forms[i].inflight /\ e = forms[i].editor => Known(e, ft.page)'
  BY <1>1, <1>3, <1>4 DEF GoodFetch
<1>10. ft = fetch' /\ k = keys'
  BY <1>2, <1>4
<1>11. /\ fetch' \in Fetches'
       /\ fetch'.phase \in Unanswered => GoodCommand(fetch.cmd, keys)'
       /\ fetch'.phase = "committed" => Named(fetch)'
       /\ fetch'.phase \in {"refused", "conflict"} => Changed(fetch)'
  BY <1>5, <1>6, <1>7, <1>8, <1>10 DEF GoodCommand, Named, Changed
<1>12. ASSUME fetch'.phase = "conflict", NEW i \in DOMAIN forms, forms[i].inflight
       PROVE  Known(forms[i].editor, fetch.page)'
  BY <1>9, <1>10, <1>12 DEF Known
<1>13. GoodForm(fetch.left, keys)'
  <2>1. PICK f : f = fetch.left
    OBVIOUS
  <2>2. GoodForm(f, k)
    BY <1>1, <1>2, <2>1 DEF GoodFetch
  <2>3. GoodForm(f, k)'
    BY <1>3, <2>2
  <2> QED
    BY <1>2, <2>1, <2>3 DEF GoodForm
<1> QED
  BY <1>11, <1>12, <1>13 DEF GoodFetch, Unanswered

\* A command that may save: no other row has its key, and its action is there.
MaySave(c) ==
  /\ c \in Commands
  /\ c.editor = 0 \/ (c.editor \in DOMAIN PackageAt(Version)
                        /\ ~PackageAt(Version)[c.editor].removed)
  /\ c.key = 0 => Cardinality(Elsewheres) < Len(Opened) + MaxOthers
  /\ c.key # 0 => \A v \in 1 .. Version : revisions[v].cmd.key # c.key

LEMMA SaveGood ==
  ASSUME Rows, NEW c, MaySave(c), Save(c)
  PROVE  /\ Rows' /\ Grown /\ Version' = Version + 1
         /\ revisions'[Version + 1].cmd = c
<1> DEFINE old == PackageAt(Version)
           saved == [text |-> c.text, removed |-> FALSE]
           pkg == PackageAfter(c)
<1>1. /\ revisions \in Seq(Row) /\ Version \in Nat
      /\ old \in Seq(Saved) /\ Len(old) \in Nat /\ DOMAIN old = 1 .. Len(old)
      /\ \A a \in DOMAIN old : old[a] \in Saved
  BY Packaged DEF Rows
<1>2. saved \in Saved /\ c \in Commands /\ c.editor \in Editors
  BY DEF MaySave, Commands, Saved
<1>3. revisions' = Append(revisions, [cmd |-> c, package |-> pkg])
  BY DEF Save
<1>4. CASE c.editor = 0
  <2>1. pkg = Append(old, saved)
    BY <1>4 DEF PackageAfter
  <2> HIDE DEF old, saved, pkg
  <2>2. /\ pkg \in Seq(Saved) /\ Len(pkg) = Len(old) + 1
        /\ \A a \in DOMAIN old : pkg[a] = old[a]
        /\ pkg[Len(pkg)] = saved
    BY <2>1, <1>1, <1>2
  <2>3. /\ Len(old) <= Len(pkg) /\ Len(pkg) <= Len(old) + 1
        /\ \A a \in DOMAIN old : (old[a].removed => pkg[a].removed) /\ old[a] = pkg[a]
    BY <2>2, <1>1
  <2>4. Rows' /\ Grown /\ Version' = Version + 1
    BY <2>2, <2>3, <1>2, <1>3, <1>4, NextRow DEF MaySave, old, saved
  <2> QED
    BY <2>4, <1>1, <1>3 DEF Version
<1>5. CASE c.editor # 0
  <2>1. c.editor \in DOMAIN old /\ ~old[c.editor].removed
        /\ pkg = [old EXCEPT ![c.editor] = saved]
    BY <1>5 DEF PackageAfter, MaySave
  <2> HIDE DEF old, saved, pkg
  <2>2. /\ pkg \in Seq(Saved) /\ Len(pkg) = Len(old) /\ DOMAIN pkg = DOMAIN old
        /\ \A a \in DOMAIN old : a # c.editor => pkg[a] = old[a]
        /\ pkg[c.editor] = saved
    BY <2>1, <1>1, <1>2
  <2>3. /\ Len(old) <= Len(pkg) /\ Len(pkg) <= Len(old) + 1
        /\ \A a \in DOMAIN old : (old[a].removed => pkg[a].removed)
                                   /\ (old[a] = pkg[a] \/ c.editor = a)
    BY <2>1, <2>2, <1>1
  <2>4. c.editor \in DOMAIN pkg /\ pkg[c.editor] = [text |-> c.text, removed |-> FALSE]
    BY <2>1, <2>2 DEF saved
  <2>5. Rows' /\ Grown /\ Version' = Version + 1
    BY <2>2, <2>3, <2>4, <1>2, <1>3, <1>5, NextRow DEF MaySave, old
  <2> QED
    BY <2>5, <1>1, <1>3 DEF Version
<1> QED
  BY <1>4, <1>5

LEMMA SavedElsewhereGood ==
  ASSUME BInv, NEW a \in Editors, NEW t \in Texts, SavedElsewhere(a, t)
  PROVE  BInv'
<1> DEFINE c == [NoCommand EXCEPT !.editor = a, !.text = t, !.base = Version]
<1>1. Elsewhere /\ a \in {0} \cup Live(Version) /\ Save(c)
      /\ UNCHANGED <<client, fetch, reread, copies, keys, faults, told>>
  BY DEF SavedElsewhere
<1>2. NoCommand \in Commands /\ NoCommand.key = 0 /\ Version \in Versions /\ Rows
  BY BInvParts, Packaged, Nothing
<1>3. c \in Commands /\ c.editor = a /\ c.key = 0
  BY <1>2 DEF Commands
<1> HIDE DEF c
<1>4. MaySave(c)
  <2>1. Cardinality(Elsewheres) < Len(Opened) + MaxOthers
    BY <1>1, Sizes DEF Elsewhere, Elsewheres
  <2> QED
    BY <1>1, <1>3, <2>1 DEF MaySave, Live
<1>5. Rows' /\ Grown
  BY <1>1, <1>2, <1>4, SaveGood
<1>6. GoodFetch(forms, fetch, keys)'
  BY <1>1, <1>5, GrownFetch DEF client
<1> QED
  BY <1>1, <1>5, <1>6, SaveStep

LEMMA RemovedElsewhereGood ==
  ASSUME BInv, NEW a \in Editors, RemovedElsewhere(a)
  PROVE  BInv'
<1> DEFINE c == [NoCommand EXCEPT !.editor = a, !.base = Version]
           old == PackageAt(Version)
           pkg == [old EXCEPT ![a].removed = TRUE]
<1>1. Elsewhere /\ a \in Live(Version)
      /\ revisions' = Append(revisions, [cmd |-> c, package |-> pkg])
      /\ UNCHANGED <<client, fetch, reread, copies, keys, faults, told>>
  BY DEF RemovedElsewhere
<1>2. NoCommand \in Commands /\ NoCommand.key = 0 /\ Version \in Versions /\ Rows
  BY BInvParts, Packaged, Nothing
<1>3. c \in Commands /\ c.editor = a /\ c.key = 0
  BY <1>2 DEF Commands
<1>4. /\ old \in Seq(Saved) /\ Len(old) \in Nat /\ DOMAIN old = 1 .. Len(old)
      /\ a \in DOMAIN old /\ old[a] \in Saved
  BY <1>1, BInvParts, Packaged DEF Live
<1> HIDE DEF c, old
<1>5. /\ [old[a] EXCEPT !.removed = TRUE] \in Saved
      /\ [old[a] EXCEPT !.removed = TRUE].removed = TRUE
  BY <1>4 DEF Saved
<1>6. /\ pkg \in Seq(Saved) /\ Len(pkg) = Len(old)
      /\ \A b \in DOMAIN old : b # a => pkg[b] = old[b]
      /\ pkg[a].removed = TRUE
  BY <1>4, <1>5
<1> HIDE DEF pkg
<1>7. /\ Len(old) <= Len(pkg) /\ Len(pkg) <= Len(old) + 1
      /\ \A b \in DOMAIN old : (old[b].removed => pkg[b].removed)
                                 /\ (old[b] = pkg[b] \/ c.editor = b)
  BY <1>3, <1>4, <1>6
<1>8. Cardinality(Elsewheres) < Len(Opened) + MaxOthers
  BY <1>1, Sizes DEF Elsewhere, Elsewheres
<1>9. Rows' /\ Grown
  BY <1>1, <1>2, <1>3, <1>6, <1>7, <1>8, NextRow DEF old
<1>10. GoodFetch(forms, fetch, keys)'
  BY <1>1, <1>9, GrownFetch DEF client
<1> QED
  BY <1>1, <1>9, <1>10, SaveStep

\* A command of the page that saves finds its action in the package.
LEMMA SavedMaySave ==
  ASSUME BInv, NEW c, GoodCommand(c, keys), Outcome(c) = "saved"
  PROVE  MaySave(c) /\ c.key # 0
<1>1. c \in Commands /\ c.key \in 1 .. keys /\ Known(c.editor, c.base)
  BY DEF GoodCommand
<1>2. c.key # 0 /\ \A v \in 1 .. Version : revisions[v].cmd.key # c.key
  BY <1>1, BInvParts DEF Outcome, ClaimedBy
<1>3. c.editor = 0 \/ ~ScopeAt(Version, c.editor).removed
  BY DEF Outcome
<1>4. c.editor # 0 => c.editor \in DOMAIN PackageAt(Version)
  BY <1>3 DEF ScopeAt
<1>5. c.editor # 0 => ~PackageAt(Version)[c.editor].removed
  BY <1>3, <1>4 DEF ScopeAt
<1> QED
  BY <1>1, <1>2, <1>4, <1>5 DEF MaySave

LEMMA CopyArrivesGood ==
  ASSUME BInv, NEW c \in copies, CopyArrives(c)
  PROVE  BInv'
<1>1. GoodCommand(c, keys) /\ Rows
  BY BInvParts DEF GoodCopies
<1>2. UNCHANGED <<client, fetch, reread, keys, faults, told>> /\ copies' = copies \ {c}
  BY DEF CopyArrives
<1>3. CASE Outcome(c) = "saved"
  <2>1. Rows' /\ Grown
    BY <1>1, <1>3, SavedMaySave, SaveGood DEF CopyArrives
  <2>2. GoodFetch(forms, fetch, keys)'
    BY <1>2, <2>1, GrownFetch DEF client
  <2> QED
    BY <1>2, <2>1, <2>2, SaveStep
<1>4. CASE revisions' = revisions
  <2>1. GoodCopies(copies', keys)
    BY <1>2, BInvParts DEF GoodCopies
  <2> QED
    BY <1>2, <1>4, <2>1, BInvParts, PageStep DEF GoodAfter, GoodOffers, client, offers
<1> QED
  BY <1>3, <1>4 DEF CopyArrives

LEMMA SavedIsNamed ==
  ASSUME BInv, NEW c, GoodCommand(c, keys), Outcome(c) = "saved", Save(c)
  PROVE  /\ Rows' /\ Grown
         /\ \A ft : /\ ft.cmd = c /\ ft.page = Version + 1
                    /\ ft.action = IF c.editor = 0 THEN Len(PackageAt(Version)) + 1 ELSE c.editor
                    => Named(ft)' /\ ft.page \in Versions' /\ ft.action \in Editors
<1>1. MaySave(c) /\ c.key # 0 /\ Rows /\ revisions \in Seq(Row) /\ Version \in Nat
  BY BInvParts, SavedMaySave, Packaged
<1>2. Rows' /\ Grown /\ Version' = Version + 1 /\ revisions'[Version + 1].cmd = c
  BY <1>1, SaveGood
<1>3. PICK n \in Nat : n = Version + 1
  BY <1>1
<1>4. PICK m \in Versions : m = Version
  BY <1>1, Packaged
<1>5. n \in 1 .. Version' /\ n - 1 = m /\ n \in Versions' /\ revisions'[n].cmd = c
  BY <1>1, <1>2, <1>3, <1>4 DEF Versions
<1>6. Kept(n)'
  BY <1>1, <1>2, <1>5 DEF Rows
<1>7. PackageAt(m)' = PackageAt(m) /\ Len(PackageAt(m)) \in Nat
  BY <1>1, <1>2, GrownPackages, Packaged
<1>8. DOMAIN (PackageAt(n)') = 1 .. Len(PackageAt(n)')
  <2>1. PackageAt(n)' = revisions'[n].package
    BY <1>3, <1>1 DEF PackageAt
  <2>2. revisions' \in Seq(Row') /\ Len(revisions') = Version'
    BY <1>2 DEF Rows, Version
  <2>3. revisions'[n] \in Row'
    BY <1>5, <2>2
  <2>4. revisions'[n].package \in Seq(Saved')
    BY <2>3 DEF Row
  <2> QED
    BY <2>1, <2>4
<1>9. n <= MostActions
  <2>1. \A v \in 1 .. n : revisions'[v].cmd.key \in Keys
    <3>1. revisions' \in Seq(Row') /\ Len(revisions') = n
      BY <1>2, <1>3 DEF Rows, Version
    <3>2. \A v \in 1 .. n : revisions'[v] \in Row'
      BY <3>1
    <3> QED
      BY <3>2 DEF Row, Commands
  <2>2. /\ \A v, w \in 1 .. n :
             revisions'[v].cmd.key = revisions'[w].cmd.key /\ revisions'[v].cmd.key # 0 => v = w
        /\ Cardinality({v \in 1 .. n : revisions'[v].cmd.key = 0}) <= Len(Opened) + MaxOthers
    BY <1>2, <1>3 DEF Rows, Counted, Elsewheres
  <2> QED
    BY <2>1, <2>2, FewRows
<1>10. ASSUME NEW ft, ft.cmd = c, ft.page = n,
              ft.action = IF c.editor = 0 THEN Len(PackageAt(m)) + 1 ELSE c.editor
       PROVE  Named(ft)' /\ ft.action \in Editors
  <2>1. /\ ft.action \in DOMAIN (PackageAt(n)')
        /\ (PackageAt(n)')[ft.action] = [text |-> c.text, removed |-> FALSE]
        /\ c.editor \in {0, ft.action}
    <3>1. CASE c.editor = 0
      <4>1. /\ Len(PackageAt(n)') = Len(PackageAt(m)) + 1
            /\ (PackageAt(n)')[Len(PackageAt(n)')] = [text |-> c.text, removed |-> FALSE]
        BY <3>1, <1>5, <1>6, <1>7 DEF Kept
      <4> QED
        BY <4>1, <3>1, <1>7, <1>8, <1>10
    <3>2. CASE c.editor # 0
      BY <3>2, <1>5, <1>6, <1>10 DEF Kept
    <3> QED
      BY <3>1, <3>2
  <2>2. Named(ft)'
    BY <2>1, <1>5, <1>10 DEF Named
  <2>3. ft.action \in Editors
    <3>1. CASE c.editor = 0
      <4>1. Len(PackageAt(m)) <= m
        BY <1>1 DEF Rows, Counted
      <4> QED
        BY <4>1, <3>1, <1>1, <1>3, <1>4, <1>7, <1>9, <1>10, Sizes DEF Editors
    <3>2. CASE c.editor # 0
      BY <3>2, <1>1, <1>10 DEF MaySave, Commands
    <3> QED
      BY <3>1, <3>2
  <2> QED
    BY <2>2, <2>3
<1> QED
  BY <1>2, <1>3, <1>4, <1>5, <1>10

\* A replay is named the action its own revision added, whatever came since.
LEMMA ReplayIsNamed ==
  ASSUME BInv, NEW c, GoodCommand(c, keys), Outcome(c) = "replayed", NEW v \in ClaimedBy(c)
  PROVE  \A ft : ft.cmd = c /\ ft.page = v /\ ft.action = EditorNamed(c, v) =>
                   Named(ft) /\ ft.page \in Versions /\ ft.action \in Editors
<1>1. Rows /\ revisions \in Seq(Row) /\ Counted /\ Version \in Nat
  BY BInvParts, Packaged
<1>2. v \in 1 .. Version /\ revisions[v].cmd.key = c.key
  BY DEF ClaimedBy
<1>3. c \in Commands /\ c.key # 0
  BY DEF GoodCommand
<1>4. SameRequest(v, c)
  <2>1. PICK w \in ClaimedBy(c) : SameRequest(w, c)
    BY DEF Outcome
  <2>2. w = v
    BY <1>1, <1>2, <1>3 DEF ClaimedBy, Counted
  <2> QED
    BY <2>1, <2>2
<1>5. revisions[v].cmd.editor = c.editor /\ revisions[v].cmd.text = c.text
  BY <1>4 DEF SameRequest
<1>6. Kept(v)
  BY <1>1, <1>2, <1>3 DEF Rows
<1>7. /\ v \in Versions /\ v - 1 \in Versions
      /\ Len(PackageAt(v)) \in Nat /\ DOMAIN PackageAt(v) = 1 .. Len(PackageAt(v))
      /\ Len(PackageAt(v - 1)) \in Nat /\ DOMAIN PackageAt(v - 1) = 1 .. Len(PackageAt(v - 1))
  <2>1. v \in Versions /\ v - 1 \in Versions
    BY <1>1, <1>2, Packaged
  <2> QED
    BY <1>1, <2>1, Packaged
<1>8. /\ EditorNamed(c, v) \in DOMAIN PackageAt(v)
      /\ PackageAt(v)[EditorNamed(c, v)] = [text |-> c.text, removed |-> FALSE]
      /\ c.editor \in {0, EditorNamed(c, v)}
  <2>1. CASE c.editor = 0
    <3> DEFINE n == Len(PackageAt(v))
    <3>1. n = Len(PackageAt(v - 1)) + 1 /\ PackageAt(v)[n] = [text |-> c.text, removed |-> FALSE]
      BY <2>1, <1>5, <1>6 DEF Kept
    <3>2. n \in DOMAIN PackageAt(v) /\ n \notin DOMAIN PackageAt(v - 1)
      BY <3>1, <1>7
    <3>3. \A a \in DOMAIN PackageAt(v) : a \notin DOMAIN PackageAt(v - 1) => a = n
      BY <3>1, <1>7
    <3> HIDE DEF n
    <3>4. AddedIn(v) = n
      BY <3>2, <3>3 DEF AddedIn
    <3> QED
      BY <2>1, <3>1, <3>2, <3>4 DEF EditorNamed
  <2>2. CASE c.editor # 0
    BY <2>2, <1>5, <1>6 DEF Kept, EditorNamed
  <2> QED
    BY <2>1, <2>2
<1>9. EditorNamed(c, v) \in Editors
  BY <1>1, <1>7, <1>8, ActionsAreEditors DEF Known
<1> QED
  BY <1>2, <1>7, <1>8, <1>9 DEF Named

\* A command is refused for a conflict only when its own action changed.
LEMMA ConflictIsChanged ==
  ASSUME BInv, NEW c, GoodCommand(c, keys), Outcome(c) = "conflict"
  PROVE  \A ft : ft.cmd = c => Changed(ft)
<1>1. Rows /\ Version \in Versions /\ Version \in Nat /\ Versions \subseteq Nat
  BY BInvParts, Packaged
<1>2. /\ c.editor # 0
      /\ ~(c.editor \in DOMAIN PackageAt(c.base) /\ ScopeAt(c.base, c.editor) = ScopeAt(Version, c.editor))
  BY DEF Outcome, Baseline
<1>3. Known(c.editor, c.base) /\ c.base \in Versions /\ c.base <= Version
  BY <1>1 DEF GoodCommand, Known, Versions
<1>4. \E u \in c.base + 1 .. Version : revisions[u].cmd.editor = c.editor
  <2>1. ScopeAt(c.base, c.editor) # ScopeAt(Version, c.editor)
    BY <1>2, <1>3 DEF Known
  <2>2. PICK v, w, e : /\ v \in Versions /\ w \in Versions
                      /\ v = c.base /\ w = Version /\ e = c.editor
    BY <1>1, <1>3
  <2>3. Rows /\ v \in Versions /\ w \in Versions /\ v <= w /\ Known(e, v) /\ e # 0 /\ ScopeAt(v, e) # ScopeAt(w, e)
    BY <1>1, <1>2, <1>3, <2>1, <2>2
  <2>4. \E u \in v + 1 .. w : revisions[u].cmd.editor = e
    BY ONLY <2>3, Later
  <2> QED
    BY <2>2, <2>4
<1> QED
  BY <1>4 DEF Changed

LEMMA ServerExecutesGood ==
  ASSUME BInv, ServerExecutes
  PROVE  BInv'
<1> DEFINE c == fetch.cmd
<1>1. /\ fetch \in Fetches /\ GoodCommand(c, keys) /\ c \in Commands /\ fetch.phase = "sent"
      /\ Rows /\ revisions \in Seq(Row)
  BY BInvParts DEF GoodFetch, ServerExecutes, Unanswered, GoodCommand
<1>2. UNCHANGED <<client, reread, copies, keys, faults, told>>
  BY DEF ServerExecutes
<1> HIDE DEF c
<1>3. CASE /\ Outcome(c) = "saved" /\ Save(c)
           /\ fetch' = [fetch EXCEPT !.phase = "committed", !.page = Version + 1,
                          !.action = IF c.editor = 0 THEN Len(PackageAt(Version)) + 1 ELSE c.editor]
  <2>1. Rows' /\ Grown
    BY <1>1, <1>3, SavedIsNamed
  <2>2. fetch'.cmd = c /\ fetch'.phase = "committed" /\ fetch'.page = Version + 1
        /\ fetch'.action = (IF c.editor = 0 THEN Len(PackageAt(Version)) + 1 ELSE c.editor)
        /\ fetch'.retry = fetch.retry /\ fetch'.text = fetch.text
        /\ fetch'.removed = fetch.removed /\ fetch'.left = fetch.left
        /\ fetch' = [phase |-> "committed", cmd |-> c, retry |-> fetch.retry,
                     page |-> Version + 1, text |-> fetch.text, removed |-> fetch.removed,
                     action |-> IF c.editor = 0 THEN Len(PackageAt(Version)) + 1 ELSE c.editor,
                     detached |-> fetch.detached, left |-> fetch.left]
    BY <1>1, <1>3 DEF Fetches, c
  <2>3. PICK ft : ft = fetch'
    OBVIOUS
  <2>4. Named(ft)' /\ ft.page \in Versions' /\ ft.action \in Editors
    BY <1>1, <1>3, <2>2, <2>3, SavedIsNamed
  <2>9. GoodForm(fetch.left, keys)' /\ fetch.left \in Forms'
    <3>1. PICK k, f : k = keys /\ f = fetch.left
      OBVIOUS
    <3>2. GoodForm(f, k)
      BY <3>1, BInvParts DEF GoodFetch
    <3>3. GoodForm(f, k)'
      BY <3>2, <1>1, <2>1, GrownGood
    <3> QED
      BY <3>1, <3>3, <2>2, <1>2 DEF GoodForm
  <2>5. fetch' \in Fetches'
    <3>1. Commands \subseteq Commands'
      BY <1>1, <2>1, GrownPackages
    <3>2. fetch'.page \in Versions' /\ fetch'.action \in Editors
      BY <2>3, <2>4
    <3>3. fetch.retry \in BOOLEAN /\ fetch.text \in Texts /\ fetch.removed \in BOOLEAN
          /\ fetch.detached \in BOOLEAN
      BY <1>1 DEF Fetches
    <3>4. fetch.left \in Forms'
      BY <2>9
    <3> QED
      BY <2>2, <3>1, <3>2, <3>3, <3>4, <1>1 DEF Fetches, Phases
  <2>6. GoodCommand(fetch.cmd, keys)'
    <3>1. PICK k, d : k = keys /\ d = c
      OBVIOUS
    <3>2. GoodCommand(d, k)
      BY <1>1, <3>1
    <3>3. GoodCommand(d, k)'
      BY <3>2, <1>1, <2>1, GrownGood
    <3> QED
      BY <3>1, <3>3, <2>2, <1>2 DEF GoodCommand
  <2>7. Named(fetch)'
    BY <2>3, <2>4 DEF Named
  <2>8. GoodFetch(forms, fetch, keys)'
    BY <2>2, <2>5, <2>6, <2>7, <2>9 DEF GoodFetch
  <2> QED
    BY <1>2, <2>1, <2>8, SaveStep
<1>4. CASE /\ Outcome(c) = "replayed"
           /\ \E v \in ClaimedBy(c) :
                fetch' = [fetch EXCEPT !.phase = "committed", !.page = v,
                            !.action = EditorNamed(c, v)]
           /\ UNCHANGED revisions
  <2>1. PICK v \in ClaimedBy(c) :
                fetch' = [fetch EXCEPT !.phase = "committed", !.page = v,
                            !.action = EditorNamed(c, v)]
    BY <1>4
  <2>2. fetch'.cmd = c /\ fetch'.phase = "committed" /\ fetch'.page = v
        /\ fetch'.action = EditorNamed(c, v) /\ fetch'.left = fetch.left
    BY <1>1, <2>1 DEF Fetches, c
  <2>3. Named(fetch') /\ fetch'.page \in Versions /\ fetch'.action \in Editors
    <3>1. PICK ft : ft = fetch'
      OBVIOUS
    <3>2. ft.cmd = c /\ ft.page = v /\ ft.action = EditorNamed(c, v)
      BY <3>1, <2>2
    <3>3. GoodCommand(c, keys) /\ Outcome(c) = "replayed"
      BY <1>1, <1>4
    <3>4. Named(ft) /\ ft.page \in Versions /\ ft.action \in Editors
      BY <3>2, <3>3, ReplayIsNamed
    <3> QED
      BY <3>1, <3>4
  <2>4. fetch' \in Fetches
    BY <1>1, <2>1, <2>2, <2>3 DEF Fetches, Phases
  <2>5. GoodFetch(forms, fetch', keys)
    BY <1>1, <2>2, <2>3, <2>4, BInvParts DEF GoodFetch
  <2> QED
    BY <1>2, <1>4, <2>5, BInvParts, GoodAnswer
<1>5. CASE /\ Outcome(c) \in {"conflict", "key_conflict", "invalid"}
           /\ LET current == ScopeAt(Version, c.editor) IN
                fetch' = [fetch EXCEPT !.text = current.text, !.removed = current.removed,
                            !.phase = IF Outcome(c) = "conflict" THEN "refused" ELSE Outcome(c)]
           /\ UNCHANGED revisions
  <2> DEFINE current == ScopeAt(Version, c.editor)
             phase == IF Outcome(c) = "conflict" THEN "refused" ELSE Outcome(c)
  <2>1. current.text \in Texts /\ current.removed \in BOOLEAN
    BY <1>1, Packaged, ScopeTyped
  <2>2. phase \in Phases /\ phase \in {"refused", "key_conflict", "invalid"}
        /\ (phase = "refused" => Outcome(c) = "conflict")
    BY <1>5 DEF Phases
  <2>3. fetch' = [fetch EXCEPT !.text = current.text, !.removed = current.removed, !.phase = phase]
    BY <1>5
  <2> HIDE DEF current, phase
  <2>4. fetch' \in Fetches /\ fetch'.phase = phase /\ fetch'.cmd = c /\ fetch'.left = fetch.left
    BY <1>1, <2>1, <2>2, <2>3 DEF Fetches, c
  <2>5. phase = "refused" => Changed(fetch')
    BY <1>1, <2>2, <2>4, ConflictIsChanged
  <2>6. GoodFetch(forms, fetch', keys)
    BY <1>1, <2>2, <2>4, <2>5, BInvParts DEF GoodFetch
  <2> QED
    BY <1>2, <1>5, <2>6, BInvParts, GoodAnswer
<1> QED
  BY <1>3, <1>4, <1>5 DEF ServerExecutes, c

-----------------------------------------------------------------------------
(***************************************************************************)
(* The page is opened, and goes on.                                        *)
(***************************************************************************)
LEMMA RowsOpened ==
  ASSUME Init
  PROVE  Rows
<1> DEFINE n == Len(Opened)
           pkg(v) == [a \in 1 .. v |-> [text |-> Opened[a], removed |-> FALSE]]
           cmd(v) == [NoCommand EXCEPT !.text = Opened[v], !.base = v - 1]
<1>1. n \in Nat /\ DOMAIN Opened = 1 .. n /\ \A v \in 1 .. n : Opened[v] \in Texts
  BY ActionAssumption
<1>2. revisions = [v \in 1 .. n |-> [cmd |-> cmd(v), package |-> pkg(v)]]
  BY <1>1 DEF Init
<1>3. Version = n
  <2> DEFINE S == {revisions[v] : v \in 1 .. n}
  <2>1. revisions \in [1 .. n -> S]
    BY <1>2
  <2> HIDE DEF S
  <2>2. revisions \in Seq(S) /\ Len(revisions) = n
    BY <1>1, <2>1
  <2> QED
    BY <2>2 DEF Version
<1>4. \A v \in 1 .. n : cmd(v) \in Commands /\ cmd(v).key = 0
  <2> TAKE v \in 1 .. n
  <2>1. v - 1 \in Versions /\ 0 \in Versions
    BY <1>1, <1>3 DEF Versions
  <2>2. 0 \in Editors /\ 0 \in Keys /\ Blank \in Texts
    BY Sizes DEF Keys
  <2>3. NoCommand \in Commands /\ NoCommand.key = 0
    BY <2>1, <2>2 DEF NoCommand, Commands
  <2> QED
    BY <2>1, <2>3, <1>1 DEF Commands
<1>5. \A v \in 0 .. n : pkg(v) \in Seq(Saved) /\ Len(pkg(v)) = v /\ DOMAIN pkg(v) = 1 .. v
                          /\ \A a \in 1 .. v : pkg(v)[a] = [text |-> Opened[a], removed |-> FALSE]
  <2> TAKE v \in 0 .. n
  <2>1. \A a \in 1 .. v : [text |-> Opened[a], removed |-> FALSE] \in Saved
    BY <1>1 DEF Saved
  <2>2. v \in Nat /\ pkg(v) \in [1 .. v -> Saved]
    BY <2>1, <1>1
  <2> HIDE DEF pkg
  <2>3. pkg(v) \in Seq(Saved) /\ Len(pkg(v)) = v /\ DOMAIN pkg(v) = 1 .. v
    BY <2>2
  <2> QED
    BY <2>3 DEF pkg
<1> HIDE DEF pkg, cmd
<1>6. revisions \in Seq(Row)
  <2>1. \A v \in 1 .. n : [cmd |-> cmd(v), package |-> pkg(v)] \in Row
    BY <1>1, <1>4, <1>5 DEF Row
  <2>2. revisions \in [1 .. n -> Row]
    BY <1>2, <2>1
  <2> QED
    BY <1>1, <2>2
<1>7. \A v \in 1 .. n : revisions[v].cmd = cmd(v) /\ revisions[v].package = pkg(v)
  BY <1>2
<1>8. \A v \in 0 .. n : PackageAt(v) = pkg(v)
  <2>1. pkg(0) = <<>>
    BY <1>1, <1>5
  <2> QED
    BY <2>1, <1>1, <1>7 DEF PackageAt
<1>9. Counted
  <2>1. \A v \in 1 .. Version : revisions[v].cmd.key = 0
    BY <1>3, <1>4, <1>7
  <2>2. Cardinality(Elsewheres) <= Len(Opened) + MaxOthers
    <3>1. Elsewheres = 1 .. n
      BY <2>1, <1>3 DEF Elsewheres
    <3>2. Cardinality(1 .. n) = n
      <4>1. Cardinality(1 .. n) = IF 1 > n THEN 0 ELSE n - 1 + 1
        BY <1>1, FS_Interval
      <4> QED
        BY <4>1, <1>1
    <3> QED
      BY <3>1, <3>2, Sizes
  <2>3. \A v \in Versions : Len(PackageAt(v)) <= v
    BY <1>1, <1>3, <1>5, <1>8 DEF Versions
  <2> QED
    BY <2>1, <2>2, <2>3 DEF Counted
<1>10. ASSUME NEW v \in Versions, NEW w \in Versions, v <= w
       PROVE  Carried(v, w)
  <2>1. v \in 0 .. n /\ w \in 0 .. n
    BY <1>3 DEF Versions
  <2>2. PackageAt(v) = pkg(v) /\ PackageAt(w) = pkg(w)
    BY <2>1, <1>8
  <2>3. Len(pkg(v)) = v /\ Len(pkg(w)) = w /\ DOMAIN pkg(v) = 1 .. v
    BY <2>1, <1>5
  <2>4. \A a \in 1 .. v : pkg(v)[a] = pkg(w)[a]
    <3>1. \A a \in 1 .. v : a \in 1 .. w
      BY <2>1, <1>1, <1>10
    <3> QED
      BY <2>1, <3>1, <1>5
  <2> QED
    BY <2>2, <2>3, <2>4, <1>10 DEF Carried
<1> QED
  BY <1>3, <1>4, <1>6, <1>7, <1>9, <1>10 DEF Rows

LEMMA GoodInit ==
  ASSUME Init
  PROVE  BInv
<1>1. Rows /\ revisions \in Seq(Row) /\ Version \in Versions /\ keys = 0
  BY RowsOpened, Packaged DEF Rows, Init
<1>2. Shape
  <2>1. /\ paused = FALSE /\ reread = NoReread /\ keys = 0 /\ faults = 0 /\ told = 0
        /\ met = FALSE
    BY DEF Init
  <2>2. NoReread \in Rereads /\ 0 \in Keys /\ 0 \in 0 .. MaxFaults
    BY <1>1, Nothing, Sizes
  <2> QED
    BY <2>1, <2>2 DEF Shape
<1>3. GoodStore(store)
  BY <1>1, Nothing DEF Init, GoodStore
<1>4. GoodForms(forms, keys)
  <2>1. DOMAIN NoForms = {} /\ NoForms = [i \in {} |-> NoForms[i]]
    BY DEF NoForms
  <2>2. GoodForms(NoForms, 0)
    BY <2>1 DEF GoodForms
  <2>3. forms = Page(NoForms, Version, stored)
    BY DEF Init
  <2>4. GoodForms(Page(NoForms, Version, stored), 0)
    BY <1>1, <1>3, <2>2, GoodPage
  <2> QED
    BY <1>1, <2>3, <2>4
<1>5. GoodOffers(stored, unknown, orphan, keys)
  BY <1>1, Nothing DEF Init, GoodOffers, GoodStored, MaybeGood
<1>6. GoodFetch(forms, fetch, keys)
  BY <1>1, GoodIdle DEF Init
<1>7. GoodCopies(copies, keys)
  BY DEF Init, GoodCopies
<1> QED
  BY <1>1, <1>2, <1>3, <1>4, <1>5, <1>6, <1>7 DEF BInv

LEMMA GoodNext ==
  ASSUME BInv, [Next]_vars
  PROVE  BInv'
<1>1. CASE Next
  <2>1. CASE Author
    BY <2>1, AuthorEdits, EditedGood, DiscardRetainedGood, SaveMineGood DEF Author
  <2>2. CASE Send
    BY <2>2, SubmitGood, RetryGood, RetryOrphanGood, ResendOrphanGood, ReadsGood DEF Send
  <2>3. CASE Server
    BY <2>3, ServerExecutesGood, ServerReadsGood, ReadsGood DEF Server
  <2>4. CASE Script
    BY <2>4, AcknowledgedGood, ConflictShownGood, RefusedGood, ViewsGood DEF Script
  <2>5. CASE Faulty
    BY <2>5, ServerRejectsGood, FetchFailsGood, RefreshFailsGood, ReloadGood, CopyArrivesGood
       DEF Faulty
  <2>6. CASE Others
    BY <2>6, SavedElsewhereGood, RemovedElsewhereGood DEF Others
  <2> QED
    BY <1>1, <2>1, <2>2, <2>3, <2>4, <2>5, <2>6 DEF Next
<1>2. CASE UNCHANGED vars
  <2>1. /\ UNCHANGED <<revisions, client, copies, keys, told>>
        /\ fetch' = fetch /\ faults' = faults /\ reread' = reread
    BY <1>2 DEF vars
  <2> QED
    BY <2>1, BInvParts, GoodAnswer
<1> QED
  BY <1>1, <1>2

LEMMA Goods == Spec => []BInv
<1>1. Init => BInv
  BY GoodInit
<1>2. BInv /\ [Next]_vars => BInv'
  BY GoodNext
<1> QED
  BY <1>1, <1>2, PTL DEF Spec

\* Every form, copy, command and page keeps its type: the places, editors and
\* keys in use stay within their bounds, and none refers to a version that is
\* not saved.
THEOREM Typed == Spec => []TypeOK
<1>1. BInv => TypeOK
  <2> SUFFICES ASSUME BInv PROVE TypeOK
    OBVIOUS
  <2>1. revisions \in Seq([cmd : Commands, package : Seq([text : Texts, removed : BOOLEAN])])
    BY BInvParts DEF Row, Saved
  <2>2. DOMAIN forms \subseteq Places /\ forms \in [DOMAIN forms -> Forms]
    BY BInvParts DEF GoodForms, GoodForm
  <2>3. unknown \in Commands /\ copies \subseteq Commands
    BY BInvParts, Nothing DEF MaybeGood, GoodCopies, GoodCommand
  <2> QED
    BY <2>1, <2>2, <2>3, BInvParts DEF TypeOK, GoodStore, GoodStored, GoodFetch
<1> QED
  BY <1>1, Goods, PTL

\* The form that creates an action becomes the editor of the one its own
\* revision added, also when the answer is a replay after others have come.
THEOREM AnswersNameTheirAction == Spec => []AnswerNamesItsAction
<1>1. BInv => AnswerNamesItsAction
  BY BInvParts DEF AnswerNamesItsAction, GoodFetch, Named
<1> QED
  BY <1>1, Goods, PTL

\* No save of another action, and no creation, comes between an author and a
\* save: whoever is shown a conflict had that action changed under them.
THEOREM ConflictsAreWithTheirAction == Spec => []ConflictsAreOfTheAction
<1>1. BInv => ConflictsAreOfTheAction
  BY BInvParts DEF ConflictsAreOfTheAction, GoodFetch, Changed
<1> QED
  BY <1>1, Goods, PTL

-----------------------------------------------------------------------------
(***************************************************************************)
(* Where the forms stand, which one sends, and what is kept of them.       *)
(***************************************************************************)
PlacedIn(fs) ==
  \A i \in DOMAIN fs : (i > 0 => fs[i].editor = i) /\ (i < 0 => fs[i].editor = -i)

OneSender(fs, ft) ==
  /\ \A i, j \in DOMAIN fs : fs[i].inflight /\ fs[j].inflight => i = j
  /\ \A i \in DOMAIN fs : fs[i].inflight =>
       /\ ft.phase # "idle" /\ ~ft.detached
       /\ ft.phase \in Unanswered => fs[i].editor = ft.cmd.editor

CInv == PlacedIn(forms) /\ OneSender(forms, fetch)

\* The copy of a form is its own, or one the handler of a detached form left.
CopiesIn(fs, st) ==
  \A i \in DOMAIN fs : Dirty(fs[i]) =>
    LET copy == st[fs[i].editor] IN copy = CopyOf(fs[i]) \/ ~copy.own

DInv == met \/ (CopiesIn(forms, store) /\ ~Twins(forms))

\* One form holds unsaved text of an editor.
Sole(fs) ==
  \A i, j \in DOMAIN fs : Dirty(fs[i]) /\ Dirty(fs[j]) /\ fs[i].editor = fs[j].editor => i = j

TakenFrom(g, f) ==
  /\ g.editor = f.editor /\ g.text = f.text /\ g.baseline = f.baseline
  /\ g.version = f.version

\* The place a form with unsaved text has in a page of version v.
PlaceOf(fs, v, i) ==
  IF fs[i].editor \in {0} \cup Live(v) THEN fs[i].editor ELSE KeptAt(fs, i)

LEMMA TakenSame ==
  ASSUME NEW f, NEW g, TakenFrom(g, f)
  PROVE  /\ Dirty(g) <=> Dirty(f)
         /\ CopyOf(g) = CopyOf(f)
BY DEF TakenFrom, Dirty, CopyOf

LEMMA SoleWithoutTwins ==
  ASSUME NEW fs, DOMAIN fs \subseteq Places, ~Twins(fs)
  PROVE  Sole(fs)
<1> SUFFICES ASSUME NEW i \in DOMAIN fs, NEW j \in DOMAIN fs, Dirty(fs[i]), Dirty(fs[j]),
                    fs[i].editor = fs[j].editor, i # j
             PROVE  FALSE
  BY DEF Sole
<1>1. i \in Int /\ j \in Int
  BY Sizes
<1>2. j < i \/ i < j
  BY <1>1
<1> QED
  BY <1>2 DEF Twins, InUse

\* Every form of the page is fresh or holds the unsaved text of one before it.
LEMMA PageFrom ==
  ASSUME Rows, NEW k \in Nat, NEW fs, GoodForms(fs, k), GoodStore(store), NEW v \in Versions,
         NEW kept, NEW p \in DOMAIN Page(fs, v, kept)
  PROVE  LET g == Page(fs, v, kept)[p] IN
         \/ /\ p \in {0} \cup Live(v) /\ DirtyFormsOf(fs, p) = {}
            /\ g = Restored(FormOf(p, v), kept) /\ g.editor = p /\ ~g.inflight
         \/ \E i \in DOMAIN fs :
              /\ Dirty(fs[i]) /\ p = PlaceOf(fs, v, i)
              /\ TakenFrom(g, fs[i]) /\ g.inflight = fs[i].inflight
<1>1. PICK g : g = Page(fs, v, kept)[p]
  OBVIOUS
<1>2. CASE /\ p \in {0} \cup Live(v) /\ Known(p, v) /\ DirtyFormsOf(fs, p) = {}
           /\ g = Restored(FormOf(p, v), kept)
  <2>1. PICK f : f = FormOf(p, v)
    OBVIOUS
  <2>2. GoodForm(f, k) /\ f.editor = p /\ ~f.inflight
    BY <1>2, <2>1, GoodFormOf
  <2>3. g.editor = p /\ ~g.inflight
    BY <1>2, <2>1, <2>2, GoodRestored
  <2> QED
    BY <1>1, <1>2, <2>3
<1>3. CASE /\ p \in {0} \cup Live(v) /\ DirtyFormsOf(fs, p) # {}
           /\ g = Grafted(fs, p, v)
  <2>1. PICK i : i = LastOf(DirtyFormsOf(fs, p))
    OBVIOUS
  <2>2. /\ i \in DirtyFormsOf(fs, p)
        /\ g.editor = p /\ g.text = fs[i].text /\ g.baseline = fs[i].baseline
        /\ g.version = fs[i].version /\ g.inflight = fs[i].inflight
    BY <1>3, <2>1, GraftedFrom
  <2>3. i \in DOMAIN fs /\ Dirty(fs[i]) /\ fs[i].editor = p
    BY <2>2 DEF DirtyFormsOf
  <2> QED
    BY <1>1, <1>3, <2>2, <2>3 DEF TakenFrom, PlaceOf
<1>4. CASE \E i \in WithoutPlace(fs, v) : KeptAt(fs, i) = p /\ g = [fs[i] EXCEPT !.gone = TRUE]
  <2>1. PICK i \in WithoutPlace(fs, v) : KeptAt(fs, i) = p /\ g = [fs[i] EXCEPT !.gone = TRUE]
    BY <1>4
  <2>2. i \in DOMAIN fs /\ Dirty(fs[i]) /\ fs[i].editor \notin {0} \cup Live(v)
    BY DEF WithoutPlace
  <2>3. fs[i] \in Forms
    BY <2>2 DEF GoodForms, GoodForm
  <2>4. /\ g.editor = fs[i].editor /\ g.text = fs[i].text /\ g.baseline = fs[i].baseline
        /\ g.version = fs[i].version /\ g.inflight = fs[i].inflight
    BY <2>1, <2>3 DEF Forms
  <2> QED
    BY <1>1, <2>1, <2>2, <2>4 DEF TakenFrom, PlaceOf
<1> QED
  BY <1>1, <1>2, <1>3, <1>4, PageForms

\* The place tells the editor.
LEMMA PlaceOfEditor ==
  ASSUME Rows, NEW k \in Nat, NEW fs, GoodForms(fs, k), PlacedIn(fs), NEW v \in Versions,
         NEW i \in DOMAIN fs
  PROVE  LET p == PlaceOf(fs, v, i)
             e == fs[i].editor IN
         /\ p \in Int /\ e \in Nat
         /\ p > 0 => e = p
         /\ p < 0 => e = -p
         /\ p = 0 => e = 0
         /\ e \in {0} \cup Live(v) => p = e
         /\ e \notin {0} \cup Live(v) => p \notin {0} \cup Live(v)
<1> DEFINE e == fs[i].editor
<1>1. i \in Int /\ e \in Nat
  BY Sizes, FormTyped DEF GoodForms, GoodForm
<1>2. Live(v) \subseteq Nat /\ 0 \notin Live(v)
  BY Packaged DEF Live, Rows
<1>3. (i > 0 => e = i) /\ (i < 0 => e = -i)
  BY DEF PlacedIn
<1>4. CASE e \in {0} \cup Live(v)
  BY <1>1, <1>4 DEF PlaceOf
<1>5. CASE e \notin {0} \cup Live(v)
  <2>1. PlaceOf(fs, v, i) = IF i = 0 THEN -e ELSE i
    BY <1>5 DEF PlaceOf, KeptAt
  <2>2. e # 0
    BY <1>5
  <2> HIDE DEF e
  <2>3. CASE i = 0
    <3>1. -e < 0 /\ -e \in Int /\ e = -(-e)
      BY <1>1, <2>2
    <3> QED
      BY <2>1, <2>3, <3>1, <1>2, <1>5 DEF e
  <2>4. CASE i # 0
    <3>1. i > 0 \/ i < 0
      BY <1>1, <2>4
    <3> QED
      BY <2>1, <2>4, <3>1, <1>1, <1>2, <1>3, <1>5 DEF e
  <2> QED
    BY <2>3, <2>4
<1> QED
  BY <1>4, <1>5

\* Of forms that each hold the text of another editor, none is left out.
LEMMA AllTaken ==
  ASSUME Rows, NEW k \in Nat, NEW fs, GoodForms(fs, k), GoodStore(store), PlacedIn(fs), Sole(fs),
         NEW v \in Versions, NEW kept, NEW i \in DOMAIN fs, Dirty(fs[i])
  PROVE  LET p == PlaceOf(fs, v, i) IN
         p \in DOMAIN Page(fs, v, kept) /\ TakenFrom(Page(fs, v, kept)[p], fs[i])
<1>1. PICK p, e : p = PlaceOf(fs, v, i) /\ e = fs[i].editor
  OBVIOUS
<1>2. /\ p \in Int /\ e \in Nat
      /\ p > 0 => e = p
      /\ p < 0 => e = -p
      /\ p = 0 => e = 0
      /\ e \in {0} \cup Live(v) => p = e
      /\ e \notin {0} \cup Live(v) => p \notin {0} \cup Live(v)
  BY <1>1, PlaceOfEditor
<1>3. p \in DOMAIN Page(fs, v, kept)
  <2>1. CASE e \in {0} \cup Live(v)
    BY <2>1, <1>2 DEF Page
  <2>2. CASE e \notin {0} \cup Live(v)
    <3>1. i \in WithoutPlace(fs, v) /\ p = KeptAt(fs, i)
      BY <2>2, <1>1 DEF WithoutPlace, PlaceOf
    <3> QED
      BY <3>1 DEF Page
  <2> QED
    BY <2>1, <2>2
<1>4. PICK g : g = Page(fs, v, kept)[p]
  OBVIOUS
<1>5. ~(p \in {0} \cup Live(v) /\ DirtyFormsOf(fs, p) = {})
  BY <1>1, <1>2 DEF DirtyFormsOf
<1>6. PICK j \in DOMAIN fs : Dirty(fs[j]) /\ p = PlaceOf(fs, v, j) /\ TakenFrom(g, fs[j])
  BY <1>3, <1>4, <1>5, PageFrom
<1>7. fs[j].editor = e
  <2>1. PICK d : d = fs[j].editor
    OBVIOUS
  <2>2. /\ d \in Nat
        /\ p > 0 => d = p
        /\ p < 0 => d = -p
        /\ p = 0 => d = 0
    BY <1>6, <2>1, PlaceOfEditor
  <2> QED
    BY <1>2, <2>1, <2>2
<1>8. j = i
  BY <1>1, <1>6, <1>7 DEF Sole
<1> QED
  BY <1>1, <1>3, <1>4, <1>6, <1>8

LEMMA PlacedPage ==
  ASSUME Rows, NEW k \in Nat, NEW fs, GoodForms(fs, k), GoodStore(store), PlacedIn(fs),
         NEW v \in Versions, NEW kept
  PROVE  PlacedIn(Page(fs, v, kept))
<1> SUFFICES ASSUME NEW p \in DOMAIN Page(fs, v, kept)
             PROVE  LET e == Page(fs, v, kept)[p].editor IN
                    (p > 0 => e = p) /\ (p < 0 => e = -p)
  BY DEF PlacedIn
<1>1. PICK g : g = Page(fs, v, kept)[p]
  OBVIOUS
<1>2. CASE p \in {0} \cup Live(v) /\ g.editor = p
  <2>1. p \in Nat
    BY <1>2, Packaged DEF Live, Rows
  <2> QED
    BY <2>1, <1>1, <1>2
<1>3. CASE \E i \in DOMAIN fs : p = PlaceOf(fs, v, i) /\ TakenFrom(g, fs[i])
  <2>1. PICK i \in DOMAIN fs : p = PlaceOf(fs, v, i) /\ TakenFrom(g, fs[i])
    BY <1>3
  <2>2. (p > 0 => fs[i].editor = p) /\ (p < 0 => fs[i].editor = -p)
    BY <2>1, PlaceOfEditor
  <2> QED
    BY <1>1, <2>1, <2>2 DEF TakenFrom
<1> QED
  BY <1>1, <1>2, <1>3, PageFrom

\* A page has one form of each editor, if there was no more unsaved text of it.
LEMMA OneEditor ==
  ASSUME Rows, NEW k \in Nat, NEW fs, GoodForms(fs, k), GoodStore(store), PlacedIn(fs), Sole(fs),
         NEW v \in Versions, NEW kept,
         NEW p \in DOMAIN Page(fs, v, kept), NEW q \in DOMAIN Page(fs, v, kept),
         Page(fs, v, kept)[p].editor = Page(fs, v, kept)[q].editor
  PROVE  p = q
<1>1. PICK g, h : g = Page(fs, v, kept)[p] /\ h = Page(fs, v, kept)[q]
  OBVIOUS
<1>2. \/ p \in {0} \cup Live(v) /\ DirtyFormsOf(fs, p) = {} /\ g.editor = p
      \/ \E i \in DOMAIN fs : Dirty(fs[i]) /\ p = PlaceOf(fs, v, i) /\ TakenFrom(g, fs[i])
  BY <1>1, PageFrom
<1>3. \/ q \in {0} \cup Live(v) /\ DirtyFormsOf(fs, q) = {} /\ h.editor = q
      \/ \E i \in DOMAIN fs : Dirty(fs[i]) /\ q = PlaceOf(fs, v, i) /\ TakenFrom(h, fs[i])
  BY <1>1, PageFrom
<1>4. g.editor = h.editor
  BY <1>1
<1>5. ASSUME NEW i \in DOMAIN fs, Dirty(fs[i]), NEW r \in {0} \cup Live(v),
             DirtyFormsOf(fs, r) = {}
      PROVE  fs[i].editor # r
  BY <1>5 DEF DirtyFormsOf
<1> QED
  BY <1>2, <1>3, <1>4, <1>5 DEF TakenFrom, Sole

\* What is kept of the page is what is kept of the forms it took over.
LEMMA StorePage ==
  ASSUME Rows, NEW k \in Nat, NEW fs, GoodForms(fs, k), GoodStore(store), PlacedIn(fs), Sole(fs),
         CopiesIn(fs, store), NEW v \in Versions, NEW kept
  PROVE  \A who : CopiesIn(Page(fs, v, kept), StoreOf(fs, Page(fs, v, kept), who))
<1> SUFFICES ASSUME NEW who, NEW page, page = Page(fs, v, kept),
                    NEW p \in DOMAIN page, Dirty(page[p])
             PROVE  LET copy == StoreOf(fs, page, who)[page[p].editor] IN
                    copy = CopyOf(page[p]) \/ ~copy.own
  BY DEF CopiesIn
<1>1. GoodForms(page, k)
  BY GoodPage
<1>2. PICK e : e = page[p].editor
  OBVIOUS
<1>3. e \in Editors
  BY <1>1, <1>2, FormTyped DEF GoodForms, GoodForm
<1>4. \A q \in DOMAIN page : page[q].editor = e => q = p
  BY <1>2, OneEditor
<1> DEFINE touched == {i \in DOMAIN page : /\ page[i].editor = e
                                           /\ Followed(page[i], who) \/ DirtyFormsOf(fs, e) = {}}
<1>5. StoreOf(fs, page, who)[e] =
        IF touched = {} THEN store[e] ELSE CopyOf(page[CHOOSE i \in touched : TRUE])
  BY <1>3 DEF StoreOf
<1>6. touched \subseteq {p}
  BY <1>4
<1>7. CASE touched # {}
  <2>1. (CHOOSE i \in touched : TRUE) \in touched
    BY <1>7
  <2> HIDE DEF touched
  <2>2. (CHOOSE i \in touched : TRUE) = p
    BY <2>1, <1>6
  <2> QED
    BY <1>2, <1>5, <1>7, <2>2
<1>8. CASE touched = {}
  <2>1. DirtyFormsOf(fs, e) # {}
    BY <1>2, <1>8
  <2>2. ~(DirtyFormsOf(fs, p) = {} /\ page[p].editor = p)
    BY <1>2, <2>1
  <2>3. PICK i \in DOMAIN fs : Dirty(fs[i]) /\ TakenFrom(page[p], fs[i])
    BY <2>2, PageFrom
  <2>4. fs[i].editor = e /\ CopyOf(page[p]) = CopyOf(fs[i])
    BY <1>2, <2>3, TakenSame DEF TakenFrom
  <2>5. store[e] = CopyOf(fs[i]) \/ ~store[e].own
    BY <2>3, <2>4 DEF CopiesIn
  <2> QED
    BY <1>2, <1>5, <1>8, <2>4, <2>5
<1> QED
  BY <1>7, <1>8

LEMMA OneOnPage ==
  ASSUME Rows, NEW k \in Nat, NEW fs, GoodForms(fs, k), GoodStore(store),
         \A i, j \in DOMAIN fs : fs[i].inflight /\ fs[j].inflight => i = j,
         NEW v \in Versions, NEW kept,
         NEW p \in DOMAIN Page(fs, v, kept), NEW q \in DOMAIN Page(fs, v, kept),
         Page(fs, v, kept)[p].inflight, Page(fs, v, kept)[q].inflight
  PROVE  p = q
<1>1. PICK i \in DOMAIN fs : p = PlaceOf(fs, v, i) /\ fs[i].inflight
  BY PageFrom
<1>2. PICK j \in DOMAIN fs : q = PlaceOf(fs, v, j) /\ fs[j].inflight
  BY PageFrom
<1> QED
  BY <1>1, <1>2

\* The forms a view shows are those of its page; none sends when nothing is sent.
LEMMA ViewShows ==
  ASSUME Rows, NEW k \in Nat, NEW fs, GoodForms(fs, k), GoodStore(store), NEW v \in Versions,
         NEW panel, NEW pause, NEW who, Adopt(fs, v, panel, pause, who)
  PROVE  \E page :
           /\ page = Page(fs, v, stored') /\ DOMAIN forms' = DOMAIN page
           /\ store' = StoreOf(fs, page, who)
           /\ \A p \in DOMAIN page :
                /\ TakenFrom(forms'[p], page[p])
                /\ forms'[p].inflight => page[p].inflight /\ fetch'.phase # "idle"
<1>1. PICK page : page = Page(fs, v, stored')
  OBVIOUS
<1>2. forms' = [i \in DOMAIN page |->
                   [page[i] EXCEPT !.inflight = @ /\ fetch'.phase # "idle",
                                   !.unrefreshed = @ /\ reread'.phase # "none"]]
      /\ store' = StoreOf(fs, page, who)
  BY <1>1 DEF Adopt
<1>3. ASSUME NEW p \in DOMAIN page
      PROVE  /\ TakenFrom(forms'[p], page[p])
             /\ forms'[p].inflight => page[p].inflight /\ fetch'.phase # "idle"
  <2>1. page[p] \in Forms
    BY <1>1, GoodPage DEF GoodForms, GoodForm
  <2>2. PICK b \in BOOLEAN, u \in BOOLEAN :
          b = (page[p].inflight /\ fetch'.phase # "idle")
          /\ u = (page[p].unrefreshed /\ reread'.phase # "none")
    OBVIOUS
  <2>3. forms'[p] = [page[p] EXCEPT !.inflight = b, !.unrefreshed = u]
    BY <1>2, <2>2
  <2>4. /\ forms'[p].editor = page[p].editor /\ forms'[p].text = page[p].text
        /\ forms'[p].baseline = page[p].baseline /\ forms'[p].version = page[p].version
        /\ forms'[p].inflight = b
    BY <2>1, <2>3 DEF Forms
  <2> QED
    BY <2>2, <2>4 DEF TakenFrom
<1> QED
  BY <1>1, <1>2, <1>3

LEMMA ViewPlaced ==
  ASSUME Rows, NEW k \in Nat, NEW fs, GoodForms(fs, k), GoodStore(store), PlacedIn(fs),
         NEW v \in Versions, NEW panel, NEW pause, NEW who, Adopt(fs, v, panel, pause, who)
  PROVE  /\ PlacedIn(forms')
         /\ Sole(fs) /\ CopiesIn(fs, store) => CopiesIn(forms', store') /\ ~Twins(forms')
<1>1. PICK kept : kept = stored'
  OBVIOUS
<1>2. PICK page :
        /\ page = Page(fs, v, kept) /\ DOMAIN forms' = DOMAIN page
        /\ store' = StoreOf(fs, page, who)
        /\ \A p \in DOMAIN page : TakenFrom(forms'[p], page[p])
  BY <1>1, ViewShows
<1>3. GoodForms(page, k) /\ PlacedIn(page)
  BY <1>2, GoodPage, PlacedPage
<1>4. PlacedIn(forms')
  BY <1>2, <1>3 DEF PlacedIn, TakenFrom
<1>5. ASSUME Sole(fs), CopiesIn(fs, store)
      PROVE  CopiesIn(forms', store') /\ ~Twins(forms')
  <2>1. CopiesIn(page, StoreOf(fs, page, who))
    BY <1>2, <1>5, StorePage
  <2>2. CopiesIn(forms', store')
    <3> SUFFICES ASSUME NEW p \in DOMAIN page, Dirty(forms'[p])
                 PROVE  LET copy == store'[forms'[p].editor] IN
                        copy = CopyOf(forms'[p]) \/ ~copy.own
      BY <1>2 DEF CopiesIn
    <3>1. /\ Dirty(page[p]) /\ CopyOf(forms'[p]) = CopyOf(page[p])
          /\ forms'[p].editor = page[p].editor
      BY <1>2, TakenSame DEF TakenFrom
    <3> QED
      BY <2>1, <3>1, <1>2 DEF CopiesIn
  <2>3. ASSUME NEW p \in DOMAIN page, NEW q \in DOMAIN page, forms'[p].editor = forms'[q].editor
        PROVE  p = q
    <3>1. page[p].editor = page[q].editor
      BY <1>2, <2>3 DEF TakenFrom
    <3> QED
      BY <3>1, <1>2, <1>5, OneEditor
  <2>4. \A p \in DOMAIN page : ~(p < p)
    BY <1>3, Sizes DEF GoodForms
  <2> QED
    BY <1>2, <2>2, <2>3, <2>4 DEF Twins
<1> QED
  BY <1>4, <1>5

\* A view of a page in whose forms ft is being sent.
LEMMA ViewSends ==
  ASSUME Rows, NEW k \in Nat, NEW fs, GoodForms(fs, k), GoodStore(store),
         NEW v \in Versions, NEW panel, NEW pause, NEW who, Adopt(fs, v, panel, pause, who),
         fetch'.phase = "idle" \/ OneSender(fs, fetch')
  PROVE  OneSender(forms', fetch')
<1>1. PICK kept, ft : kept = stored' /\ ft = fetch'
  OBVIOUS
<1>2. PICK page :
        /\ page = Page(fs, v, kept) /\ DOMAIN forms' = DOMAIN page
        /\ \A p \in DOMAIN page :
             /\ TakenFrom(forms'[p], page[p])
             /\ forms'[p].inflight => page[p].inflight /\ ft.phase # "idle"
  BY <1>1, ViewShows
<1>3. CASE ft.phase = "idle"
  BY <1>1, <1>2, <1>3 DEF OneSender
<1>4. CASE OneSender(fs, ft)
  <2>1. ASSUME NEW p \in DOMAIN page, NEW q \in DOMAIN page, forms'[p].inflight, forms'[q].inflight
        PROVE  p = q
    BY <1>2, <1>4, <2>1, OneOnPage DEF OneSender
  <2>2. ASSUME NEW p \in DOMAIN page, forms'[p].inflight
        PROVE  /\ ft.phase # "idle" /\ ~ft.detached
               /\ ft.phase \in Unanswered => forms'[p].editor = ft.cmd.editor
    <3>1. PICK i \in DOMAIN fs : TakenFrom(page[p], fs[i]) /\ fs[i].inflight
      BY <1>2, <2>2, PageFrom
    <3>2. forms'[p].editor = fs[i].editor
      BY <1>2, <3>1 DEF TakenFrom
    <3> QED
      BY <3>1, <3>2, <1>4 DEF OneSender
  <2> QED
    BY <1>1, <1>2, <2>1, <2>2 DEF OneSender
<1> QED
  BY <1>1, <1>3, <1>4

\* Forms in their places that send no more than before.
Calmer(gs, fs) ==
  /\ DOMAIN gs \subseteq DOMAIN fs
  /\ \A i \in DOMAIN gs :
       gs[i].editor = fs[i].editor /\ (gs[i].inflight => fs[i].inflight)

LEMMA CalmerSends ==
  ASSUME NEW fs, NEW gs, Calmer(gs, fs)
  PROVE  /\ PlacedIn(fs) => PlacedIn(gs)
         /\ \A ft : OneSender(fs, ft) => OneSender(gs, ft)
<1>1. PlacedIn(fs) => PlacedIn(gs)
  BY DEF Calmer, PlacedIn
<1>2. \A ft : OneSender(fs, ft) => OneSender(gs, ft)
  BY DEF Calmer, OneSender
<1> QED
  BY <1>1, <1>2

LEMMA SentFrom ==
  ASSUME CInv, Idle, NEW i \in DOMAIN forms, NEW f, forms' = [forms EXCEPT ![i] = f],
         f.editor = forms[i].editor, fetch'.phase = "sent", fetch'.cmd.editor = f.editor,
         ~fetch'.detached
  PROVE  PlacedIn(forms') /\ OneSender(forms', fetch')
<1>1. \A j \in DOMAIN forms : ~forms[j].inflight
  BY DEF CInv, OneSender, Idle
<1>2. /\ DOMAIN forms' = DOMAIN forms /\ forms'[i] = f
      /\ \A j \in DOMAIN forms : j # i => forms'[j] = forms[j]
  OBVIOUS
<1>3. PlacedIn(forms')
  BY <1>2 DEF CInv, PlacedIn
<1>4. OneSender(forms', fetch')
  BY <1>1, <1>2 DEF OneSender
<1> QED
  BY <1>3, <1>4

\* What a page sends names the editor of the form it was sent from.
LEMMA FormSent ==
  ASSUME BInv, NEW i \in DOMAIN forms, NEW f, GoodForm(f, keys), SendForm(i, f)
  PROVE  \E g : /\ Put(i, g) /\ TakenFrom(g, f) /\ (InUse(g) /\ g.inflight)
                /\ fetch'.phase = "sent" /\ fetch'.cmd.editor = g.editor /\ ~fetch'.detached
<1> DEFINE named == IF f.key = 0 THEN [f EXCEPT !.key = keys + 1] ELSE f
           g == [named EXCEPT !.inflight = TRUE]
<1>1. named.key \in Keys /\ Put(i, g) /\ Dispatch(Freeze(named), FALSE)
  BY DEF SendForm
<1>2. f \in Forms
  BY DEF GoodForm
<1>3. /\ named \in Forms /\ TakenFrom(named, f)
  <2>1. CASE f.key = 0
    <3>1. named = [f EXCEPT !.key = keys + 1] /\ keys + 1 \in Keys
      BY <1>1, <1>2, <2>1 DEF Forms
    <3> QED
      BY <3>1, <1>2 DEF Forms, TakenFrom
  <2>2. CASE f.key # 0
    BY <2>2, <1>2 DEF TakenFrom
  <2> QED
    BY <2>1, <2>2
<1> HIDE DEF named
<1>4. TakenFrom(g, named) /\ g.inflight
  BY <1>3 DEF Forms, TakenFrom
<1> HIDE DEF g
<1>5. fetch'.phase = "sent" /\ fetch'.cmd.editor = named.editor /\ ~fetch'.detached
  BY <1>1 DEF Dispatch, Freeze, NoFetch
<1> QED
  BY <1>1, <1>3, <1>4, <1>5 DEF TakenFrom, InUse
-----------------------------------------------------------------------------
(***************************************************************************)
(* What is unsaved stays on the page and in its copy.                      *)
(***************************************************************************)
TextStays ==
  ~met' =>
    \A i \in DOMAIN forms : Dirty(forms[i]) =>
      \/ OnPage(forms[i], forms')
      \/ forms[i].editor \notin Live(Version) /\ store'[forms[i].editor] = CopyOf(forms[i])
      \/ Reload /\ ~store[forms[i].editor].own

EInv == CInv /\ DInv

LEMMA FormPlaces ==
  ASSUME BInv
  PROVE  /\ DOMAIN forms \subseteq Int /\ DOMAIN forms \subseteq Places
         /\ \A i \in DOMAIN forms : forms[i].editor \in Editors
         /\ store \in [Editors -> Copies]
<1>1. \A i \in DOMAIN forms : forms[i].editor \in Editors
  BY FormsTyped, FormTyped
<1> QED
  BY <1>1, BInvParts, Sizes DEF GoodForms, GoodStore

\* The author changes one form.
LEMMA EditedKept ==
  ASSUME BInv, DInv, NEW i \in DOMAIN forms, NEW f, f.editor = forms[i].editor,
         InUse(forms[i]) \/ InUse(f), Put(i, f), store' = [store EXCEPT ![f.editor] = CopyOf(f)]
  PROVE  DInv'
<1>1. CASE met'
  BY <1>1 DEF DInv
<1>2. CASE ~met'
  <2>1. ~met /\ ~Twins(forms') /\ forms' = [forms EXCEPT ![i] = f]
    BY <1>2 DEF Put
  <2>2. ~Twins(forms) /\ CopiesIn(forms, store)
    BY <2>1 DEF DInv
  <2>3. /\ DOMAIN forms' = DOMAIN forms /\ forms'[i] = f
        /\ \A j \in DOMAIN forms : j # i => forms'[j] = forms[j]
    BY <2>1
  <2>4. f.editor \in Editors /\ store'[f.editor] = CopyOf(f)
        /\ \A e \in Editors : e # f.editor => store'[e] = store[e]
    BY FormPlaces
  <2>5. ASSUME NEW j \in DOMAIN forms, j # i, forms[j].editor = f.editor
        PROVE  ~Dirty(forms[j])
    <3>1. j < i \/ i < j
      BY <2>5, FormPlaces
    <3>2. CASE j < i
      BY <2>1, <2>2, <2>3, <2>5, <3>2 DEF Twins
    <3>3. CASE i < j
      BY <2>2, <2>5, <3>3 DEF Twins, InUse
    <3> QED
      BY <3>1, <3>2, <3>3
  <2>6. CopiesIn(forms', store')
    <3> SUFFICES ASSUME NEW j \in DOMAIN forms, Dirty(forms'[j])
                 PROVE  LET copy == store'[forms'[j].editor] IN
                        copy = CopyOf(forms'[j]) \/ ~copy.own
      BY <2>3 DEF CopiesIn
    <3>1. CASE j = i
      BY <3>1, <2>3, <2>4
    <3>2. CASE j # i
      <4>1. forms'[j] = forms[j] /\ Dirty(forms[j]) /\ forms[j].editor # f.editor
        BY <3>2, <2>3, <2>5
      <4>2. forms[j].editor \in Editors
        BY FormPlaces
      <4> QED
        BY <4>1, <4>2, <2>2, <2>4 DEF CopiesIn
    <3> QED
      BY <3>1, <3>2
  <2> QED
    BY <2>1, <2>6 DEF DInv
<1> QED
  BY <1>1, <1>2

LEMMA TakenStays ==
  ASSUME DOMAIN forms \subseteq DOMAIN forms',
         \A i \in DOMAIN forms : TakenFrom(forms'[i], forms[i])
  PROVE  TextStays
BY DEF TakenFrom, TextStays, OnPage

\* One form sends or is compared.
LEMMA TakenKept ==
  ASSUME DInv, NEW i \in DOMAIN forms, NEW f, TakenFrom(f, forms[i]),
         Put(i, f), store' = store
  PROVE  DInv' /\ TextStays
<1>1. /\ forms' = [forms EXCEPT ![i] = f] /\ DOMAIN forms' = DOMAIN forms
      /\ forms'[i] = f /\ \A j \in DOMAIN forms : j # i => forms'[j] = forms[j]
  BY DEF Put
<1>2. \A j \in DOMAIN forms : TakenFrom(forms'[j], forms[j])
  BY <1>1 DEF TakenFrom
<1>3. DInv'
  <2>1. CASE met'
    BY <2>1 DEF DInv
  <2>2. CASE ~met'
    <3>1. CopiesIn(forms, store) /\ ~Twins(forms')
      BY <2>2 DEF DInv, Put
    <3>2. CopiesIn(forms', store')
      BY <1>1, <1>2, <3>1, TakenSame DEF CopiesIn, TakenFrom
    <3> QED
      BY <3>1, <3>2 DEF DInv
  <2> QED
    BY <2>1, <2>2
<1> QED
  BY <1>1, <1>2, <1>3, TakenStays

\* A copy is the one there was, that of a form in use, or one an answer to a
\* detached form left.
StoreCalm ==
  \A e \in Editors :
    \/ store'[e] = store[e] \/ ~store'[e].own
    \/ \E i \in DOMAIN forms :
         InUse(forms[i]) /\ forms[i].editor = e /\ store'[e] = CopyOf(forms[i])

LEMMA StoreStays ==
  ASSUME BInv, CopiesIn(forms, store), ~Twins(forms), StoreCalm
  PROVE  CopiesIn(forms, store')
<1> SUFFICES ASSUME NEW j \in DOMAIN forms, Dirty(forms[j])
             PROVE  LET copy == store'[forms[j].editor] IN
                    copy = CopyOf(forms[j]) \/ ~copy.own
  BY DEF CopiesIn
<1>1. PICK e \in Editors : e = forms[j].editor
  BY FormPlaces
<1>2. store[e] = CopyOf(forms[j]) \/ ~store[e].own
  BY <1>1 DEF CopiesIn
<1>3. ASSUME NEW i \in DOMAIN forms, InUse(forms[i]), forms[i].editor = e
      PROVE  i = j
  <2>1. InUse(forms[j])
    BY DEF InUse
  <2>2. i = j \/ i < j \/ j < i
    BY FormPlaces
  <2> QED
    BY <1>1, <1>3, <2>1, <2>2 DEF Twins
<1> QED
  BY <1>1, <1>2, <1>3 DEF StoreCalm

\* Forms with the text they had, none in use that was not.
LEMMA CalmKept ==
  ASSUME BInv, CInv, DInv, DOMAIN forms' = DOMAIN forms,
         \A i \in DOMAIN forms :
           /\ TakenFrom(forms'[i], forms[i])
           /\ forms'[i].inflight => forms[i].inflight
           /\ forms'[i].panel = forms[i].panel /\ forms'[i].gone = forms[i].gone,
         OneSender(forms', fetch'), StoreCalm, met' = met
  PROVE  EInv' /\ TextStays
<1>1. PlacedIn(forms')
  BY DEF CInv, PlacedIn, TakenFrom
<1>2. \A i \in DOMAIN forms : InUse(forms'[i]) => InUse(forms[i])
  BY TakenSame DEF InUse
<1>3. Twins(forms') => Twins(forms)
  BY <1>2 DEF Twins, TakenFrom
<1>4. CopiesIn(forms, store) /\ ~Twins(forms) => CopiesIn(forms', store')
  <2>1. CopiesIn(forms, store') => CopiesIn(forms', store')
    BY TakenSame DEF CopiesIn, TakenFrom
  <2> QED
    BY <2>1, StoreStays
<1> QED
  BY <1>1, <1>3, <1>4, TakenStays DEF EInv, CInv, DInv

\* Steps that leave the forms alone.
LEMMA FormsStay ==
  ASSUME BInv, CInv, DInv, forms' = forms, StoreCalm, met' = met, OneSender(forms, fetch')
  PROVE  EInv' /\ TextStays
<1>1. \A i \in DOMAIN forms : TakenFrom(forms[i], forms[i])
  BY DEF TakenFrom
<1> QED
  BY <1>1, CalmKept

LEMMA SameStore ==
  ASSUME store' = store
  PROVE  StoreCalm
BY DEF StoreCalm

LEMMA Onwards ==
  ASSUME CInv, fetch'.phase # "idle", fetch'.cmd = fetch.cmd, fetch'.detached = fetch.detached,
         fetch'.phase \in Unanswered => fetch.phase \in Unanswered
  PROVE  OneSender(forms, fetch')
BY DEF CInv, OneSender

LEMMA EditedKeeps ==
  ASSUME BInv, EInv, NEW i \in DOMAIN forms, NEW f, Edited(i, f), InUse(forms[i]) \/ InUse(f)
  PROVE  EInv'
<1>1. /\ f.editor = forms[i].editor /\ f.inflight = forms[i].inflight /\ Put(i, f)
      /\ store' = [store EXCEPT ![f.editor] = CopyOf(f)] /\ fetch' = fetch
  BY DEF Edited, Marked
<1>2. DInv'
  BY <1>1, EditedKept DEF EInv
<1>3. Calmer(forms', forms)
  BY <1>1 DEF Put, Calmer
<1>4. CInv'
  BY <1>1, <1>3, CalmerSends DEF EInv, CInv
<1> QED
  BY <1>2, <1>4 DEF EInv

LEMMA SaveMineKeeps ==
  ASSUME BInv, EInv, NEW i \in DOMAIN forms, SaveMine(i)
  PROVE  EInv'
<1>1. InUse(forms[i])
  BY DEF SaveMine, InUse
<1>2. CASE Edited(i, Mine(forms[i]))
  BY <1>1, <1>2, EditedKeeps
<1>3. CASE /\ Idle /\ SendForm(i, Mine(forms[i])) /\ GoodForm(Mine(forms[i]), keys)
           /\ Mine(forms[i]).editor = forms[i].editor /\ store' = Marked(Mine(forms[i]))
  <2>1. PICK f : f = Mine(forms[i])
    OBVIOUS
  <2>2. SendForm(i, f) /\ GoodForm(f, keys) /\ f.editor = forms[i].editor /\ store' = Marked(f)
    BY <1>3, <2>1
  <2>3. PICK g : /\ Put(i, g) /\ TakenFrom(g, f) /\ InUse(g)
                 /\ fetch'.phase = "sent" /\ fetch'.cmd.editor = g.editor /\ ~fetch'.detached
    BY <2>2, FormSent
  <2>4. g.editor = forms[i].editor /\ store' = [store EXCEPT ![g.editor] = CopyOf(g)]
    BY <2>2, <2>3, TakenSame DEF TakenFrom, Marked
  <2>5. DInv'
    BY <2>3, <2>4, EditedKept DEF EInv
  <2>6. CInv'
    BY <1>3, <2>3, <2>4, SentFrom DEF EInv, CInv, Put
  <2> QED
    BY <2>5, <2>6 DEF EInv
<1> QED
  BY <1>2, <1>3, AuthorEdits

LEMMA DiscardRetainedKeeps ==
  ASSUME BInv, EInv, NEW i \in DOMAIN forms, DiscardRetained(i)
  PROVE  EInv'
<1>1. forms' = [j \in DOMAIN forms \ {i} |-> forms[j]]
  BY DEF DiscardRetained, Restrict
<1>2. /\ forms[i].gone /\ store' = [store EXCEPT ![forms[i].editor] = NoCopy]
      /\ fetch' = fetch /\ met' = met
  BY DEF DiscardRetained
<1>3. Calmer(forms', forms) /\ \A j \in DOMAIN forms' : j \in DOMAIN forms /\ forms'[j] = forms[j]
  BY <1>1 DEF Calmer
<1>4. CInv'
  BY <1>2, <1>3, CalmerSends DEF EInv, CInv
<1>5. ASSUME ~met, ~Twins(forms), CopiesIn(forms, store)
      PROVE  CopiesIn(forms', store') /\ ~Twins(forms')
  <2>1. ASSUME NEW j \in DOMAIN forms', Dirty(forms[j])
        PROVE  forms[j].editor # forms[i].editor
    <3>1. j \in DOMAIN forms /\ j # i
      BY <1>1
    <3>2. j < i \/ i < j
      BY <3>1, FormPlaces
    <3> QED
      BY <3>1, <3>2, <2>1, <1>2, <1>5 DEF Twins, InUse
  <2>2. ASSUME NEW j \in DOMAIN forms', Dirty(forms'[j])
        PROVE  LET copy == store'[forms'[j].editor] IN copy = CopyOf(forms'[j]) \/ ~copy.own
    <3>1. forms'[j] = forms[j] /\ j \in DOMAIN forms /\ forms[j].editor # forms[i].editor
      BY <1>3, <2>1, <2>2
    <3>2. forms[j].editor \in Editors
      BY <3>1, FormPlaces
    <3>3. store'[forms[j].editor] = store[forms[j].editor]
      BY <3>1, <3>2, <1>2, FormPlaces
    <3> QED
      BY <3>1, <3>3, <1>5, <2>2 DEF CopiesIn
  <2>3. ~Twins(forms')
    BY <1>3, <1>5 DEF Twins
  <2> QED
    BY <2>2, <2>3 DEF CopiesIn
<1> QED
  BY <1>2, <1>4, <1>5 DEF EInv, DInv

LEMMA AuthorKeeps ==
  ASSUME BInv, EInv, Author
  PROVE  EInv'
<1>1. ASSUME NEW i \in DOMAIN forms, NEW t \in Texts, Type(i, t)
      PROVE  EInv'
  <2>1. PICK f : f = [forms[i] EXCEPT !.text = t]
    OBVIOUS
  <2>2. forms[i] \in Forms /\ Edited(i, f)
    BY <1>1, <2>1, FormsTyped, AuthorEdits
  <2>3. f.text = t /\ f.baseline = forms[i].baseline /\ t # forms[i].text
    BY <1>1, <2>1, <2>2 DEF Type, Forms
  <2>4. InUse(forms[i]) \/ InUse(f)
    BY <2>3 DEF InUse, Dirty
  <2> QED
    BY <2>2, <2>4, EditedKeeps
<1>2. ASSUME NEW i \in DOMAIN forms, Discard(i)
      PROVE  EInv'
  <2>1. InUse(forms[i])
    BY <1>2 DEF Discard, InUse
  <2> QED
    BY <1>2, <2>1, AuthorEdits, EditedKeeps
<1>3. ASSUME NEW i \in DOMAIN forms, UseCurrent(i)
      PROVE  EInv'
  <2>1. InUse(forms[i])
    BY <1>3 DEF UseCurrent, InUse
  <2> QED
    BY <1>3, <2>1, AuthorEdits, EditedKeeps
<1>4. ASSUME NEW i \in DOMAIN forms, Combine(i)
      PROVE  EInv'
  <2>1. InUse(forms[i])
    BY <1>4 DEF Combine, InUse
  <2> QED
    BY <1>4, <2>1, AuthorEdits, EditedKeeps
<1> QED
  BY <1>1, <1>2, <1>3, <1>4, SaveMineKeeps, DiscardRetainedKeeps DEF Author

LEMMA SendKeeps ==
  ASSUME BInv, EInv, Send
  PROVE  EInv' /\ TextStays
<1>1. ASSUME NEW i \in DOMAIN forms, Submit(i)
      PROVE  EInv' /\ TextStays
  <2>1. PICK f : f = forms[i]
    OBVIOUS
  <2>2. Idle /\ SendForm(i, f) /\ GoodForm(f, keys) /\ store' = store
    BY <1>1, <2>1, FormsTyped DEF Submit
  <2>3. PICK g : /\ Put(i, g) /\ TakenFrom(g, f)
                 /\ fetch'.phase = "sent" /\ fetch'.cmd.editor = g.editor /\ ~fetch'.detached
    BY <2>2, FormSent
  <2>4. DInv' /\ TextStays
    BY <2>1, <2>2, <2>3, TakenKept DEF EInv
  <2>5. g.editor = forms[i].editor /\ forms' = [forms EXCEPT ![i] = g]
    BY <2>1, <2>3 DEF TakenFrom, Put
  <2>6. CInv'
    BY <2>2, <2>3, <2>5, SentFrom DEF EInv, CInv
  <2> QED
    BY <2>4, <2>6 DEF EInv
<1>2. ASSUME NEW i \in DOMAIN forms, Retry(i)
      PROVE  EInv' /\ TextStays
  <2>1. PICK g, c : g = [forms[i] EXCEPT !.inflight = TRUE] /\ c = stored[forms[i].editor]
    OBVIOUS
  <2>2. Idle /\ c # NoCommand /\ Put(i, g) /\ Dispatch(c, TRUE) /\ store' = store
    BY <1>2, <2>1 DEF Retry
  <2>3. forms[i] \in Forms
    BY FormsTyped
  <2>4. TakenFrom(g, forms[i])
    BY <2>1, <2>3 DEF Forms, TakenFrom
  <2>5. c.editor = forms[i].editor
    BY <2>1, <2>2, FormPlaces, BInvParts DEF GoodStored
  <2>6. fetch'.phase = "sent" /\ fetch'.cmd = c /\ ~fetch'.detached
    BY <2>2 DEF Dispatch, NoFetch
  <2>7. DInv' /\ TextStays
    BY <2>2, <2>4, TakenKept DEF EInv
  <2>8. CInv'
    BY <2>2, <2>4, <2>5, <2>6, SentFrom DEF EInv, CInv, Put, TakenFrom
  <2> QED
    BY <2>7, <2>8 DEF EInv
<1>3. ASSUME Idle, client' = client, fetch'.phase = "sent"
      PROVE  EInv' /\ TextStays
  <2>1. \A j \in DOMAIN forms : ~forms[j].inflight
    BY <1>3 DEF EInv, CInv, OneSender, Idle
  <2>2. OneSender(forms, fetch')
    BY <2>1 DEF OneSender
  <2> QED
    BY <1>3, <2>2, FormsStay, SameStore DEF EInv, client
<1>4. ASSUME RetryOrphan \/ ResendOrphan
      PROVE  EInv' /\ TextStays
  BY <1>3, <1>4 DEF RetryOrphan, ResendOrphan, Dispatch, NoFetch
<1>5. ASSUME RetryRefresh
      PROVE  EInv' /\ TextStays
  BY <1>5, FormsStay, SameStore DEF RetryRefresh, EInv, CInv, client
<1> QED
  BY <1>1, <1>2, <1>4, <1>5 DEF Send
-----------------------------------------------------------------------------
(***************************************************************************)
(* Answers, failures and what happens elsewhere.                           *)
(***************************************************************************)
LEMMA ServerKeeps ==
  ASSUME BInv, EInv, Server \/ ServerRejects
  PROVE  EInv' /\ TextStays
<1>1. client' = client /\ fetch'.cmd = fetch.cmd /\ fetch'.phase # "idle"
      /\ fetch'.detached = fetch.detached
      /\ (fetch'.phase \in Unanswered => fetch.phase \in Unanswered)
  <2>1. fetch \in Fetches
    BY BInvParts DEF GoodFetch
  <2>2. CASE ServerExecutes
    <3> DEFINE c == fetch.cmd
    <3>1. fetch.phase = "sent" /\ client' = client
      BY <2>2 DEF ServerExecutes
    <3> HIDE DEF c
    <3>2. CASE \E p, a : fetch' = [fetch EXCEPT !.phase = "committed", !.page = p, !.action = a]
      <4>1. PICK p, a : fetch' = [fetch EXCEPT !.phase = "committed", !.page = p, !.action = a]
        BY <3>2
      <4>2. fetch'.cmd = fetch.cmd /\ fetch'.phase = "committed"
            /\ fetch'.detached = fetch.detached
        BY <4>1, <2>1 DEF Fetches
      <4> QED
        BY <4>2, <3>1 DEF Unanswered
    <3>3. ASSUME NEW t, NEW r, NEW ph, ph # "idle",
                 fetch' = [fetch EXCEPT !.text = t, !.removed = r, !.phase = ph]
          PROVE  /\ client' = client /\ fetch'.cmd = fetch.cmd /\ fetch'.phase # "idle"
                 /\ fetch'.detached = fetch.detached
                 /\ fetch'.phase \in Unanswered => fetch.phase \in Unanswered
      <4>1. fetch'.cmd = fetch.cmd /\ fetch'.phase = ph /\ fetch'.detached = fetch.detached
        BY <3>3, <2>1 DEF Fetches
      <4> QED
        BY <3>3, <4>1, <3>1 DEF Unanswered
    <3>4. CASE fetch' = [fetch EXCEPT !.phase = "committed", !.page = Version + 1,
                           !.action = IF c.editor = 0 THEN Len(PackageAt(Version)) + 1 ELSE c.editor]
      BY <3>2, <3>4
    <3>5. CASE \E v \in ClaimedBy(c) :
                 fetch' = [fetch EXCEPT !.phase = "committed", !.page = v,
                             !.action = EditorNamed(c, v)]
      BY <3>2, <3>5
    <3>6. CASE LET current == ScopeAt(Version, c.editor) IN
                 /\ Outcome(c) \in {"conflict", "key_conflict", "invalid"}
                 /\ fetch' = [fetch EXCEPT !.text = current.text, !.removed = current.removed,
                                !.phase = IF Outcome(c) = "conflict" THEN "refused" ELSE Outcome(c)]
      <4>1. PICK ph : ph = IF Outcome(c) = "conflict" THEN "refused" ELSE Outcome(c)
        OBVIOUS
      <4>2. ph # "idle"
        BY <3>6, <4>1
      <4>3. PICK t, r : fetch' = [fetch EXCEPT !.text = t, !.removed = r, !.phase = ph]
        BY <3>6, <4>1
      <4> QED
        BY <3>3, <4>2, <4>3
    <3> QED
      BY <2>2, <3>4, <3>5, <3>6 DEF ServerExecutes, c
  <2>3. CASE ServerReads
    BY <2>1, <2>3 DEF ServerReads, Unanswered, Fetches
  <2>4. CASE RefreshRead
    BY <2>1, <2>4 DEF RefreshRead, Unanswered, Fetches
  <2>5. CASE ServerRejects
    BY <2>1, <2>5 DEF ServerRejects, Unanswered, Fetches
  <2> QED
    BY <2>2, <2>3, <2>4, <2>5 DEF Server
<1>2. OneSender(forms, fetch')
  BY <1>1, Onwards DEF EInv
<1> QED
  BY <1>1, <1>2, FormsStay, SameStore DEF EInv, client

LEMMA OthersKeep ==
  ASSUME BInv, EInv, Others \/ \E c \in copies : CopyArrives(c)
  PROVE  EInv' /\ TextStays
<1>1. client' = client /\ fetch' = fetch
  BY DEF Others, SavedElsewhere, RemovedElsewhere, CopyArrives
<1> QED
  BY <1>1, FormsStay, SameStore DEF EInv, CInv, client

\* The handler of a sender marks its form, that of a detached one what is no
\* longer its form's.
LEMMA SenderMarkedCalm ==
  ASSUME SenderMarked, store \in [Editors -> Copies]
  PROVE  StoreCalm
<1>1. CASE \E i \in Senders : store' = Marked(forms[i])
  BY <1>1 DEF StoreCalm, Marked, Senders, InUse
<1>2. CASE store' = Overtaken(Marked(fetch.left), {fetch.left.editor})
  <2> SUFFICES ASSUME NEW e \in Editors
               PROVE  store'[e] = store[e] \/ ~store'[e].own
    BY DEF StoreCalm
  <2>1. PICK st : st = Marked(fetch.left)
    OBVIOUS
  <2>2. store'[e] = IF e = fetch.left.editor THEN [st[e] EXCEPT !.own = FALSE] ELSE st[e]
    BY <1>2, <2>1 DEF Overtaken
  <2>3. CASE e # fetch.left.editor
    BY <2>1, <2>2, <2>3 DEF Marked
  <2>4. CASE e = fetch.left.editor
    <3>1. st[e] = CopyOf(fetch.left)
      BY <2>1, <2>4 DEF Marked
    <3>2. "own" \in DOMAIN CopyOf(fetch.left)
      BY DEF CopyOf, NoCopy
    <3> QED
      BY <2>2, <2>4, <3>1, <3>2
  <2> QED
    BY <2>3, <2>4
<1> QED
  BY <1>1, <1>2, SameStore DEF SenderMarked

\* An answer that settles nothing for the form, or none.
LEMMA ReleasesKeep ==
  ASSUME BInv, EInv, Refused \/ FetchFails \/ RefreshFails
  PROVE  EInv' /\ TextStays
<1>1. fetch' = NoFetch /\ met' = met /\ DOMAIN forms' = DOMAIN forms
  BY DEF Refused, FetchFails, RefreshFails
<1>0. StoreCalm
  BY FormPlaces, SameStore, SenderMarkedCalm DEF Refused, FetchFails, RefreshFails
<1>2. ASSUME NEW i \in DOMAIN forms
      PROVE  /\ TakenFrom(forms'[i], forms[i]) /\ ~forms'[i].inflight
             /\ forms'[i].panel = forms[i].panel /\ forms'[i].gone = forms[i].gone
  <2>1. forms[i] \in Forms
    BY FormsTyped
  <2>2. CASE Refused
    <3>1. PICK still, key :
            forms'[i] = IF forms[i].inflight
                          THEN [Answered(forms[i]) EXCEPT !.pending = still, !.key = key]
                          ELSE forms[i]
      BY <2>2 DEF Refused
    <3> QED
      BY <3>1, <2>1 DEF Answered, Forms, TakenFrom
  <2>3. CASE FetchFails
    BY <2>1, <2>3 DEF FetchFails, Forms, TakenFrom
  <2>4. CASE RefreshFails
    <3>1. PICK u : forms'[i] = [forms[i] EXCEPT !.inflight = FALSE, !.unrefreshed = u]
      BY <2>4 DEF RefreshFails
    <3> QED
      BY <2>1, <3>1 DEF Forms, TakenFrom
  <2> QED
    BY <2>2, <2>3, <2>4
<1>3. OneSender(forms', fetch')
  BY <1>1, <1>2 DEF OneSender
<1> QED
  BY <1>0, <1>1, <1>2, <1>3, CalmKept DEF EInv

\* The sender takes the identity of the action and its copy along.
LEMMA AcknowledgedKeeps ==
  ASSUME BInv, EInv, Acknowledged
  PROVE  EInv' /\ TextStays
<1>1. fetch.phase = "committed" /\ fetch' = [NoFetch EXCEPT !.phase = "refreshing"]
  BY DEF Acknowledged
<1>2. fetch'.phase = "refreshing" /\ ~fetch'.detached
  BY <1>1 DEF NoFetch
<1>3. CASE UNCHANGED <<forms, met>> /\ StoreCalm
  <2>1. OneSender(forms, fetch')
    BY <1>2 DEF EInv, CInv, OneSender, Unanswered
  <2> QED
    BY <1>3, <2>1, FormsStay DEF EInv
<1>5. CASE /\ store' = Overtaken(StoreAcknowledged(AcknowledgeEditor(fetch.left)),
                               {fetch.cmd.editor, AcknowledgeEditor(fetch.left).editor})
           /\ UNCHANGED <<forms, met>>
  <2> SUFFICES StoreCalm
    BY <1>3, <1>5
  <2> SUFFICES ASSUME NEW e \in Editors
               PROVE  store'[e] = store[e] \/ ~store'[e].own
    BY DEF StoreCalm
  <2>1. PICK f, d, st : /\ f = AcknowledgeEditor(fetch.left) /\ d = fetch.cmd.editor
                        /\ st = StoreAcknowledged(f)
    OBVIOUS
  <2>2. store'[e] = IF e \in {d, f.editor} THEN [st[e] EXCEPT !.own = FALSE] ELSE st[e]
    BY <1>5, <2>1 DEF Overtaken
  <2>3. st = [store EXCEPT ![d] = NoCopy, ![f.editor] = CopyOf(f)]
    BY <2>1 DEF StoreAcknowledged
  <2>4. CASE e \notin {d, f.editor}
    BY <2>2, <2>3, <2>4, FormPlaces
  <2>5. CASE e \in {d, f.editor}
    <3>1. st[e] = NoCopy \/ st[e] = CopyOf(f)
      BY <2>3, <2>5, FormPlaces
    <3>2. "own" \in DOMAIN st[e]
      BY <3>1 DEF CopyOf, NoCopy
    <3> QED
      BY <2>2, <2>5, <3>2
  <2> QED
    BY <2>4, <2>5
<1>4. CASE \E i \in Senders : Put(i, AcknowledgeEditor(forms[i]))
                                /\ store' = StoreAcknowledged(AcknowledgeEditor(forms[i]))
  <2>1. PICK i \in Senders : Put(i, AcknowledgeEditor(forms[i]))
                                /\ store' = StoreAcknowledged(AcknowledgeEditor(forms[i]))
    BY <1>4
  <2>2. PICK f, e : f = AcknowledgeEditor(forms[i]) /\ e = fetch.cmd.editor
    OBVIOUS
  <2>3. i \in DOMAIN forms /\ forms[i].inflight /\ forms[i] \in Forms /\ forms[i].editor = e
    BY <1>1, <2>1, <2>2, FormsTyped DEF Senders, EInv, CInv, OneSender, Unanswered
  <2>4. f.editor = fetch.action /\ f.text = forms[i].text /\ f.inflight
    BY <2>2, <2>3 DEF AcknowledgeEditor, Forms
  <2>5. /\ forms' = [forms EXCEPT ![i] = f] /\ DOMAIN forms' = DOMAIN forms /\ forms'[i] = f
        /\ \A j \in DOMAIN forms : j # i => forms'[j] = forms[j]
        /\ store' = [store EXCEPT ![e] = NoCopy, ![f.editor] = CopyOf(f)]
    <3>1. Put(i, f) /\ store' = StoreAcknowledged(f)
      BY <2>1, <2>2
    <3>2. forms' = [forms EXCEPT ![i] = f]
      BY <3>1 DEF Put
    <3>3. store' = [store EXCEPT ![e] = NoCopy, ![f.editor] = CopyOf(f)]
      BY <3>1, <2>2 DEF StoreAcknowledged
    <3> QED
      BY <3>2, <3>3, <2>3
  <2>6. e \in {0, f.editor} /\ e \in Editors /\ f.editor \in Editors
    <3>1. fetch \in Fetches /\ Named(fetch)
      BY <1>1, BInvParts DEF GoodFetch
    <3> QED
      BY <3>1, <2>2, <2>4 DEF Named, Fetches, Commands
  <2>7. (i > 0 => e = i) /\ (i < 0 => e = -i) /\ i \in Int
    BY <2>3, FormPlaces DEF EInv, CInv, PlacedIn
  <2>8. i # 0 => e = f.editor
    <3>1. i # 0 => e # 0
      BY <2>7
    <3> QED
      BY <2>6, <3>1
  <2>9. PlacedIn(forms')
    BY <2>5, <2>7, <2>8 DEF EInv, CInv, PlacedIn
  <2>10. OneSender(forms', fetch')
    BY <1>2, <2>3, <2>4, <2>5 DEF EInv, CInv, OneSender, Unanswered
  <2>11. TextStays
    BY <2>3, <2>4, <2>5, <2>6 DEF TextStays, OnPage
  <2>12. ASSUME ~met'
         PROVE  CopiesIn(forms', store') /\ ~Twins(forms')
    <3>1. ~met /\ ~Twins(forms') /\ CopiesIn(forms, store)
      BY <2>1, <2>12 DEF Put, EInv, DInv
    <3>2. ASSUME NEW j \in DOMAIN forms, j # i, Dirty(forms[j])
          PROVE  forms[j].editor # f.editor /\ forms[j].editor # e
      <4>1. forms[j].editor # f.editor
        <5>1. j < i \/ i < j
          BY <3>2, <2>3, FormPlaces
        <5> QED
          BY <5>1, <3>1, <3>2, <2>3, <2>4, <2>5 DEF Twins, InUse
      <4>2. CASE e = 0
        <5>1. i = 0
          BY <4>2, <2>7
        <5>2. j \in Int /\ (j > 0 => forms[j].editor = j) /\ (j < 0 => forms[j].editor = -j)
          BY FormPlaces DEF EInv, CInv, PlacedIn
        <5>3. j > 0 \/ j < 0
          BY <5>1, <5>2, <3>2
        <5>4. forms[j].editor # 0
          BY <5>2, <5>3
        <5> QED
          BY <4>1, <4>2, <5>4
      <4>3. CASE e = f.editor
        BY <4>1, <4>3
      <4> QED
        BY <4>2, <4>3, <2>6
    <3>3. store'[f.editor] = CopyOf(f)
      BY <2>5, <2>6, FormPlaces
    <3>4. ASSUME NEW j \in DOMAIN forms, Dirty(forms'[j])
          PROVE  LET copy == store'[forms'[j].editor] IN copy = CopyOf(forms'[j]) \/ ~copy.own
      <4>1. CASE j = i
        BY <4>1, <2>5, <3>3
      <4>2. CASE j # i
        <5>1. forms'[j] = forms[j] /\ forms[j].editor # f.editor /\ forms[j].editor # e
              /\ forms[j].editor \in Editors
          BY <4>2, <2>5, <3>2, <3>4, FormPlaces
        <5>2. store'[forms[j].editor] = store[forms[j].editor]
          BY <5>1, <2>5, FormPlaces
        <5> QED
          BY <5>1, <5>2, <3>1, <3>4 DEF CopiesIn
      <4> QED
        BY <4>1, <4>2
    <3> QED
      BY <3>1, <3>4, <2>5 DEF CopiesIn
  <2> QED
    BY <2>9, <2>10, <2>11, <2>12 DEF EInv, CInv, DInv
<1> QED
  BY <1>3, <1>4, <1>5, SameStore DEF Acknowledged
-----------------------------------------------------------------------------
(***************************************************************************)
(* A page that is shown keeps what was on the one before it.               *)
(***************************************************************************)
LEMMA ViewKeeps ==
  ASSUME BInv, EInv, NEW fs, GoodForms(fs, keys), DOMAIN fs = DOMAIN forms,
         \A i \in DOMAIN forms : TakenFrom(fs[i], forms[i]),
         NEW v \in Versions, NEW panel, NEW pause, NEW who, Adopt(fs, v, panel, pause, who),
         met' = met, OneSender(forms', fetch')
  PROVE  EInv' /\ TextStays
<1>1. Rows /\ keys \in Nat /\ GoodStore(store)
  BY BInvParts
<1>2. PlacedIn(fs)
  BY DEF EInv, CInv, PlacedIn, TakenFrom
<1>3. ASSUME ~met
      PROVE  Sole(fs) /\ CopiesIn(fs, store)
  <2>1. Sole(forms) /\ CopiesIn(forms, store)
    BY <1>3, FormPlaces, SoleWithoutTwins DEF EInv, DInv
  <2>2. \A i \in DOMAIN forms : /\ Dirty(fs[i]) <=> Dirty(forms[i])
                                /\ CopyOf(fs[i]) = CopyOf(forms[i])
                                /\ fs[i].editor = forms[i].editor
    BY TakenSame DEF TakenFrom
  <2> QED
    BY <2>1, <2>2 DEF Sole, CopiesIn
<1>4. PlacedIn(forms') /\ (~met => CopiesIn(forms', store') /\ ~Twins(forms'))
  BY <1>1, <1>2, <1>3, ViewPlaced
<1>6. ASSUME ~met, NEW i \in DOMAIN forms, Dirty(forms[i])
      PROVE  OnPage(forms[i], forms')
  <2>1. PICK kept : kept = stored'
    OBVIOUS
  <2>2. PICK page : /\ page = Page(fs, v, kept) /\ DOMAIN forms' = DOMAIN page
                    /\ \A p \in DOMAIN page : TakenFrom(forms'[p], page[p])
    BY <2>1, <1>1, ViewShows
  <2>3. i \in DOMAIN fs /\ Dirty(fs[i]) /\ Sole(fs)
    BY <1>3, <1>6, TakenSame
  <2>4. PICK p \in DOMAIN page : TakenFrom(page[p], fs[i])
    BY <1>1, <1>2, <2>2, <2>3, AllTaken
  <2>5. forms'[p].text = forms[i].text /\ forms'[p].editor = forms[i].editor
    BY <2>2, <2>3, <2>4 DEF TakenFrom
  <2> QED
    BY <2>2, <2>5 DEF OnPage
<1> QED
  BY <1>4, <1>6 DEF EInv, CInv, DInv, TextStays

\* A comparison changes nothing of what the author wrote.
LEMMA ComparedTaken ==
  ASSUME NEW f \in Forms
  PROVE  TakenFrom(Compared(f), f) /\ ~Compared(f).inflight
<1> DEFINE a == Answered(f)
<1>1. PICK panel, target : Compared(f) = [a EXCEPT !.panel = panel, !.target = target]
  BY DEF Compared
<1>2. a \in Forms /\ TakenFrom(a, f) /\ ~a.inflight
  BY DEF Answered, Forms, TakenFrom
<1> HIDE DEF a
<1>3. PICK g : g = [a EXCEPT !.panel = panel, !.target = target]
  OBVIOUS
<1>4. /\ g.editor = a.editor /\ g.text = a.text /\ g.baseline = a.baseline
      /\ g.version = a.version /\ g.inflight = a.inflight
  BY <1>2, <1>3 DEF Forms
<1> QED
  BY <1>1, <1>2, <1>3, <1>4 DEF TakenFrom

LEMMA ConflictShownKeeps ==
  ASSUME BInv, EInv, ConflictShown
  PROVE  EInv' /\ TextStays
<1>1. fetch.phase = "conflict" /\ fetch' = NoFetch /\ fetch'.phase = "idle"
  BY DEF ConflictShown, NoFetch
<1>2. CASE \E panel : Adopt(WithoutPending, fetch.page, panel, FALSE, "nobody") /\ met' = met
  <2>1. PICK panel : Adopt(WithoutPending, fetch.page, panel, FALSE, "nobody") /\ met' = met
    BY <1>2
  <2>2. ASSUME NEW i \in DOMAIN forms
        PROVE  LET g == WithoutPending[i] IN
               /\ g \in Forms /\ g.editor = forms[i].editor
               /\ g.version = forms[i].version /\ g.target = forms[i].target
               /\ g.panel = forms[i].panel /\ g.key \in {0, forms[i].key}
               /\ TakenFrom(g, forms[i])
    <3>1. forms[i] \in Forms
      BY FormsTyped
    <3> QED
      BY <3>1 DEF Forms, WithoutPending, TakenFrom
  <2>3. /\ WithoutPending = [i \in DOMAIN forms |-> WithoutPending[i]]
        /\ DOMAIN WithoutPending = DOMAIN forms
    BY DEF WithoutPending
  <2>4. GoodForms(WithoutPending, keys)
    BY <2>2, <2>3, GoodMarks
  <2>5. fetch.page \in Versions
    BY BInvParts DEF GoodFetch, Fetches
  <2>6. PICK fs : fs = WithoutPending
    OBVIOUS
  <2>7. OneSender(forms', fetch')
    BY <1>1, <2>1, <2>4, <2>5, <2>6, BInvParts, ViewSends
  <2> QED
    BY <2>1, <2>2, <2>3, <2>4, <2>5, <2>6, <2>7, ViewKeeps
<1>4. CASE Senders = {} /\ UNCHANGED <<forms, store, met>>
  <2>1. OneSender(forms, fetch')
    BY <1>4 DEF OneSender, Senders
  <2> QED
    BY <1>4, <2>1, FormsStay, SameStore DEF EInv
<1>3. CASE (\E i \in Senders : Put(i, Compared(forms[i]))) /\ store' = store
  <2>1. PICK i \in Senders : Put(i, Compared(forms[i]))
    BY <1>3
  <2>2. PICK f : f = Compared(forms[i])
    OBVIOUS
  <2>3. i \in DOMAIN forms /\ forms[i].inflight /\ TakenFrom(f, forms[i]) /\ ~f.inflight
    BY <2>2, FormsTyped, ComparedTaken DEF Senders
  <2>4. DInv' /\ TextStays
    BY <1>3, <2>1, <2>2, <2>3, TakenKept DEF EInv
  <2>5. /\ DOMAIN forms' = DOMAIN forms /\ forms'[i] = f
        /\ \A j \in DOMAIN forms : j # i => forms'[j] = forms[j]
    BY <2>1, <2>2, <2>3 DEF Put
  <2>6. PlacedIn(forms')
    BY <2>3, <2>5 DEF EInv, CInv, PlacedIn, TakenFrom
  <2>7. \A j \in DOMAIN forms : ~forms'[j].inflight
    BY <2>3, <2>5 DEF EInv, CInv, OneSender
  <2>8. OneSender(forms', fetch')
    BY <2>5, <2>7 DEF OneSender
  <2> QED
    BY <2>4, <2>6, <2>8 DEF EInv, CInv
<1> QED
  BY <1>2, <1>3, <1>4 DEF ConflictShown

\* Of a sender that was taken away no form is left that sends; otherwise the one
\* there was is still there.
LEMMA RereadedSends ==
  ASSUME BInv, CInv, Rereaded
  PROVE  /\ OneSender(forms', fetch')
         /\ fetch'.phase = fetch.phase /\ fetch'.cmd = fetch.cmd /\ fetch'.retry = fetch.retry
         /\ fetch.phase \in Unanswered /\ Senders # {} => Senders' # {} \/ fetch'.detached
         /\ fetch' = fetch \/ fetch'.detached
         /\ fetch.detached => fetch' = fetch
<1>1. PICK v, kept, ft : v = reread.page /\ kept = stored' /\ ft = fetch'
  OBVIOUS
<1>2. PICK page : page = Page(forms, v, kept)
  OBVIOUS
<1>3. /\ Adopt(forms, v, orphan, paused, "offerer") /\ stored' = stored
      /\ v \in Versions /\ Rows /\ keys \in Nat /\ GoodForms(forms, keys) /\ GoodStore(store)
      /\ fetch \in Fetches
  BY <1>1, BInvParts DEF Rereaded, GoodFetch, Rereads
<1>4. TakenAway(v) = {i \in Senders : \A p \in DOMAIN page : ~page[p].inflight}
  BY <1>1, <1>2, <1>3 DEF TakenAway
<1>5. /\ DOMAIN forms' = DOMAIN page
      /\ \A p \in DOMAIN page : forms'[p].inflight => page[p].inflight
  BY <1>1, <1>2, <1>3, ViewShows
<1>6. CASE \E i \in TakenAway(v) : ft = [fetch EXCEPT !.detached = TRUE, !.left = forms[i]]
  <2>1. PICK i \in TakenAway(v) : ft = [fetch EXCEPT !.detached = TRUE, !.left = forms[i]]
    BY <1>6
  <2>2. /\ ft.detached /\ ft.phase = fetch.phase /\ ft.cmd = fetch.cmd
        /\ ft.retry = fetch.retry
    BY <1>3, <2>1 DEF Fetches
  <2>7. i \in TakenAway(v)
    BY <2>1
  <2>6. i \in Senders /\ \A p \in DOMAIN page : ~page[p].inflight
    BY <1>1, <1>2, <1>3, <2>7 DEF TakenAway
  <2>3. \A p \in DOMAIN forms' : ~forms'[p].inflight
    BY <1>5, <2>6
  <2>4. OneSender(forms', ft)
    BY <2>3 DEF OneSender
  <2>5. ~fetch.detached
    BY <1>4, <2>1 DEF CInv, OneSender, Senders
  <2> QED
    BY <1>1, <2>2, <2>4, <2>5
<1>7. CASE TakenAway(v) = {} /\ ft = fetch
  <2>1. OneSender(forms', fetch')
    BY <1>1, <1>3, <1>7, ViewSends DEF CInv
  <2>2. ASSUME fetch.phase \in Unanswered, NEW i \in Senders
        PROVE  Senders' # {}
    <3>1. PICK p \in DOMAIN page : page[p].inflight
      BY <1>4, <1>7, <2>2
    <3>2. page[p] \in Forms
      BY <1>2, <1>3, <3>1, GoodPage DEF GoodForms, GoodForm
    <3>3. PICK b, u : /\ b = (page[p].inflight /\ fetch'.phase # "idle")
                      /\ forms'[p] = [page[p] EXCEPT !.inflight = b, !.unrefreshed = u]
      BY <1>1, <1>2, <1>3 DEF Adopt
    <3>4. fetch'.phase # "idle"
      BY <1>1, <1>7, <2>2 DEF Unanswered
    <3>5. forms'[p].inflight
      BY <3>1, <3>2, <3>3, <3>4 DEF Forms
    <3> QED
      BY <1>5, <3>1, <3>5 DEF Senders
  <2> QED
    BY <1>1, <1>7, <2>1, <2>2
<1> QED
  BY <1>1, <1>6, <1>7 DEF Rereaded

LEMMA ViewsKeep ==
  ASSUME BInv, EInv, Refreshed \/ Rereaded
  PROVE  EInv' /\ TextStays
<1>1. fetch.page \in Versions /\ reread.page \in Versions /\ GoodForms(forms, keys)
  BY BInvParts DEF GoodFetch, Fetches, Rereads
<1>2. \A i \in DOMAIN forms : TakenFrom(forms[i], forms[i])
  BY DEF TakenFrom
<1>3. CASE Refreshed
  <2>1. Adopt(forms, fetch.page, orphan, paused, "sender") /\ met' = met
        /\ fetch'.phase = "idle"
    BY <1>3 DEF Refreshed, NoFetch
  <2>2. OneSender(forms', fetch')
    BY <1>1, <2>1, BInvParts, ViewSends
  <2> QED
    BY <1>1, <1>2, <2>1, <2>2, ViewKeeps
<1>4. CASE Rereaded
  <2>1. Adopt(forms, reread.page, orphan, paused, "offerer") /\ met' = met
    BY <1>4 DEF Rereaded
  <2>2. OneSender(forms', fetch')
    BY <1>1, <1>4, RereadedSends DEF EInv
  <2> QED
    BY <1>1, <1>2, <2>1, <2>2, ViewKeeps
<1> QED
  BY <1>3, <1>4

-----------------------------------------------------------------------------
(***************************************************************************)
(* A page that is loaded again restores what was kept.                     *)
(***************************************************************************)
LEMMA RestoredText ==
  ASSUME NEW f \in Forms, NEW kept
  PROVE  LET g == Restored(f, kept) IN
         /\ g.baseline = f.baseline
         /\ g.text = IF store[f.editor].kept THEN store[f.editor].text ELSE f.text
<1> DEFINE copy == store[f.editor]
           back == IF copy.kept
                     THEN [f EXCEPT !.text = copy.text, !.version = copy.version]
                     ELSE f
           g == [back EXCEPT !.pending = kept[f.editor] # NoCommand]
<1>1. /\ DOMAIN back = DOMAIN f /\ back.baseline = f.baseline
      /\ back.text = IF copy.kept THEN copy.text ELSE f.text
  BY DEF Forms
<1>2. DOMAIN f = {"editor", "text", "baseline", "version", "key", "target", "panel",
                  "inflight", "pending", "gone", "unrefreshed"}
  BY DEF Forms
<1> HIDE DEF back
<1>3. g.baseline = back.baseline /\ g.text = back.text
  BY <1>1, <1>2
<1> QED
  BY <1>1, <1>3 DEF Restored, back

\* A page that takes over no form.
LEMMA FreshPage ==
  ASSUME Rows, NEW v \in Versions, NEW kept
  PROVE  /\ DOMAIN Page(NoForms, v, kept) = {0} \cup Live(v)
         /\ \A e \in {0} \cup Live(v) :
              /\ Page(NoForms, v, kept)[e] = Restored(FormOf(e, v), kept)
              /\ FormOf(e, v) \in Forms /\ FormOf(e, v).editor = e /\ ~FormOf(e, v).inflight
              /\ ~Dirty(FormOf(e, v)) /\ \A k \in Nat : GoodForm(FormOf(e, v), k)
<1> DEFINE page == Page(NoForms, v, kept)
<1>1. DOMAIN NoForms = {}
  BY DEF NoForms
<1>2. WithoutPlace(NoForms, v) = {} /\ \A e : DirtyFormsOf(NoForms, e) = {}
  BY <1>1 DEF WithoutPlace, DirtyFormsOf
<1>3. DOMAIN page = {0} \cup Live(v)
  BY <1>2 DEF Page
<1>4. ASSUME NEW e \in {0} \cup Live(v)
      PROVE  /\ page[e] = Restored(FormOf(e, v), kept)
             /\ FormOf(e, v) \in Forms /\ FormOf(e, v).editor = e /\ ~FormOf(e, v).inflight
             /\ ~Dirty(FormOf(e, v)) /\ \A k \in Nat : GoodForm(FormOf(e, v), k)
  <2>1. page[e] = Restored(FormOf(e, v), kept)
    BY <1>2, <1>4 DEF Page, EditorOn
  <2>2. Known(e, v)
    BY <1>4 DEF Known, Live
  <2>3. \A k \in Nat : GoodForm(FormOf(e, v), k)
    BY <2>2, GoodFormOf
  <2>4. FormOf(e, v) \in Forms
    <3>1. GoodForm(FormOf(e, v), 0)
      BY <2>3
    <3> QED
      BY <3>1 DEF GoodForm
  <2> QED
    BY <2>1, <2>2, <2>3, <2>4, GoodFormOf
<1> QED
  BY <1>3, <1>4

\* No form is as good as any.
LEMMA NoneGood ==
  /\ DOMAIN NoForms = {} /\ \A k : GoodForms(NoForms, k)
  /\ PlacedIn(NoForms) /\ Sole(NoForms) /\ \A st : CopiesIn(NoForms, st)
<1>1. DOMAIN NoForms = {} /\ NoForms = [i \in {} |-> NoForms[i]]
  BY DEF NoForms
<1> QED
  BY <1>1 DEF GoodForms, PlacedIn, Sole, CopiesIn

LEMMA ReloadKeeps ==
  ASSUME BInv, EInv, Reload
  PROVE  EInv' /\ TextStays
<1>1. /\ Adopt(NoForms, Version, NoOrphan, FALSE, "nobody") /\ met' = met /\ fetch' = NoFetch
      /\ fetch'.phase = "idle"
  BY DEF Reload, NoFetch
<1>2. Rows /\ revisions \in Seq(Row) /\ keys \in Nat /\ GoodStore(store) /\ Version \in Versions
  BY BInvParts, Packaged
<1>3. /\ PlacedIn(forms')
      /\ CopiesIn(forms', store') /\ ~Twins(forms')
  BY <1>1, <1>2, NoneGood, ViewPlaced
<1>4. OneSender(forms', fetch')
  BY <1>1, <1>2, NoneGood, ViewSends
<1>5. ASSUME ~met, NEW i \in DOMAIN forms, Dirty(forms[i]), store[forms[i].editor].own
      PROVE  \/ OnPage(forms[i], forms')
             \/ forms[i].editor \notin Live(Version) /\ store'[forms[i].editor] = CopyOf(forms[i])
  <2>1. PICK kept, e, v : kept = stored' /\ e = forms[i].editor /\ v = Version
    OBVIOUS
  <2>2. PICK page : /\ page = Page(NoForms, v, kept) /\ DOMAIN forms' = DOMAIN page
                    /\ store' = StoreOf(NoForms, page, "nobody")
                    /\ \A p \in DOMAIN page : TakenFrom(forms'[p], page[p])
    BY <1>1, <1>2, <2>1, NoneGood, ViewShows
  <2>3. e \in Editors /\ store[e] = CopyOf(forms[i])
    BY <1>5, <2>1, FormPlaces DEF EInv, DInv, CopiesIn
  <2>4. store[e].kept /\ store[e].text = forms[i].text
    BY <1>5, <2>3 DEF CopyOf
  <2>5. /\ DOMAIN page = {0} \cup Live(v)
        /\ \A p \in DOMAIN page :
             /\ page[p] = Restored(FormOf(p, v), kept) /\ FormOf(p, v).editor = p
             /\ FormOf(p, v) \in Forms /\ GoodForm(FormOf(p, v), keys)
    <3> DEFINE shown == Page(NoForms, v, kept)
    <3>1. v \in Versions /\ page = shown
      BY <1>2, <2>1, <2>2
    <3>2. DOMAIN shown = {0} \cup Live(v)
      BY <3>1, <1>2, FreshPage
    <3>3. \A p \in {0} \cup Live(v) :
            /\ shown[p] = Restored(FormOf(p, v), kept) /\ FormOf(p, v).editor = p
            /\ FormOf(p, v) \in Forms /\ GoodForm(FormOf(p, v), keys)
      BY <3>1, <1>2, FreshPage, ZenonT(60)
    <3> HIDE DEF shown
    <3> QED
      BY <3>1, <3>2, <3>3
  <2>6. CASE e \in DOMAIN page
    <3>1. page[e].text = forms[i].text
      BY <2>4, <2>5, <2>6, RestoredText
    <3>2. page[e].editor = e
      BY <1>2, <2>5, <2>6, GoodRestored
    <3>3. forms'[e].text = forms[i].text /\ forms'[e].editor = e
      BY <2>2, <2>6, <3>1, <3>2 DEF TakenFrom
    <3> QED
      BY <2>1, <2>2, <2>6, <3>3 DEF OnPage
  <2>7. CASE e \notin DOMAIN page
    <3>1. \A p \in DOMAIN page : page[p].editor # e
      <4> TAKE p \in DOMAIN page
      <4>1. page[p].editor = p
        BY <1>2, <2>5, GoodRestored
      <4> QED
        BY <4>1, <2>7
    <3>2. store'[e] = store[e]
      BY <2>2, <2>3, <3>1 DEF StoreOf
    <3> QED
      BY <2>1, <2>3, <2>5, <2>7, <3>2
  <2> QED
    BY <2>6, <2>7
<1> QED
  BY <1>1, <1>3, <1>4, <1>5 DEF EInv, CInv, DInv, TextStays

LEMMA FirstPage ==
  ASSUME Init
  PROVE  EInv
<1>1. BInv
  BY GoodInit
<1>2. Rows /\ revisions \in Seq(Row) /\ GoodStore(store) /\ Version \in Versions /\ keys \in Nat
  BY <1>1, BInvParts, Packaged
<1>3. PICK page, kept, v :
        /\ forms = page /\ kept = stored /\ v = Version /\ page = Page(NoForms, v, kept)
        /\ v \in Versions
  BY <1>2 DEF Init
<1>4. PlacedIn(page)
  BY <1>2, <1>3, NoneGood, PlacedPage
<1>5. ASSUME NEW p \in DOMAIN page
      PROVE  ~page[p].inflight /\ ~Dirty(page[p])
  <2>1. PICK f : f = FormOf(p, v)
    OBVIOUS
  <2>2. /\ page[p] = Restored(f, kept) /\ f \in Forms /\ ~Dirty(f)
        /\ f.editor = p /\ ~f.inflight /\ GoodForm(f, keys)
    <3> DEFINE shown == Page(NoForms, v, kept)
    <3>1. page = shown /\ p \in {0} \cup Live(v)
      BY <1>2, <1>3, FreshPage
    <3>2. /\ shown[p] = Restored(f, kept) /\ f \in Forms /\ ~Dirty(f)
          /\ f.editor = p /\ ~f.inflight /\ GoodForm(f, keys)
      <4>1. \A e \in {0} \cup Live(v) :
              /\ shown[e] = Restored(FormOf(e, v), kept)
              /\ FormOf(e, v) \in Forms /\ FormOf(e, v).editor = e /\ ~FormOf(e, v).inflight
              /\ ~Dirty(FormOf(e, v)) /\ \A k \in Nat : GoodForm(FormOf(e, v), k)
        BY <1>2, <1>3, FreshPage, ZenonT(60)
      <4> HIDE DEF shown
      <4> QED
        BY <1>2, <2>1, <3>1, <4>1
    <3> HIDE DEF shown
    <3> QED
      BY <3>1, <3>2
  <2>3. ~store[p].kept
    <3>1. f.editor \in Editors
      BY <2>2, FormTyped
    <3> QED
      BY <2>2, <3>1 DEF Init, NoCopy
  <2>4. ~page[p].inflight
    BY <1>2, <2>2, GoodRestored
  <2>5. page[p].text = f.text /\ page[p].baseline = f.baseline
    BY <2>2, <2>3, RestoredText
  <2> QED
    BY <2>2, <2>4, <2>5 DEF Dirty
<1>6. ~Twins(page)
  <2>1. \A p, q \in DOMAIN page : page[p].editor = page[q].editor => p = q
    BY <1>2, <1>3, NoneGood, OneEditor
  <2>2. \A p \in DOMAIN page : ~(p < p)
    BY <1>1, <1>3, FormPlaces
  <2> QED
    BY <2>1, <2>2 DEF Twins
<1> QED
  BY <1>3, <1>4, <1>5, <1>6 DEF EInv, CInv, DInv, OneSender, CopiesIn

LEMMA NextKeeps ==
  ASSUME BInv, EInv, Next
  PROVE  EInv' /\ (Author \/ TextStays)
<1>1. CASE Author
  BY <1>1, AuthorKeeps
<1>2. CASE Send
  BY <1>2, SendKeeps
<1>3. CASE Server
  BY <1>3, ServerKeeps
<1>4. CASE Script
  BY <1>4, AcknowledgedKeeps, ConflictShownKeeps, ReleasesKeep, ViewsKeep DEF Script
<1>5. CASE Faulty
  BY <1>5, ServerKeeps, ReleasesKeep, ReloadKeeps, OthersKeep DEF Faulty
<1>6. CASE Others
  BY <1>6, OthersKeep
<1> QED
  BY <1>1, <1>2, <1>3, <1>4, <1>5, <1>6 DEF Next

LEMMA StillKeeps ==
  ASSUME BInv, EInv, UNCHANGED vars
  PROVE  EInv'
<1>1. forms' = forms /\ store' = store /\ met' = met /\ fetch' = fetch
  BY DEF vars, client
<1> QED
  BY <1>1, FormsStay, SameStore DEF EInv, CInv

LEMMA Keeps == Spec => [](BInv /\ EInv)
<1>1. Init => BInv /\ EInv
  BY GoodInit, FirstPage
<1>2. BInv /\ EInv /\ [Next]_vars => (BInv /\ EInv)'
  <2> SUFFICES ASSUME BInv, EInv, [Next]_vars PROVE BInv' /\ EInv'
    OBVIOUS
  <2>1. BInv'
    BY GoodNext
  <2>2. EInv'
    BY NextKeeps, StillKeeps
  <2> QED
    BY <2>1, <2>2
<1> QED
  BY <1>1, <1>2, PTL DEF Spec

\* Whatever is typed and not saved can be brought back: through creation, lost
\* answers, refreshes, conflicts and removals it is in the recovery copy of the
\* editor its form has by then, unless that copy was last written or erased by
\* the answer to a save whose form a retried refresh had taken off the page.
THEOREM RecoveryIsKept == Spec => []RecoveryKept
<1>1. EInv => RecoveryKept
  BY DEF EInv, DInv, CopiesIn, RecoveryKept
<1> QED
  BY <1>1, Keeps, PTL

\* No answer, refresh or removal takes unsaved text off the page, and a reload
\* only that whose recovery copy the answer to a detached form overtook.
THEOREM UnsavedTextStays == Spec => UnsavedTextIsKept
<1>1. BInv /\ EInv /\ [Next]_vars =>
        [~Author /\ ~met' =>
           \A i \in DOMAIN forms : Dirty(forms[i]) =>
             \/ OnPage(forms[i], forms')
             \/ forms[i].editor \notin Live(Version)
                  /\ store'[forms[i].editor] = CopyOf(forms[i])
             \/ Reload /\ ~store[forms[i].editor].own]_vars
  <2> SUFFICES ASSUME BInv, EInv, Next
               PROVE  Author \/ TextStays
    BY DEF TextStays
  <2> QED
    BY NextKeeps
<1> QED
  BY <1>1, Keeps, PTL DEF Spec, UnsavedTextIsKept

-----------------------------------------------------------------------------
(***************************************************************************)
(* Commands and their keys.                                                *)
(***************************************************************************)
Executed == {revisions[v].cmd : v \in 1 .. Version}

\* What may be executed without the page, or was.
Sent == Executed \cup copies

Waiting == IF fetch.phase \in Unanswered THEN {fetch.cmd} ELSE {}

Held == {stored[e] : e \in Editors} \cup {unknown, orphan.cmd} \cup Waiting

Commanded == Sent \cup Held

\* A key of a form, or one it may go back to.
KeyIn(k, f) == f.key = k \/ f.target.key = k

\* The key is used for a creation, or for an edit.
UsedFor(k, made, fs, cs) ==
  \/ \E c \in cs : c.key = k /\ (c.editor = 0 <=> made)
  \/ \E i \in DOMAIN fs : KeyIn(k, fs[i]) /\ (fs[i].editor = 0 <=> made)

\* Keys are drawn one after the other.
Issued == \A d \in Executed : d.key <= keys

KeysApart ==
  \A k : k # 0 => ~(UsedFor(k, TRUE, forms, Commanded) /\ UsedFor(k, FALSE, forms, Commanded))

-----------------------------------------------------------------------------
(***************************************************************************)
(* The creation that is on its way or offered for retry.                   *)
(***************************************************************************)
Creating == fetch.phase \in Unanswered /\ fetch.cmd.editor = 0

Outstanding == IF Creating THEN fetch.cmd ELSE stored[0]

\* It is its key's only command, also when another is kept beside it, and the
\* first attempt of a creation is not yet anywhere else.
OnItsWay ==
  /\ Outstanding # NoCommand => \A d \in Sent : d.key = Outstanding.key => d = Outstanding
  /\ stored[0] # NoCommand => \A d \in Sent : d.key = stored[0].key => d = stored[0]
  /\ Creating =>
       /\ fetch.phase \in {"sent", "committed", "rejected"}
       /\ fetch.retry => stored[0] = fetch.cmd
       /\ ~fetch.retry => stored[0] = NoCommand \/ stored[0].key # fetch.cmd.key
       /\ ~fetch.retry /\ fetch.phase # "committed" => \A d \in Sent : d.key # fetch.cmd.key

\* A form that creates and offers no retry has no key that was used for anything
\* but the creation it sends itself.
Creator(f) ==
  /\ ~f.panel.open /\ f.target.key = 0
  /\ f.pending /\ f.inflight /\ Creating => fetch.retry
  /\ f.key # 0 /\ ~f.pending =>
       IF Creating THEN f.inflight /\ f.key = fetch.cmd.key
       ELSE stored[0] = NoCommand /\ \A d \in Sent : d.key # f.key

Creators == \A i \in DOMAIN forms : forms[i].editor = 0 => Creator(forms[i])

\* A command no form sent is the one of the panel, and that creates nothing.
Panelled ==
  /\ orphan.pending => orphan.cmd # NoCommand
  /\ orphan.cmd # NoCommand => orphan.cmd.editor # 0
  /\ fetch.phase \in Unanswered /\ SentByPanel =>
       orphan.cmd # NoCommand /\ fetch.cmd.editor = orphan.cmd.editor

\* Creations that can still be executed or were, or that are kept, beside the
\* outstanding one.
Behind ==
  {k \in 1 .. keys : /\ k # Outstanding.key
                     /\ k = stored[0].key \/ \E d \in Sent : d.editor = 0 /\ d.key = k}

FInv ==
  /\ Issued /\ KeysApart /\ OnItsWay /\ Creators /\ Panelled
  /\ Cardinality(Behind) <= told

-----------------------------------------------------------------------------
(***************************************************************************)
(* What a step may do beside the creation.                                 *)
(***************************************************************************)
\* Keys of forms are keys of forms of the same kind before, or drawn for an edit.
KeysKept ==
  \A j \in DOMAIN forms' : \A k : k # 0 /\ KeyIn(k, forms'[j]) =>
    \/ \E i \in DOMAIN forms : KeyIn(k, forms[i]) /\ (forms[i].editor = 0 <=> forms'[j].editor = 0)
    \/ k > keys /\ forms'[j].editor # 0

CreatesAs(g, f) ==
  /\ g.key \in {0, f.key} /\ g.pending = f.pending
  /\ Creating' => g.inflight = f.inflight

CreatorsKept ==
  \A j \in DOMAIN forms' : forms'[j].editor = 0 =>
    /\ ~forms'[j].panel.open /\ forms'[j].target.key = 0
    /\ \/ forms'[j].key = 0 /\ ~forms'[j].inflight
       \/ \E i \in DOMAIN forms : forms[i].editor = 0 /\ CreatesAs(forms'[j], forms[i])

\* A command is one there was, or is made from the form of an action.
CommandsKept ==
  \A c \in Commanded' :
    \/ c.key = 0 \/ c \in Commanded
    \/ /\ c.editor # 0
       /\ c.key > keys \/ \E i \in DOMAIN forms : forms[i].editor # 0 /\ KeyIn(c.key, forms[i])

LEMMA InFlight ==
  ASSUME BInv, CInv, FInv
  PROVE  /\ stored[0] # NoCommand => stored[0].editor = 0 /\ stored[0].key \in 1 .. keys
         /\ Creating => /\ GoodCommand(fetch.cmd, keys) /\ fetch.cmd.key \in 1 .. keys
                        /\ fetch.cmd # NoCommand /\ Outstanding = fetch.cmd
                        /\ \/ fetch.detached
                           \/ \E i \in DOMAIN forms : i \in Senders /\ forms[i].editor = 0
         /\ ~Creating => Outstanding = stored[0]
         /\ Outstanding # NoCommand => Outstanding.editor = 0 /\ Outstanding.key \in 1 .. keys
         /\ stored[0] \in Commanded /\ (fetch.phase \in Unanswered => fetch.cmd \in Commanded)
         /\ Sent \subseteq Commanded /\ Outstanding \in Commanded \cup {NoCommand}
<1>1. 0 \in Editors /\ NoCommand.key = 0
  BY Sizes DEF NoCommand
<1>2. GoodStored(stored, keys)
  BY BInvParts
<1>3. stored[0] # NoCommand => stored[0].editor = 0 /\ stored[0].key \in 1 .. keys
  BY <1>1, <1>2 DEF GoodStored, GoodCommand
<1>4. Creating => GoodCommand(fetch.cmd, keys)
  BY BInvParts DEF Creating, GoodFetch
<1>5. Creating => fetch.cmd.key \in 1 .. keys /\ fetch.cmd # NoCommand
  BY <1>1, <1>4 DEF GoodCommand
<1>6. Creating => fetch.detached \/ \E i \in DOMAIN forms : i \in Senders /\ forms[i].editor = 0
  <2> SUFFICES ASSUME Creating, ~fetch.detached
               PROVE  \E i \in DOMAIN forms : i \in Senders /\ forms[i].editor = 0
    OBVIOUS
  <2>1. PICK i \in Senders : TRUE
    BY DEF FInv, Panelled, Creating, SentByPanel
  <2>2. forms[i].editor = fetch.cmd.editor
    BY DEF CInv, OneSender, Senders, Creating
  <2> QED
    BY <2>2 DEF Creating, Senders
<1>7. /\ stored[0] \in Commanded /\ Sent \subseteq Commanded
      /\ fetch.phase \in Unanswered => fetch.cmd \in Commanded
  BY <1>1 DEF Commanded, Held, Waiting
<1> QED
  BY <1>3, <1>4, <1>5, <1>6, <1>7 DEF Outstanding, Creating

LEMMA NoneDrawn ==
  ASSUME BInv, FInv
  PROVE  /\ \A c \in Commanded : c.key \in Nat /\ c.key <= keys
         /\ \A i \in DOMAIN forms : \A k : KeyIn(k, forms[i]) => k \in Nat /\ k <= keys
         /\ keys \in Nat
<1>1. keys \in Nat /\ revisions \in Seq(Row)
  BY BInvParts
<1>2. NoCommand.key = 0
  BY DEF NoCommand
<1>3. \A c : MaybeGood(c, keys) => c.key \in Nat /\ c.key <= keys
  BY <1>1, <1>2 DEF MaybeGood, GoodCommand
<1>4. ASSUME NEW c \in Held
      PROVE  c.key \in Nat /\ c.key <= keys
  <2>1. CASE \E e \in Editors : c = stored[e]
    BY <2>1, <1>3, BInvParts DEF GoodStored, MaybeGood
  <2>2. CASE c = unknown \/ c = orphan.cmd
    BY <2>2, <1>3, BInvParts
  <2>3. CASE fetch.phase \in Unanswered /\ c = fetch.cmd
    BY <2>3, <1>3, BInvParts DEF GoodFetch, MaybeGood
  <2> QED
    BY <2>1, <2>2, <2>3 DEF Held, Waiting
<1>5. ASSUME NEW c \in Sent
      PROVE  c.key \in Nat /\ c.key <= keys
  <2>1. CASE c \in copies
    BY <2>1, <1>3, BInvParts DEF GoodCopies, MaybeGood
  <2>2. CASE c \in Executed
    <3>1. c.key <= keys
      BY <2>2 DEF FInv, Issued
    <3>2. PICK v \in 1 .. Version : c = revisions[v].cmd
      BY <2>2 DEF Executed
    <3>3. c \in Commands
      BY <3>2, <1>1, Packaged DEF Row
    <3> QED
      BY <3>1, <3>3, Sizes DEF Commands, Keys
  <2> QED
    BY <2>1, <2>2 DEF Sent
<1>6. ASSUME NEW i \in DOMAIN forms, NEW k, KeyIn(k, forms[i])
      PROVE  k \in Nat /\ k <= keys
  <2>1. GoodForm(forms[i], keys)
    BY BInvParts DEF GoodForms
  <2> QED
    BY <2>1, <1>1, <1>6 DEF GoodForm, KeyIn
<1> QED
  BY <1>1, <1>4, <1>5, <1>6 DEF Commanded

\* Keys are used for what they were used for, or are new and used for one thing.
LEMMA ApartNext ==
  ASSUME BInv, FInv, NEW m \in BOOLEAN,
         \A k : \A made \in BOOLEAN :
           k # 0 /\ UsedFor(k, made, forms', Commanded') =>
             UsedFor(k, made, forms, Commanded) \/ (k > keys /\ made = m)
  PROVE  KeysApart'
<1> SUFFICES ASSUME NEW k, k # 0, UsedFor(k, TRUE, forms', Commanded'),
                    UsedFor(k, FALSE, forms', Commanded')
             PROVE  FALSE
  BY DEF KeysApart
<1>1. \A made \in BOOLEAN : UsedFor(k, made, forms, Commanded) => ~(k > keys)
  BY NoneDrawn DEF UsedFor
<1>2. ~(UsedFor(k, TRUE, forms, Commanded) /\ UsedFor(k, FALSE, forms, Commanded))
  BY DEF FInv, KeysApart
<1> QED
  BY <1>1, <1>2

LEMMA ApartStays ==
  ASSUME BInv, FInv, KeysKept, CommandsKept
  PROVE  KeysApart'
<1>1. ASSUME NEW k, k # 0, NEW made \in BOOLEAN, UsedFor(k, made, forms', Commanded')
      PROVE  UsedFor(k, made, forms, Commanded) \/ (k > keys /\ made = FALSE)
  <2>1. CASE \E c \in Commanded' : c.key = k /\ (c.editor = 0 <=> made)
    <3>1. PICK c \in Commanded' : c.key = k /\ (c.editor = 0 <=> made)
      BY <2>1
    <3>2. CASE c \in Commanded
      BY <3>1, <3>2 DEF UsedFor
    <3>3. CASE c.editor # 0 /\ c.key > keys
      BY <3>1, <3>3
    <3>4. CASE \E i \in DOMAIN forms : c.editor # 0 /\ forms[i].editor # 0 /\ KeyIn(c.key, forms[i])
      BY <3>1, <3>4 DEF UsedFor, KeyIn
    <3> QED
      BY <1>1, <3>1, <3>2, <3>3, <3>4 DEF CommandsKept
  <2>2. CASE \E j \in DOMAIN forms' : KeyIn(k, forms'[j]) /\ (forms'[j].editor = 0 <=> made)
    <3>1. PICK j \in DOMAIN forms' : KeyIn(k, forms'[j]) /\ (forms'[j].editor = 0 <=> made)
      BY <2>2
    <3>2. CASE \E i \in DOMAIN forms : KeyIn(k, forms[i]) /\ (forms[i].editor = 0 <=> forms'[j].editor = 0)
      BY <3>1, <3>2 DEF UsedFor
    <3>3. CASE k > keys /\ forms'[j].editor # 0
      BY <3>1, <3>3
    <3> QED
      BY <1>1, <3>1, <3>2, <3>3 DEF KeysKept
  <2> QED
    BY <1>1, <2>1, <2>2 DEF UsedFor
<1> QED
  BY <1>1, ApartNext

\* Keys of creations are not those of commands or forms of actions.
LEMMA ApartFrom ==
  ASSUME KeysApart, NEW c \in Commanded, c.editor = 0, c.key # 0
  PROVE  /\ \A d \in Commanded : d.editor # 0 => d.key # c.key
         /\ \A i \in DOMAIN forms : forms[i].editor # 0 => forms[i].key # c.key
BY DEF KeysApart, UsedFor, KeyIn

LEMMA CreatorApart ==
  ASSUME KeysApart, NEW i \in DOMAIN forms, forms[i].editor = 0, forms[i].key # 0
  PROVE  \A d \in Commanded : d.editor # 0 => d.key # forms[i].key
BY DEF KeysApart, UsedFor, KeyIn

LEMMA BehindCounted ==
  ASSUME BInv
  PROVE  IsFiniteSet(Behind) /\ Cardinality(Behind) \in Nat
<1>1. keys \in Nat
  BY BInvParts
<1>2. IsFiniteSet(1 .. keys) /\ Behind \subseteq 1 .. keys
  BY <1>1, FS_Interval DEF Behind
<1> QED
  BY <1>2, FS_Subset, FS_CardinalityType

LEMMA BehindStays ==
  ASSUME BInv, Cardinality(Behind) <= told, Behind' \subseteq Behind, told' = told, told \in Nat
  PROVE  Cardinality(Behind') <= told'
<1>1. Cardinality(Behind') <= Cardinality(Behind) /\ Cardinality(Behind') \in Nat
  BY BehindCounted, FS_Subset, FS_CardinalityType
<1> QED
  BY <1>1, BehindCounted

LEMMA BehindGrows ==
  ASSUME BInv, Cardinality(Behind) <= told, NEW k, Behind' \subseteq Behind \cup {k},
         told' = told + 1, told \in Nat
  PROVE  Cardinality(Behind') <= told'
<1>1. PICK S, n : S = Behind /\ n = Cardinality(S)
  OBVIOUS
<1>2. IsFiniteSet(S) /\ n \in Nat /\ n <= told
  BY <1>1, BehindCounted
<1>3. IsFiniteSet(S \cup {k})
  BY <1>2, FS_AddElement
<1>4. Cardinality(S \cup {k}) = n \/ Cardinality(S \cup {k}) = n + 1
  BY <1>1, <1>2, FS_AddElement
<1>5. PICK T : T = Behind'
  OBVIOUS
<1>6. T \subseteq S \cup {k}
  BY <1>1, <1>5
<1>7. Cardinality(T) <= Cardinality(S \cup {k}) /\ Cardinality(T) \in Nat
  BY <1>3, <1>6, FS_Subset, FS_CardinalityType
<1>8. Cardinality(T) <= told'
  BY <1>2, <1>4, <1>7
<1> QED
  BY <1>5, <1>8

\* One takes the place of another.
LEMMA BehindMoves ==
  ASSUME BInv, Cardinality(Behind) <= told, NEW k, NEW j \in Behind,
         Behind' \subseteq (Behind \ {j}) \cup {k}, told' = told, told \in Nat
  PROVE  Cardinality(Behind') <= told'
<1>1. PICK S, n : S = Behind /\ n = Cardinality(S)
  OBVIOUS
<1>2. IsFiniteSet(S) /\ n \in Nat /\ n <= told /\ j \in S
  BY <1>1, BehindCounted
<1>3. PICK L : L = S \ {j}
  OBVIOUS
<1>4. IsFiniteSet(L) /\ Cardinality(L) = n - 1
  BY <1>1, <1>2, <1>3, FS_RemoveElement
<1>5. IsFiniteSet(L \cup {k})
  BY <1>4, FS_AddElement
<1>6. Cardinality(L \cup {k}) = n - 1 \/ Cardinality(L \cup {k}) = n
  <2>1. Cardinality(L \cup {k}) \in {Cardinality(L), Cardinality(L) + 1}
    BY <1>4, FS_AddElement
  <2> QED
    BY <2>1, <1>2, <1>4
<1>7. PICK T : T = Behind'
  OBVIOUS
<1>8. T \subseteq L \cup {k}
  BY <1>1, <1>3, <1>7
<1>9. Cardinality(T) <= Cardinality(L \cup {k}) /\ Cardinality(T) \in Nat
  BY <1>5, <1>8, FS_Subset, FS_CardinalityType
<1>10. Cardinality(T) <= told'
  BY <1>2, <1>6, <1>9
<1> QED
  BY <1>7, <1>10

\* The command in flight is the one it was.
SameFlight == fetch'.phase = fetch.phase /\ fetch'.cmd = fetch.cmd /\ fetch'.retry = fetch.retry

\* A step that leaves the creation as it is.
Aside ==
  /\ KeysKept /\ CreatorsKept /\ CommandsKept
  /\ stored'[0] = stored[0] /\ (Creating' <=> Creating) /\ (Creating => SameFlight)
  /\ told' = told /\ keys' \in Nat /\ keys <= keys'
  /\ \A d \in Sent' : d.key = 0 \/ d \in Sent \/ (d \in Commanded /\ d.editor # 0)

\* Commands that are executed have keys that were drawn.
LEMMA IssuedStays ==
  ASSUME BInv, FInv, keys' \in Nat, keys <= keys',
         \A d \in Executed' : d.key = 0 \/ d \in Commanded
  PROVE  Issued'
BY NoneDrawn DEF Issued

LEMMA AsideKeeps ==
  ASSUME BInv, CInv, FInv, Aside
  PROVE  Issued' /\ KeysApart' /\ OnItsWay' /\ Creators' /\ Cardinality(Behind') <= told'
<1>0. Issued'
  <2>1. \A d \in Executed' : d.key = 0 \/ d \in Commanded
    BY InFlight DEF Aside, Sent
  <2> QED
    BY <2>1, IssuedStays DEF Aside
<1>1. KeysApart'
  BY ApartStays DEF Aside
<1>2. Outstanding' = Outstanding
  BY DEF Aside, SameFlight, Outstanding
<1>3. ASSUME NEW c \in {Outstanding, stored[0]}, c # NoCommand, NEW d \in Sent', d.key = c.key
      PROVE  d \in Sent
  <2>1. c.editor = 0 /\ c.key # 0 /\ c \in Commanded
    <3>1. CASE c = stored[0]
      BY <1>3, <3>1, InFlight
    <3>2. CASE c = Outstanding
      BY <1>3, <3>2, InFlight
    <3> QED
      BY <3>1, <3>2
  <2>2. \A b \in Commanded : b.editor # 0 => b.key # c.key
    BY <2>1, ApartFrom DEF FInv
  <2> QED
    BY <1>3, <2>1, <2>2 DEF Aside
<1>4. OnItsWay'
  <2>1. Outstanding' # NoCommand => \A d \in Sent' : d.key = Outstanding'.key => d = Outstanding'
    BY <1>2, <1>3 DEF FInv, OnItsWay
  <2>2. stored'[0] # NoCommand => \A d \in Sent' : d.key = stored'[0].key => d = stored'[0]
    BY <1>3 DEF FInv, OnItsWay, Aside
  <2>3. ASSUME Creating
        PROVE  /\ fetch'.phase \in {"sent", "committed", "rejected"}
               /\ fetch'.retry => stored'[0] = fetch'.cmd
               /\ ~fetch'.retry => stored'[0] = NoCommand \/ stored'[0].key # fetch'.cmd.key
               /\ ~fetch'.retry /\ fetch'.phase # "committed" =>
                    \A d \in Sent' : d.key # fetch'.cmd.key
    <3>1. SameFlight /\ stored'[0] = stored[0] /\ Outstanding = fetch.cmd /\ fetch.cmd # NoCommand
      BY <2>3, InFlight DEF Aside
    <3> QED
      BY <2>3, <3>1, <1>3 DEF FInv, OnItsWay, SameFlight
  <2> QED
    BY <2>1, <2>2, <2>3 DEF OnItsWay, Aside
<1>5. Creators'
  <2> SUFFICES ASSUME NEW j \in DOMAIN forms', forms'[j].editor = 0
               PROVE  /\ ~forms'[j].panel.open /\ forms'[j].target.key = 0
                      /\ forms'[j].pending /\ forms'[j].inflight /\ Creating' => fetch'.retry
                      /\ forms'[j].key # 0 /\ ~forms'[j].pending =>
                           IF Creating' THEN forms'[j].inflight /\ forms'[j].key = fetch'.cmd.key
                           ELSE stored'[0] = NoCommand /\ \A d \in Sent' : d.key # forms'[j].key
    BY DEF Creators, Creator
  <2>1. ~forms'[j].panel.open /\ forms'[j].target.key = 0
    BY DEF Aside, CreatorsKept
  <2>2. CASE forms'[j].key = 0 /\ ~forms'[j].inflight
    BY <2>1, <2>2
  <2>3. ASSUME NEW i \in DOMAIN forms, forms[i].editor = 0, CreatesAs(forms'[j], forms[i])
        PROVE  /\ forms'[j].pending /\ forms'[j].inflight /\ Creating' => fetch'.retry
               /\ forms'[j].key # 0 /\ ~forms'[j].pending =>
                    IF Creating' THEN forms'[j].inflight /\ forms'[j].key = fetch'.cmd.key
                    ELSE stored'[0] = NoCommand /\ \A d \in Sent' : d.key # forms'[j].key
    <3>1. Creator(forms[i])
      BY <2>3 DEF FInv, Creators
    <3>2. CASE Creating
      BY <2>3, <3>1, <3>2 DEF Aside, SameFlight, Creator, CreatesAs
    <3>3. CASE ~Creating
      <4>1. ASSUME forms'[j].key # 0, ~forms'[j].pending
            PROVE  stored'[0] = NoCommand /\ \A d \in Sent' : d.key # forms'[j].key
        <5>1. forms[i].key # 0 /\ ~forms[i].pending /\ forms'[j].key = forms[i].key
          BY <2>3, <4>1 DEF CreatesAs
        <5>2. stored[0] = NoCommand /\ \A d \in Sent : d.key # forms[i].key
          BY <3>1, <3>3, <5>1 DEF Creator
        <5>3. \A d \in Commanded : d.editor # 0 => d.key # forms[i].key
          BY <2>3, <5>1, CreatorApart DEF FInv
        <5> QED
          BY <5>1, <5>2, <5>3 DEF Aside
      <4> QED
        BY <3>3, <4>1 DEF Aside
    <3> QED
      BY <3>2, <3>3
  <2> QED
    BY <2>1, <2>2, <2>3 DEF Aside, CreatorsKept
<1>6. Behind' \subseteq Behind
  <2>1. ASSUME NEW d \in Sent', d.editor = 0, d.key \in 1 .. keys'
        PROVE  d \in Sent /\ d.key \in 1 .. keys
    <3>1. d \in Sent
      BY <2>1 DEF Aside
    <3>2. d.key <= keys
      BY <3>1, InFlight, NoneDrawn
    <3> QED
      BY <2>1, <3>1, <3>2, NoneDrawn DEF Aside
  <2>2. stored'[0] = stored[0] /\ (stored[0].key # 0 => stored[0].key \in 1 .. keys)
    BY InFlight DEF Aside, NoCommand
  <2> SUFFICES ASSUME NEW k \in 1 .. keys', k # Outstanding.key,
                      k = stored[0].key \/ \E d \in Sent' : d.editor = 0 /\ d.key = k
               PROVE  /\ k \in 1 .. keys
                      /\ k = stored[0].key \/ \E d \in Sent : d.editor = 0 /\ d.key = k
    BY <1>2, <2>2 DEF Behind
  <2> QED
    BY <2>1, <2>2
<1>7. Cardinality(Behind') <= told'
  BY <1>6, BehindStays, BInvParts DEF Aside, FInv
<1> QED
  BY <1>0, <1>1, <1>4, <1>5, <1>7

-----------------------------------------------------------------------------
(***************************************************************************)
(* Forms and commands that stay.                                           *)
(***************************************************************************)
\* A form that has no key f had not, and that creates as f did.
Heir(g, f) ==
  /\ g.editor = 0 <=> f.editor = 0
  /\ \A k : k # 0 /\ KeyIn(k, g) => KeyIn(k, f)
  /\ f.editor = 0 => /\ f.panel.open \/ ~g.panel.open
                     /\ f.target.key # 0 \/ g.target.key = 0
                     /\ g.pending = f.pending
                     /\ Creating' => g.inflight = f.inflight

Old(c) == c.key = 0 \/ c \in Commanded

LEMMA HeirSelf == \A f : Heir(f, f)
BY DEF Heir

LEMMA HeirsKeep ==
  ASSUME FInv,
         \A j \in DOMAIN forms' : \E i \in DOMAIN forms : Heir(forms'[j], forms[i])
  PROVE  KeysKept /\ CreatorsKept
<1>1. KeysKept
  BY DEF KeysKept, Heir
<1>2. ASSUME NEW j \in DOMAIN forms', forms'[j].editor = 0
      PROVE  /\ ~forms'[j].panel.open /\ forms'[j].target.key = 0
             /\ \E i \in DOMAIN forms : forms[i].editor = 0 /\ CreatesAs(forms'[j], forms[i])
  <2>1. PICK g : g = forms'[j]
    OBVIOUS
  <2>2. PICK i \in DOMAIN forms : Heir(g, forms[i])
    BY <2>1
  <2>3. forms[i].editor = 0 /\ g.editor = 0
    BY <1>2, <2>1, <2>2 DEF Heir
  <2>4. Creator(forms[i])
    BY <2>3 DEF FInv, Creators
  <2>5. g.key # 0 => g.key = forms[i].key
    BY <2>2, <2>4 DEF Heir, KeyIn, Creator
  <2>6. CreatesAs(g, forms[i])
    BY <2>2, <2>3, <2>5 DEF Heir, CreatesAs
  <2> QED
    BY <2>1, <2>2, <2>3, <2>4, <2>6 DEF Heir, Creator
<1> QED
  BY <1>1, <1>2 DEF CreatorsKept

LEMMA CommandsStay ==
  ASSUME \A d \in Sent' : Old(d), \A e \in Editors : Old(stored'[e]), Old(unknown'),
         Old(orphan'.cmd), fetch'.phase \in Unanswered => Old(fetch'.cmd)
  PROVE  CommandsKept
<1> SUFFICES ASSUME NEW c \in Commanded'
             PROVE  Old(c)
  BY DEF CommandsKept, Old
<1>1. CASE c \in Sent'
  BY <1>1
<1>2. CASE \E e \in Editors : c = stored'[e]
  BY <1>2
<1>3. CASE c = unknown' \/ c = orphan'.cmd
  BY <1>3
<1>4. CASE fetch'.phase \in Unanswered /\ c = fetch'.cmd
  BY <1>4
<1> QED
  BY <1>1, <1>2, <1>3, <1>4 DEF Commanded, Held, Waiting

LEMMA HeldOld ==
  /\ \A e \in Editors : Old(stored[e])
  /\ Old(unknown) /\ Old(orphan.cmd) /\ Old(NoCommand)
  /\ fetch.phase \in Unanswered => Old(fetch.cmd)
  /\ \A d \in Sent : Old(d)
BY DEF Old, Commanded, Held, Waiting, NoCommand

\* The commands kept are those there were, or the one in flight.
LEMMA AsideStep ==
  ASSUME BInv, CInv, FInv, KeysKept, CreatorsKept,
         stored'[0] = stored[0], told' = told, keys' = keys,
         \A d \in Sent' : d.key = 0 \/ d \in Sent \/ (d \in Commanded /\ d.editor # 0),
         \A e \in Editors : Old(stored'[e]), Old(unknown'), Old(orphan'.cmd),
         \/ fetch'.phase = fetch.phase /\ fetch'.cmd = fetch.cmd /\ fetch'.retry = fetch.retry
         \/ ~Creating /\ (fetch'.phase \in Unanswered => fetch'.cmd.editor # 0 /\ Old(fetch'.cmd)),
         Panelled'
  PROVE  FInv'
<1>1. \A d \in Sent' : Old(d)
  BY HeldOld DEF Old
<1>2. fetch'.phase \in Unanswered => Old(fetch'.cmd)
  BY HeldOld
<1>3. CommandsKept
  BY <1>1, <1>2, CommandsStay
<1>4. (Creating' <=> Creating) /\ (Creating => SameFlight)
  BY DEF Creating, SameFlight
<1>5. keys' \in Nat /\ keys <= keys'
  BY BInvParts
<1>6. Aside
  BY <1>3, <1>4, <1>5 DEF Aside
<1> QED
  BY <1>6, AsideKeeps DEF FInv

-----------------------------------------------------------------------------
(***************************************************************************)
(* The author's changes, and what happens elsewhere.                       *)
(***************************************************************************)
LEMMA SentSame ==
  ASSUME revisions' = revisions, copies' = copies
  PROVE  Sent' = Sent
BY DEF Sent, Executed, Version

LEMMA PanelSame ==
  ASSUME FInv, orphan' = orphan, fetch' = fetch, Senders # {} => Senders' # {}
  PROVE  Panelled'
BY DEF FInv, Panelled, SentByPanel

LEMMA EditedAside ==
  ASSUME BInv, CInv, FInv, NEW i \in DOMAIN forms, NEW f, Edited(i, f), Heir(f, forms[i])
  PROVE  FInv'
<1>1. /\ stored' = stored /\ unknown' = unknown /\ orphan' = orphan
      /\ fetch' = fetch /\ copies' = copies /\ keys' = keys
      /\ told' = told /\ revisions' = revisions
      /\ forms' = [forms EXCEPT ![i] = f] /\ f.inflight = forms[i].inflight
  BY DEF offers, Edited, Put
<1>2. \A j \in DOMAIN forms' : j \in DOMAIN forms /\ Heir(forms'[j], forms[j])
  BY <1>1, HeirSelf
<1>3. KeysKept /\ CreatorsKept
  BY <1>1, <1>2, HeirsKeep
<1>4. Senders' = Senders
  BY <1>1 DEF Senders
<1>5. Panelled'
  BY <1>1, <1>4, PanelSame
<1>6. Sent' = Sent
  BY <1>1, SentSame
<1> QED
  BY <1>1, <1>3, <1>5, <1>6, HeldOld, AsideStep

LEMMA DiscardedHeir ==
  ASSUME NEW f \in Forms
  PROVE  Heir(Discarded(f), f)
<1> DEFINE t == f.target
           back == [f EXCEPT !.text = t.text, !.baseline = t.text, !.version = t.version,
                             !.key = t.key]
           plain == [f EXCEPT !.text = f.baseline]
<1>1. CASE t.given
  <2>1. Discarded(f) = [back EXCEPT !.panel = NoPanel]
    BY <1>1 DEF Discarded
  <2>2. PICK g : g = [back EXCEPT !.panel = NoPanel]
    OBVIOUS
  <2>3. g.editor = f.editor /\ g.key = f.target.key /\ g.target = f.target /\ g.panel = NoPanel
        /\ g.pending = f.pending /\ g.inflight = f.inflight
    BY <2>2 DEF Forms
  <2> QED
    BY <2>1, <2>2, <2>3 DEF Heir, KeyIn, NoPanel
<1>2. CASE ~t.given
  <2>1. Discarded(f) = [plain EXCEPT !.panel = NoPanel]
    BY <1>2 DEF Discarded
  <2>2. PICK g : g = [plain EXCEPT !.panel = NoPanel]
    OBVIOUS
  <2>3. g.editor = f.editor /\ g.key = f.key /\ g.target = f.target /\ g.panel = NoPanel
        /\ g.pending = f.pending /\ g.inflight = f.inflight
    BY <2>2 DEF Forms
  <2> QED
    BY <2>1, <2>2, <2>3 DEF Heir, KeyIn, NoPanel
<1> QED
  BY <1>1, <1>2

LEMMA MineHeir ==
  ASSUME NEW f \in Forms
  PROVE  /\ Heir(Mine(f), f)
         /\ Heir([Mine(f) EXCEPT !.panel = NoPanel], f)
<1> DEFINE m == Mine(f)
           n == [m EXCEPT !.panel = NoPanel]
<1>1. /\ m.editor = f.editor /\ m.key = 0 /\ m.target = f.target /\ m.panel = f.panel
      /\ m.pending = f.pending /\ m.inflight = f.inflight /\ DOMAIN m = DOMAIN f
  BY DEF Mine, Forms
<1>2. DOMAIN f = {"editor", "text", "baseline", "version", "key", "target", "panel",
                  "inflight", "pending", "gone", "unrefreshed"}
  BY DEF Forms
<1> HIDE DEF m
<1>3. /\ n.editor = f.editor /\ n.key = 0 /\ n.target = f.target /\ n.panel = NoPanel
      /\ n.pending = f.pending /\ n.inflight = f.inflight
  BY <1>1, <1>2
<1> HIDE DEF n
<1>4. Heir(m, f) /\ Heir(n, f)
  BY <1>1, <1>3 DEF Heir, KeyIn, NoPanel
<1> QED
  BY <1>4 DEF m, n

LEMMA UsedHeir ==
  ASSUME NEW f \in Forms
  PROVE  Heir(CurrentUsed(f), f)
<1>1. CASE f.panel.listed
  BY <1>1, DiscardedHeir DEF CurrentUsed
<1>2. CASE ~f.panel.listed
  <2>1. PICK g : g = [f EXCEPT !.text = f.panel.current, !.baseline = f.panel.current,
                               !.panel = NoPanel]
    OBVIOUS
  <2>2. g.editor = f.editor /\ g.key = f.key /\ g.target = f.target /\ g.panel = NoPanel
        /\ g.pending = f.pending /\ g.inflight = f.inflight
    BY <2>1 DEF Forms
  <2>3. Heir(g, f)
    BY <2>2 DEF Heir, KeyIn, NoPanel
  <2> QED
    BY <1>2, <2>1, <2>3 DEF CurrentUsed
<1> QED
  BY <1>1, <1>2

LEMMA DiscardRetainedCreates ==
  ASSUME BInv, CInv, FInv, NEW i \in DOMAIN forms, DiscardRetained(i)
  PROVE  FInv'
<1>1. /\ stored' = stored /\ unknown' = unknown /\ orphan' = orphan
      /\ fetch' = fetch /\ copies' = copies /\ keys' = keys
      /\ told' = told /\ revisions' = revisions
      /\ forms' = [j \in DOMAIN forms \ {i} |-> forms[j]] /\ ~forms[i].inflight
  BY DEF DiscardRetained, offers, Restrict
<1>2. \A j \in DOMAIN forms' : j \in DOMAIN forms /\ Heir(forms'[j], forms[j])
  BY <1>1, HeirSelf
<1>3. KeysKept /\ CreatorsKept
  BY <1>1, <1>2, HeirsKeep
<1>4. \A j \in Senders : j \in Senders'
  BY <1>1 DEF Senders
<1>5. Panelled'
  BY <1>1, <1>4, PanelSame
<1>6. Sent' = Sent
  BY <1>1, SentSame
<1> QED
  BY <1>1, <1>3, <1>5, <1>6, HeldOld, AsideStep

LEMMA RowAdded ==
  ASSUME revisions \in Seq(Row), NEW row, revisions' = Append(revisions, row)
  PROVE  Executed' \subseteq Executed \cup {row.cmd}
<1>1. Version' = Version + 1 /\ Version \in Nat
  BY DEF Version
<1>2. \A v \in 1 .. Version' : revisions'[v] = IF v \in 1 .. Version THEN revisions[v] ELSE row
  BY <1>1 DEF Version
<1> QED
  BY <1>2 DEF Executed

\* Commands of others have no key.
LEMMA OthersCreate ==
  ASSUME BInv, CInv, FInv, Others \/ \E c \in copies : CopyArrives(c)
  PROVE  FInv'
<1>1. /\ forms' = forms /\ stored' = stored /\ unknown' = unknown /\ orphan' = orphan
      /\ fetch' = fetch /\ keys' = keys /\ told' = told
  BY DEF Others, SavedElsewhere, RemovedElsewhere, CopyArrives, client, offers
<1>2. \A j \in DOMAIN forms' : j \in DOMAIN forms /\ Heir(forms'[j], forms[j])
  BY <1>1, HeirSelf
<1>3. KeysKept /\ CreatorsKept
  BY <1>1, <1>2, HeirsKeep
<1>4. Panelled'
  BY <1>1, PanelSame DEF Senders
<1>5. revisions \in Seq(Row)
  BY BInvParts
<1>6. ASSUME NEW c, NEW row, row.cmd = c, revisions' = Append(revisions, row)
      PROVE  Executed' \subseteq Executed \cup {c}
  BY <1>5, <1>6, RowAdded
<1>7. ASSUME NEW d \in Sent' PROVE d.key = 0 \/ d \in Sent
  <2>1. CASE Others
    <3>1. PICK c, row : row.cmd = c /\ c.key = 0 /\ revisions' = Append(revisions, row)
      <4>1. CASE \E a \in Editors, t \in Texts \ {Blank} : SavedElsewhere(a, t)
        <5>1. PICK a, t : SavedElsewhere(a, t)
          BY <4>1
        <5>2. PICK c : c = [NoCommand EXCEPT !.editor = a, !.text = t, !.base = Version]
          OBVIOUS
        <5>3. c.key = 0
          BY <5>2 DEF NoCommand
        <5>4. PICK row : row = [cmd |-> c, package |-> PackageAfter(c)]
          OBVIOUS
        <5>5. revisions' = Append(revisions, row) /\ row.cmd = c
          BY <5>1, <5>2, <5>4 DEF SavedElsewhere, Save
        <5> QED
          BY <5>3, <5>5
      <4>2. CASE \E a \in Editors : RemovedElsewhere(a)
        <5>1. PICK a : RemovedElsewhere(a)
          BY <4>2
        <5>2. PICK c : c = [NoCommand EXCEPT !.editor = a, !.base = Version]
          OBVIOUS
        <5>3. c.key = 0
          BY <5>2 DEF NoCommand
        <5>4. PICK row : row = [cmd |-> c, package |-> [PackageAt(Version) EXCEPT ![a].removed = TRUE]]
          OBVIOUS
        <5>5. revisions' = Append(revisions, row) /\ row.cmd = c
          BY <5>1, <5>2, <5>4 DEF RemovedElsewhere
        <5> QED
          BY <5>3, <5>5
      <4> QED
        BY <2>1, <4>1, <4>2 DEF Others
    <3>2. copies' = copies
      BY <2>1 DEF Others, SavedElsewhere, RemovedElsewhere
    <3> QED
      BY <3>1, <3>2, <1>6, <1>7 DEF Sent
  <2>2. ASSUME NEW c \in copies, CopyArrives(c) PROVE d \in Sent
    <3>1. copies' \subseteq copies
      BY <2>2 DEF CopyArrives
    <3>2. CASE revisions' = revisions
      BY <1>7, <3>1, <3>2 DEF Sent, Executed, Version
    <3>3. CASE Save(c)
      <4>1. Executed' \subseteq Executed \cup {c}
        BY <3>3, <1>6 DEF Save
      <4> QED
        BY <1>7, <2>2, <3>1, <4>1 DEF Sent
    <3> QED
      BY <2>2, <3>2, <3>3 DEF CopyArrives
  <2> QED
    BY <2>1, <2>2
<1> QED
  BY <1>1, <1>3, <1>4, <1>7, HeldOld, AsideStep

-----------------------------------------------------------------------------
(***************************************************************************)
(* What is sent.                                                           *)
(***************************************************************************)
\* The form that is sent, and its command.
LEMMA SendsForm ==
  ASSUME BInv, NEW i \in DOMAIN forms, NEW f, GoodForm(f, keys), SendForm(i, f)
  PROVE  \E g, k :
           /\ forms' = [forms EXCEPT ![i] = g]
           /\ g.editor = f.editor /\ g.key = k /\ g.target = f.target /\ g.panel = f.panel
           /\ g.pending = f.pending /\ g.inflight
           /\ fetch'.phase = "sent" /\ ~fetch'.retry
           /\ fetch'.cmd.editor = f.editor /\ fetch'.cmd.key = k
           /\ \/ f.key = 0 /\ k = keys + 1 /\ keys' = keys + 1
              \/ f.key # 0 /\ k = f.key /\ keys' = keys
<1> DEFINE named == IF f.key = 0 THEN [f EXCEPT !.key = keys + 1] ELSE f
           g == [named EXCEPT !.inflight = TRUE]
<1>1. /\ named.key \in Keys /\ forms' = [forms EXCEPT ![i] = g] /\ Dispatch(Freeze(named), FALSE)
      /\ keys' = IF f.key = 0 THEN keys + 1 ELSE keys
  BY DEF SendForm, Put
<1>2. f \in Forms
  BY DEF GoodForm
<1>3. /\ named \in Forms /\ named.editor = f.editor /\ named.target = f.target
      /\ named.panel = f.panel /\ named.pending = f.pending
      /\ \/ f.key = 0 /\ named.key = keys + 1 /\ keys' = keys + 1
         \/ f.key # 0 /\ named.key = f.key /\ keys' = keys
  <2>1. CASE f.key = 0
    <3>1. named = [f EXCEPT !.key = keys + 1] /\ keys + 1 \in Keys
      BY <1>1, <1>2, <2>1 DEF Forms
    <3> QED
      BY <3>1, <1>1, <1>2, <2>1 DEF Forms
  <2>2. CASE f.key # 0
    BY <2>2, <1>1, <1>2
  <2> QED
    BY <2>1, <2>2
<1> HIDE DEF named
<1>4. /\ g.editor = f.editor /\ g.key = named.key /\ g.target = f.target /\ g.panel = f.panel
      /\ g.pending = f.pending /\ g.inflight
  BY <1>3 DEF Forms
<1> HIDE DEF g
<1>5. /\ fetch'.phase = "sent" /\ ~fetch'.retry
      /\ fetch'.cmd.editor = f.editor /\ fetch'.cmd.key = named.key
  BY <1>1, <1>3 DEF Dispatch, Freeze, NoFetch
<1> QED
  BY <1>1, <1>3, <1>4, <1>5

LEMMA SendsEdit ==
  ASSUME BInv, CInv, FInv, Idle, NEW i \in DOMAIN forms, NEW f, GoodForm(f, keys), SendForm(i, f),
         Heir(f, forms[i]), f.editor # 0,
         UNCHANGED <<revisions, offers, copies, told>>
  PROVE  FInv'
<1>1. PICK g, k :
           /\ forms' = [forms EXCEPT ![i] = g]
           /\ g.editor = f.editor /\ g.key = k /\ g.target = f.target
           /\ g.inflight
           /\ fetch'.phase = "sent"
           /\ fetch'.cmd.editor = f.editor /\ fetch'.cmd.key = k
           /\ \/ f.key = 0 /\ k = keys + 1 /\ keys' = keys + 1
              \/ f.key # 0 /\ k = f.key /\ keys' = keys
  BY SendsForm
<1>2. /\ stored' = stored /\ unknown' = unknown /\ orphan' = orphan /\ copies' = copies
      /\ told' = told /\ revisions' = revisions
  BY DEF offers
<1>3. keys \in Nat /\ keys' \in Nat /\ keys <= keys' /\ (k > keys \/ (k = f.key /\ k # 0))
  BY <1>1, BInvParts
<1>4. forms[i].editor # 0 /\ (k > keys \/ KeyIn(k, forms[i]))
  BY <1>3 DEF Heir, KeyIn
<1>5. forms'[i] = g /\ DOMAIN forms' = DOMAIN forms
      /\ \A j \in DOMAIN forms : j # i => forms'[j] = forms[j]
  BY <1>1
<1>6. KeysKept
  <2> SUFFICES ASSUME NEW j \in DOMAIN forms, NEW x, x # 0, KeyIn(x, forms'[j])
               PROVE  \/ \E l \in DOMAIN forms : KeyIn(x, forms[l])
                                                   /\ (forms[l].editor = 0 <=> forms'[j].editor = 0)
                      \/ x > keys /\ forms'[j].editor # 0
    BY <1>5 DEF KeysKept
  <2>1. CASE j # i
    BY <2>1, <1>5
  <2>2. CASE j = i
    <3>1. x = k \/ KeyIn(x, f)
      BY <2>2, <1>1, <1>5 DEF KeyIn
    <3>2. x > keys \/ KeyIn(x, forms[i])
      BY <3>1, <1>4 DEF Heir
    <3> QED
      BY <3>2, <2>2, <1>1, <1>4, <1>5
  <2> QED
    BY <2>1, <2>2
<1>7. CreatorsKept
  <2> SUFFICES ASSUME NEW j \in DOMAIN forms, forms'[j].editor = 0
               PROVE  Creator(forms[j]) /\ forms'[j] = forms[j] /\ forms[j].editor = 0
    BY <1>2, <1>5 DEF CreatorsKept, Creator, CreatesAs
  <2>1. j # i
    BY <1>1, <1>5
  <2> QED
    BY <2>1, <1>5 DEF FInv, Creators
<1>8. Sent' = Sent
  BY <1>2, SentSame
<1>9. CommandsKept
  <2> SUFFICES ASSUME NEW c \in Commanded'
               PROVE  c \in Commanded \/ c = fetch'.cmd
    BY <1>1, <1>4 DEF CommandsKept
  <2> QED
    BY <1>2, <1>8 DEF Commanded, Held, Waiting
<1>10. ~Creating /\ ~Creating'
  BY <1>1 DEF Creating, Idle, Unanswered
<1>11. Aside
  BY <1>2, <1>3, <1>6, <1>7, <1>8, <1>9, <1>10 DEF Aside
<1>12. Panelled'
  <2>1. i \in Senders'
    BY <1>1, <1>5 DEF Senders
  <2> QED
    BY <2>1, <1>2 DEF FInv, Panelled, SentByPanel
<1> QED
  BY <1>11, <1>12, AsideKeeps DEF FInv

\* The form that creates stands where nothing else does.
LEMMA OneCreator ==
  ASSUME BInv, CInv
  PROVE  \A i \in DOMAIN forms : forms[i].editor = 0 => i = 0
<1>1. \A i \in DOMAIN forms : i \in Int
  BY FormPlaces
<1>2. \A i \in DOMAIN forms : (i > 0 => forms[i].editor = i) /\ (i < 0 => forms[i].editor = -i)
  BY DEF CInv, PlacedIn
<1> QED
  BY <1>1, <1>2

LEMMA SendsCreation ==
  ASSUME BInv, CInv, FInv, Idle, NEW i \in DOMAIN forms, forms[i].editor = 0, ~forms[i].pending,
         SendForm(i, forms[i]), UNCHANGED <<revisions, offers, copies>>,
         told' = IF stored[0] # NoCommand THEN told + 1 ELSE told
  PROVE  FInv'
<1>1. GoodForm(forms[i], keys) /\ keys \in Nat
  BY BInvParts DEF GoodForms
<1>2. PICK g, k :
           /\ forms' = [forms EXCEPT ![i] = g]
           /\ g.editor = 0 /\ g.key = k /\ g.target = forms[i].target
           /\ g.panel = forms[i].panel /\ g.pending = forms[i].pending /\ g.inflight
           /\ fetch'.phase = "sent" /\ ~fetch'.retry
           /\ fetch'.cmd.editor = 0 /\ fetch'.cmd.key = k
           /\ \/ forms[i].key = 0 /\ k = keys + 1 /\ keys' = keys + 1
              \/ forms[i].key # 0 /\ k = forms[i].key /\ keys' = keys
  BY <1>1, SendsForm
<1>3. /\ stored' = stored /\ unknown' = unknown /\ orphan' = orphan /\ copies' = copies
      /\ revisions' = revisions /\ Sent' = Sent
  BY SentSame DEF offers
<1>4. keys' \in Nat /\ keys <= keys' /\ k \in Nat /\ k # 0
      /\ (k > keys \/ (k = forms[i].key /\ k # 0))
  BY <1>1, <1>2 DEF GoodForm
<1>5. forms'[i] = g /\ DOMAIN forms' = DOMAIN forms
      /\ \A j \in DOMAIN forms : j # i => forms'[j] = forms[j]
  BY <1>2
<1>6. Creator(forms[i]) /\ ~Creating /\ Creating'
  BY <1>2 DEF FInv, Creators, Creating, Idle, Unanswered
<1>7. Outstanding = stored[0] /\ Outstanding' = fetch'.cmd
  BY <1>3, <1>6 DEF Outstanding
<1>8. (\A d \in Sent : d.key # k) /\ (stored[0] = NoCommand \/ stored[0].key # k)
  <2>1. CASE k > keys
    BY <2>1, <1>1, InFlight, NoneDrawn
  <2>2. CASE k = forms[i].key /\ k # 0
    BY <2>2, <1>6 DEF Creator
  <2> QED
    BY <1>4, <2>1, <2>2
<1>9. Issued'
  <2>1. \A d \in Executed' : d.key = 0 \/ d \in Commanded
    BY <1>3, InFlight DEF Sent
  <2> QED
    BY <2>1, <1>4, IssuedStays
<1>10. KeysApart'
  <2>1. ASSUME NEW x, NEW made \in BOOLEAN, x # 0, UsedFor(x, made, forms', Commanded')
        PROVE  UsedFor(x, made, forms, Commanded) \/ (x > keys /\ made = TRUE)
    <3>1. CASE \E c \in Commanded' : c.key = x /\ (c.editor = 0 <=> made)
      <4>1. PICK c \in Commanded' : c.key = x /\ (c.editor = 0 <=> made)
        BY <3>1
      <4>2. c \in Commanded \/ c = fetch'.cmd
        BY <1>3 DEF Commanded, Held, Waiting
      <4>3. CASE c = fetch'.cmd
        <5>1. x = k /\ made = TRUE
          BY <4>1, <4>3, <1>2
        <5> QED
          BY <5>1, <1>4, <1>6 DEF UsedFor, KeyIn
      <4> QED
        BY <4>1, <4>2, <4>3 DEF UsedFor
    <3>2. CASE \E j \in DOMAIN forms' : KeyIn(x, forms'[j]) /\ (forms'[j].editor = 0 <=> made)
      <4>1. PICK j \in DOMAIN forms' : KeyIn(x, forms'[j]) /\ (forms'[j].editor = 0 <=> made)
        BY <3>2
      <4>2. CASE j = i
        <5>1. made = TRUE /\ (x = k \/ KeyIn(x, forms[i]))
          BY <4>1, <4>2, <1>2, <1>5 DEF KeyIn
        <5> QED
          BY <5>1, <1>4 DEF UsedFor, KeyIn
      <4>3. CASE j # i
        BY <4>1, <4>3, <1>5 DEF UsedFor
      <4> QED
        BY <4>2, <4>3
    <3> QED
      BY <2>1, <3>1, <3>2 DEF UsedFor
  <2> QED
    BY <2>1, ApartNext
<1>11. OnItsWay'
  BY <1>2, <1>3, <1>6, <1>7, <1>8 DEF FInv, OnItsWay
<1>12. Creators'
  <2> SUFFICES ASSUME NEW j \in DOMAIN forms', forms'[j].editor = 0
               PROVE  /\ ~forms'[j].panel.open /\ forms'[j].target.key = 0 /\ ~forms'[j].pending
                      /\ forms'[j].inflight /\ forms'[j].key = fetch'.cmd.key
    BY <1>6 DEF Creators, Creator
  <2>1. j = i
    <3>1. j # i => forms[j].editor = 0 /\ j \in DOMAIN forms
      BY <1>5
    <3> QED
      BY <3>1, OneCreator
  <2> QED
    BY <2>1, <1>2, <1>3, <1>5, <1>6 DEF Creator
<1>13. Panelled'
  <2>1. i \in Senders'
    BY <1>2, <1>5 DEF Senders
  <2> QED
    BY <2>1, <1>3 DEF FInv, Panelled, SentByPanel
<1>14. Behind' \subseteq Behind \cup {stored[0].key}
  <2> SUFFICES ASSUME NEW x \in 1 .. keys', NEW d \in Sent, d.editor = 0, d.key = x,
                      x # stored[0].key
               PROVE  x \in 1 .. keys
    BY <1>3, <1>7 DEF Behind
  <2>1. x <= keys
    BY InFlight, NoneDrawn
  <2> QED
    BY <2>1, <1>1
<1>15. Cardinality(Behind') <= told'
  <2>1. CASE stored[0] # NoCommand
    BY <1>14, <2>1, BehindGrows, BInvParts DEF FInv
  <2>2. CASE stored[0] = NoCommand
    <3>1. stored[0].key \notin Behind'
      BY <1>4, <2>2 DEF Behind, NoCommand
    <3> QED
      BY <1>14, <2>2, <3>1, BehindStays, BInvParts DEF FInv
  <2> QED
    BY <2>1, <2>2
<1> QED
  BY <1>9, <1>10, <1>11, <1>12, <1>13, <1>15 DEF FInv

\* What is still outstanding may be executed, and more than once.
LEMMA StillOutstanding ==
  ASSUME BInv, CInv, FInv, KeysKept, CommandsKept, Outstanding # NoCommand,
         Outstanding' = Outstanding, stored'[0] \in {stored[0], Outstanding},
         keys' = keys, told' = told, \A d \in Sent' : d \in Sent \/ d = Outstanding
  PROVE  /\ Issued' /\ KeysApart' /\ Cardinality(Behind') <= told'
         /\ \A d \in Sent' : d.key = Outstanding'.key => d = Outstanding'
         /\ stored'[0] # NoCommand => \A d \in Sent' : d.key = stored'[0].key => d = stored'[0]
<1>1. Issued'
  <2>1. \A d \in Executed' : d.key = 0 \/ d \in Commanded
    BY InFlight DEF Sent
  <2> QED
    BY <2>1, BInvParts, IssuedStays
<1>2. KeysApart'
  BY ApartStays
<1>3. \A d \in Sent' : d.key = Outstanding'.key => d = Outstanding'
  BY DEF FInv, OnItsWay
<1>4. stored[0] = Outstanding \/ stored[0] = NoCommand \/ stored[0].key # Outstanding.key
  BY InFlight DEF FInv, OnItsWay, Outstanding
<1>5. stored'[0] # NoCommand => \A d \in Sent' : d.key = stored'[0].key => d = stored'[0]
  BY <1>3, <1>4 DEF FInv, OnItsWay
<1>6. Behind' \subseteq Behind
  <2> SUFFICES ASSUME NEW k \in 1 .. keys, k # Outstanding.key,
                      NEW d \in Sent', d.editor = 0, d.key = k
               PROVE  d \in Sent
    BY DEF Behind
  <2> QED
    OBVIOUS
<1>7. Cardinality(Behind') <= told'
  BY <1>6, BehindStays, BInvParts DEF FInv
<1> QED
  BY <1>1, <1>2, <1>3, <1>5, <1>7

LEMMA RetryCreates ==
  ASSUME BInv, CInv, FInv, NEW i \in DOMAIN forms, Retry(i)
  PROVE  FInv'
<1>1. PICK g, c : g = [forms[i] EXCEPT !.inflight = TRUE] /\ c = stored[forms[i].editor]
  OBVIOUS
<1>2. /\ Idle /\ c # NoCommand /\ forms' = [forms EXCEPT ![i] = g] /\ Dispatch(c, TRUE)
      /\ stored' = stored /\ unknown' = unknown /\ orphan' = orphan /\ copies' = copies
      /\ told' = told /\ revisions' = revisions /\ keys' = keys /\ forms[i].pending
  BY <1>1 DEF Retry, Put, offers
<1>3. forms[i] \in Forms /\ forms[i].editor \in Editors
  BY FormsTyped, FormPlaces
<1>4. /\ g.editor = forms[i].editor /\ g.key = forms[i].key /\ g.target = forms[i].target
      /\ g.panel = forms[i].panel /\ g.pending = forms[i].pending /\ g.inflight
  BY <1>1, <1>3 DEF Forms
<1>5. c.editor = forms[i].editor /\ Old(c)
  BY <1>1, <1>2, <1>3, BInvParts, HeldOld DEF GoodStored
<1>6. fetch'.phase = "sent" /\ fetch'.cmd = c /\ fetch'.retry /\ fetch.phase = "idle"
  BY <1>2 DEF Dispatch, NoFetch, Idle
<1>7. /\ DOMAIN forms' = DOMAIN forms /\ forms'[i] = g
      /\ \A j \in DOMAIN forms : j # i => forms'[j] = forms[j]
  BY <1>2
<1>8. KeysKept
  BY <1>4, <1>7 DEF KeysKept, KeyIn
<1>9. Sent' = Sent
  BY <1>2, SentSame
<1>10. ~Creating
  BY <1>6 DEF Creating, Unanswered
<1>11. Panelled'
  <2>1. i \in Senders'
    BY <1>4, <1>7 DEF Senders
  <2> QED
    BY <2>1, <1>2 DEF FInv, Panelled, SentByPanel
<1>12. CASE forms[i].editor # 0
  <2>1. CreatorsKept
    <3> SUFFICES ASSUME NEW j \in DOMAIN forms, forms'[j].editor = 0
                 PROVE  Creator(forms[j]) /\ forms'[j] = forms[j] /\ forms[j].editor = 0
      BY <1>7 DEF CreatorsKept, Creator, CreatesAs
    <3>1. j # i
      BY <1>4, <1>7, <1>12
    <3> QED
      BY <3>1, <1>7 DEF FInv, Creators
  <2> QED
    BY <1>2, <1>5, <1>6, <1>8, <1>9, <1>10, <1>11, <1>12, <2>1, HeldOld, AsideStep
<1>13. CASE forms[i].editor = 0
  <2>1. /\ c = stored[0] /\ Outstanding = c /\ Outstanding' = c /\ Creating'
    BY <1>1, <1>2, <1>5, <1>6, <1>10, <1>13 DEF Outstanding, Creating, Unanswered
  <2>2. CommandsKept
    BY <1>2, <1>5, <1>6, <1>9, HeldOld, CommandsStay
  <2>3. /\ Issued' /\ KeysApart' /\ Cardinality(Behind') <= told'
        /\ \A d \in Sent' : d.key = Outstanding'.key => d = Outstanding'
    BY <1>2, <1>8, <1>9, <2>1, <2>2, StillOutstanding
  <2>4. OnItsWay'
    BY <1>2, <1>6, <2>1, <2>3 DEF OnItsWay
  <2>5. Creators'
    <3> SUFFICES ASSUME NEW j \in DOMAIN forms', forms'[j].editor = 0
                 PROVE  /\ ~forms'[j].panel.open /\ forms'[j].target.key = 0 /\ forms'[j].pending
      BY <1>6 DEF Creators, Creator
    <3>1. j = i
      <4>1. j # i => forms[j].editor = 0 /\ j \in DOMAIN forms
        BY <1>7
      <4> QED
        BY <1>13, <4>1, OneCreator
    <3> QED
      BY <1>2, <1>4, <1>7, <1>13, <3>1 DEF FInv, Creators, Creator
  <2> QED
    BY <1>11, <2>3, <2>4, <2>5 DEF FInv
<1> QED
  BY <1>12, <1>13

\* The panel sends what creates nothing.
LEMMA PanelCreates ==
  ASSUME BInv, CInv, FInv, RetryOrphan \/ ResendOrphan
  PROVE  FInv'
<1>1. PICK c, again :
        /\ c \in {stored[orphan.cmd.editor], orphan.cmd} /\ Dispatch(c, again)
        /\ c # NoCommand /\ orphan.cmd # NoCommand
  BY DEF RetryOrphan, ResendOrphan, FInv, Panelled
<1>2. /\ forms' = forms /\ stored' = stored /\ unknown' = unknown /\ orphan' = orphan
      /\ copies' = copies /\ told' = told /\ revisions' = revisions /\ keys' = keys /\ Idle
  BY DEF RetryOrphan, ResendOrphan, client, offers
<1>3. orphan.cmd.editor # 0 /\ orphan.cmd.editor \in Editors
  <2>1. MaybeGood(orphan.cmd, keys)
    BY BInvParts
  <2> QED
    BY <1>1, <2>1 DEF MaybeGood, GoodCommand, Commands, FInv, Panelled
<1>4. c.editor = orphan.cmd.editor /\ Old(c)
  BY <1>1, <1>3, BInvParts, HeldOld DEF GoodStored
<1>5. fetch'.phase = "sent" /\ fetch'.cmd = c /\ fetch.phase = "idle"
  BY <1>1, <1>2 DEF Dispatch, NoFetch, Idle
<1>6. \A j \in DOMAIN forms' : j \in DOMAIN forms /\ Heir(forms'[j], forms[j])
  BY <1>2, HeirSelf
<1>7. KeysKept /\ CreatorsKept
  BY <1>2, <1>6, HeirsKeep
<1>8. Sent' = Sent
  BY <1>2, SentSame
<1>9. ~Creating
  BY <1>5 DEF Creating, Unanswered
<1>10. Panelled'
  BY <1>1, <1>2, <1>4, <1>5 DEF FInv, Panelled
<1> QED
  BY <1>2, <1>3, <1>4, <1>5, <1>7, <1>8, <1>9, <1>10, HeldOld, AsideStep

LEMMA SendCreates ==
  ASSUME BInv, CInv, FInv, Send
  PROVE  FInv'
<1>1. ASSUME NEW i \in DOMAIN forms, Submit(i)
      PROVE  FInv'
  <2>1. GoodForm(forms[i], keys) /\ Heir(forms[i], forms[i])
    BY FormsTyped, HeirSelf
  <2>2. /\ Idle /\ ~forms[i].pending /\ SendForm(i, forms[i])
        /\ UNCHANGED <<revisions, offers, copies>>
        /\ told' = IF forms[i].editor = 0 /\ stored[0] # NoCommand THEN told + 1 ELSE told
    BY <1>1 DEF Submit
  <2>3. CASE forms[i].editor = 0
    BY <2>2, <2>3, SendsCreation
  <2>4. CASE forms[i].editor # 0
    BY <2>1, <2>2, <2>4, SendsEdit
  <2> QED
    BY <2>3, <2>4
<1>2. CASE RetryRefresh
  <2>1. /\ forms' = forms /\ stored' = stored /\ unknown' = unknown /\ orphan' = orphan
        /\ copies' = copies /\ told' = told /\ revisions' = revisions /\ keys' = keys
        /\ fetch' = fetch
    BY <1>2 DEF RetryRefresh, client, offers
  <2>2. \A j \in DOMAIN forms' : j \in DOMAIN forms /\ Heir(forms'[j], forms[j])
    BY <2>1, HeirSelf
  <2>3. KeysKept /\ CreatorsKept
    BY <2>1, <2>2, HeirsKeep
  <2>4. Panelled'
    BY <2>1, PanelSame DEF Senders
  <2> QED
    BY <2>1, <2>3, <2>4, SentSame, HeldOld, AsideStep
<1> QED
  BY <1>1, <1>2, RetryCreates, PanelCreates DEF Send

LEMMA AuthorCreates ==
  ASSUME BInv, CInv, FInv, Author
  PROVE  FInv'
<1>1. ASSUME NEW i \in DOMAIN forms, NEW t \in Texts, Type(i, t)
      PROVE  FInv'
  <2>1. PICK f : f = [forms[i] EXCEPT !.text = t]
    OBVIOUS
  <2>2. forms[i] \in Forms /\ Edited(i, f)
    BY <1>1, <2>1, FormsTyped, AuthorEdits
  <2>3. f.editor = forms[i].editor /\ f.key = forms[i].key /\ f.target = forms[i].target
        /\ f.panel = forms[i].panel /\ f.pending = forms[i].pending
        /\ f.inflight = forms[i].inflight
    BY <2>1, <2>2 DEF Forms
  <2>4. Heir(f, forms[i])
    BY <2>3 DEF Heir, KeyIn
  <2> QED
    BY <2>2, <2>4, EditedAside
<1>2. ASSUME NEW i \in DOMAIN forms, Discard(i)
      PROVE  FInv'
  <2>1. Heir(Discarded(forms[i]), forms[i]) /\ Edited(i, Discarded(forms[i]))
    BY <1>2, FormsTyped, DiscardedHeir, AuthorEdits
  <2> QED
    BY <2>1, EditedAside
<1>3. ASSUME NEW i \in DOMAIN forms, UseCurrent(i)
      PROVE  FInv'
  <2>1. Heir(CurrentUsed(forms[i]), forms[i]) /\ Edited(i, CurrentUsed(forms[i]))
    BY <1>3, FormsTyped, UsedHeir, AuthorEdits
  <2> QED
    BY <2>1, EditedAside
<1>4. ASSUME NEW i \in DOMAIN forms, Combine(i)
      PROVE  FInv'
  <2>1. PICK f : f = [Mine(forms[i]) EXCEPT !.panel = NoPanel]
    OBVIOUS
  <2>2. Heir(f, forms[i]) /\ Edited(i, f)
    BY <1>4, <2>1, FormsTyped, MineHeir, AuthorEdits
  <2> QED
    BY <2>2, EditedAside
<1>5. ASSUME NEW i \in DOMAIN forms, SaveMine(i)
      PROVE  FInv'
  <2>1. PICK f : f = Mine(forms[i])
    OBVIOUS
  <2>2. Heir(f, forms[i])
    BY <2>1, FormsTyped, MineHeir
  <2>3. CASE Edited(i, f)
    BY <2>2, <2>3, EditedAside
  <2>4. CASE /\ Idle /\ SendForm(i, f) /\ GoodForm(f, keys)
             /\ UNCHANGED <<revisions, offers, copies, told>>
    <3>1. forms[i].editor # 0
      BY <1>5 DEF SaveMine, FInv, Creators, Creator
    <3>2. f.editor # 0
      BY <2>2, <3>1 DEF Heir
    <3> QED
      BY <2>2, <2>4, <3>2, SendsEdit
  <2> QED
    BY <1>5, <2>1, <2>3, <2>4, AuthorEdits
<1> QED
  BY <1>1, <1>2, <1>3, <1>4, <1>5, DiscardRetainedCreates DEF Author

-----------------------------------------------------------------------------
(***************************************************************************)
(* Pages.                                                                  *)
(***************************************************************************)
\* A fresh form has no key.
LEMMA FreshForm ==
  ASSUME NEW f \in Forms, NEW kept, f.key = 0, f.target = NoTarget, f.panel = NoPanel,
         ~f.inflight, f.editor \in Editors
  PROVE  LET g == Restored(f, kept) IN
         /\ g.editor = f.editor /\ g.key = 0 /\ g.target.key = 0 /\ ~g.panel.open
         /\ ~g.inflight
<1> DEFINE copy == store[f.editor]
           back == IF copy.kept
                     THEN [f EXCEPT !.text = copy.text, !.version = copy.version]
                     ELSE f
           g == [back EXCEPT !.pending = kept[f.editor] # NoCommand]
<1>1. /\ DOMAIN back = DOMAIN f /\ back.editor = f.editor
      /\ back.key = f.key /\ back.target = f.target /\ back.panel = f.panel
      /\ back.inflight = f.inflight
  BY DEF Forms
<1>2. DOMAIN f = {"editor", "text", "baseline", "version", "key", "target", "panel",
                  "inflight", "pending", "gone", "unrefreshed"}
  BY DEF Forms
<1> HIDE DEF back
<1>3. /\ g.editor = f.editor /\ g.key = f.key /\ g.target = f.target /\ g.panel = f.panel
      /\ g.inflight = f.inflight
  BY <1>1, <1>2
<1>4. Restored(f, kept) = g
  BY DEF Restored, back
<1> HIDE DEF g
<1> QED
  BY <1>3, <1>4 DEF NoTarget, NoPanel

\* The keys of a page are those of the forms it takes over; the form that creates
\* is fresh or the one there was.
LEMMA PageKeys ==
  ASSUME Rows, NEW k \in Nat, NEW fs, GoodForms(fs, k), GoodStore(store), PlacedIn(fs),
         NEW v \in Versions, NEW kept, NEW p \in DOMAIN Page(fs, v, kept)
  PROVE  LET g == Page(fs, v, kept)[p] IN
         /\ g \in Forms
         /\ \A x : x # 0 /\ KeyIn(x, g) =>
              \E i \in DOMAIN fs : KeyIn(x, fs[i]) /\ fs[i].editor = g.editor
         /\ g.editor = 0 =>
              \/ g.key = 0 /\ g.target.key = 0 /\ ~g.panel.open /\ ~g.inflight
              \/ \E i \in DOMAIN fs :
                   /\ fs[i].editor = 0 /\ g.key = fs[i].key /\ g.panel = fs[i].panel
                   /\ g.pending = fs[i].pending /\ g.inflight = fs[i].inflight
                   /\ g.target.key = 0
<1>0. Page(fs, v, kept)[p] \in Forms
  BY GoodPage DEF GoodForms, GoodForm
<1>1. PICK g : g = Page(fs, v, kept)[p]
  OBVIOUS
<1>2. CASE /\ p \in {0} \cup Live(v) /\ Known(p, v) /\ g = Restored(FormOf(p, v), kept)
  <2>1. PICK f : f = FormOf(p, v)
    OBVIOUS
  <2>2. f \in Forms /\ f.editor = p /\ f.editor \in Editors
    BY <1>2, <2>1, GoodFormOf, FormTyped DEF GoodForm
  <2>3. f.key = 0 /\ f.target = NoTarget /\ f.panel = NoPanel /\ ~f.inflight
    BY <2>1 DEF FormOf
  <2>4. /\ g.editor = p /\ g.key = 0 /\ g.target.key = 0 /\ ~g.panel.open
        /\ ~g.inflight
    BY <1>2, <2>1, <2>2, <2>3, FreshForm
  <2> QED
    BY <1>0, <1>1, <2>4 DEF KeyIn
<1>3. CASE DirtyFormsOf(fs, p) # {} /\ g = Grafted(fs, p, v)
  <2> DEFINE last == LastOf(DirtyFormsOf(fs, p))
             replaced == DirtyFormsOf(fs, p) \ {last}
             first == fs[LastOf(replaced)]
             target == IF replaced = {}
               THEN [given |-> TRUE, text |-> ScopeAt(v, p).text, version |-> v, key |-> 0]
               ELSE [given |-> TRUE, text |-> first.text, version |-> first.version,
                     key |-> first.key]
  <2>1. /\ last \in DOMAIN fs /\ fs[last].editor = p /\ fs[last] \in Forms
        /\ last \in DirtyFormsOf(fs, p)
        /\ g.editor = p /\ g.key = fs[last].key /\ g.panel = fs[last].panel
        /\ g.pending = fs[last].pending /\ g.inflight = fs[last].inflight
    BY <1>3, GraftedFrom
  <2>2. g = [fs[last] EXCEPT !.target = target]
    BY <1>3 DEF Grafted
  <2>3. replaced # {} => /\ LastOf(replaced) \in DOMAIN fs /\ LastOf(replaced) # last
                         /\ first.editor = p
    <3>1. replaced \subseteq Places
      BY DEF DirtyFormsOf, GoodForms
    <3> HIDE DEF last
    <3>2. replaced # {} => LastOf(replaced) \in replaced
      BY <3>1, LastExists
    <3> QED
      BY <3>2 DEF DirtyFormsOf
  <2>4. target.key = 0 \/ (replaced # {} /\ target.key = first.key)
    OBVIOUS
  <2>5. p = 0 => replaced = {}
    <3> SUFFICES ASSUME p = 0, replaced # {} PROVE FALSE
      OBVIOUS
    <3>1. \A i \in DOMAIN fs : fs[i].editor = 0 => i = 0
      <4>1. \A i \in DOMAIN fs : i \in Int
        BY Sizes DEF GoodForms
      <4> QED
        BY <4>1 DEF PlacedIn
    <3> HIDE DEF last, replaced, first
    <3> QED
      BY <2>1, <2>3, <3>1 DEF first
  <2> HIDE DEF target, first, replaced, last
  <2>6. g.target = target
    BY <2>1, <2>2 DEF Forms
  <2>7. ASSUME NEW x, x # 0, KeyIn(x, g)
        PROVE  \E i \in DOMAIN fs : KeyIn(x, fs[i]) /\ fs[i].editor = g.editor
    <3>1. CASE x = g.key
      BY <2>1, <3>1 DEF KeyIn
    <3>2. CASE x = g.target.key
      <4>1. replaced # {} /\ x = fs[LastOf(replaced)].key
        BY <2>4, <2>6, <2>7, <3>2 DEF first
      <4> QED
        BY <2>1, <2>3, <4>1 DEF KeyIn, first
    <3> QED
      BY <2>7, <3>1, <3>2 DEF KeyIn
  <2>8. g.editor = 0 => g.target.key = 0
    BY <2>1, <2>4, <2>5, <2>6
  <2>9. g.editor = 0 =>
              \E i \in DOMAIN fs :
                   /\ fs[i].editor = 0 /\ g.key = fs[i].key /\ g.panel = fs[i].panel
                   /\ g.pending = fs[i].pending /\ g.inflight = fs[i].inflight
                   /\ g.target.key = 0
    BY <2>1, <2>8
  <2> QED
    BY <1>0, <1>1, <2>7, <2>9
<1>4. CASE \E i \in WithoutPlace(fs, v) : g = [fs[i] EXCEPT !.gone = TRUE]
  <2>1. PICK i \in WithoutPlace(fs, v) : g = [fs[i] EXCEPT !.gone = TRUE]
    BY <1>4
  <2>2. i \in DOMAIN fs /\ fs[i].editor # 0
    BY DEF WithoutPlace
  <2>3. fs[i] \in Forms
    BY <2>2 DEF GoodForms, GoodForm
  <2>4. g.editor = fs[i].editor /\ g.key = fs[i].key /\ g.target = fs[i].target
    BY <2>1, <2>3 DEF Forms
  <2> QED
    BY <1>0, <1>1, <2>2, <2>4 DEF KeyIn
<1> QED
  BY <1>1, <1>2, <1>3, <1>4, PageForms

\* A view of forms that are heirs of those there were.
LEMMA ViewAside ==
  ASSUME BInv, CInv, FInv, NEW fs, GoodForms(fs, keys), PlacedIn(fs),
         \A i \in DOMAIN fs : i \in DOMAIN forms /\ Heir(fs[i], forms[i]),
         NEW v \in Versions, NEW panel, NEW pause, NEW who, Adopt(fs, v, panel, pause, who)
  PROVE  KeysKept /\ CreatorsKept
<1>1. Rows /\ keys \in Nat /\ GoodStore(store)
  BY BInvParts
<1>2. PICK kept : kept = stored'
  OBVIOUS
<1>3. PICK page : page = Page(fs, v, kept)
  OBVIOUS
<1>4. forms' = [i \in DOMAIN page |->
                   [page[i] EXCEPT !.inflight = @ /\ fetch'.phase # "idle",
                                   !.unrefreshed = @ /\ reread'.phase # "none"]]
  BY <1>2, <1>3 DEF Adopt
<1>5. ASSUME NEW p \in DOMAIN page
      PROVE  /\ page[p] \in Forms
             /\ \A x : x # 0 /\ KeyIn(x, page[p]) =>
                  \E i \in DOMAIN fs : KeyIn(x, fs[i]) /\ fs[i].editor = page[p].editor
             /\ page[p].editor = 0 =>
                  \/ /\ page[p].key = 0 /\ page[p].target.key = 0 /\ ~page[p].panel.open
                     /\ ~page[p].inflight
                  \/ \E i \in DOMAIN fs :
                       /\ fs[i].editor = 0 /\ page[p].key = fs[i].key
                       /\ page[p].panel = fs[i].panel /\ page[p].pending = fs[i].pending
                       /\ page[p].inflight = fs[i].inflight /\ page[p].target.key = 0
  BY <1>1, <1>3, PageKeys
<1>6. ASSUME NEW p \in DOMAIN page
      PROVE  /\ forms'[p].editor = page[p].editor /\ forms'[p].key = page[p].key
             /\ forms'[p].target = page[p].target /\ forms'[p].panel = page[p].panel
             /\ forms'[p].pending = page[p].pending
             /\ forms'[p].inflight => page[p].inflight
             /\ Creating' => forms'[p].inflight = page[p].inflight
  <2>1. PICK b \in BOOLEAN, u \in BOOLEAN : /\ b = (page[p].inflight /\ fetch'.phase # "idle")
                                          /\ u = (page[p].unrefreshed /\ reread'.phase # "none")
    OBVIOUS
  <2>2. forms'[p] = [page[p] EXCEPT !.inflight = b, !.unrefreshed = u]
    BY <1>4, <2>1
  <2>3. /\ forms'[p].editor = page[p].editor /\ forms'[p].key = page[p].key
        /\ forms'[p].target = page[p].target /\ forms'[p].panel = page[p].panel
        /\ forms'[p].pending = page[p].pending /\ forms'[p].inflight = b
    BY <1>5, <2>2 DEF Forms
  <2>4. page[p].inflight \in BOOLEAN
    BY <1>5 DEF Forms
  <2>5. Creating' => b = page[p].inflight
    BY <2>1, <2>4 DEF Creating, Unanswered
  <2> QED
    BY <2>1, <2>3, <2>5
<1>7. DOMAIN forms' = DOMAIN page
  BY <1>4
<1>8. KeysKept
  <2> SUFFICES ASSUME NEW p \in DOMAIN page, NEW x, x # 0, KeyIn(x, forms'[p])
               PROVE  \E i \in DOMAIN forms : KeyIn(x, forms[i])
                                               /\ (forms[i].editor = 0 <=> forms'[p].editor = 0)
    BY <1>7 DEF KeysKept
  <2>1. KeyIn(x, page[p])
    BY <1>6 DEF KeyIn
  <2>2. PICK i \in DOMAIN fs : KeyIn(x, fs[i]) /\ fs[i].editor = page[p].editor
    BY <1>5, <2>1
  <2>3. i \in DOMAIN forms /\ Heir(fs[i], forms[i])
    OBVIOUS
  <2> QED
    BY <1>6, <2>2, <2>3 DEF Heir
<1>9. CreatorsKept
  <2> SUFFICES ASSUME NEW p \in DOMAIN page, page[p].editor = 0
               PROVE  /\ ~page[p].panel.open /\ page[p].target.key = 0
                      /\ \/ page[p].key = 0 /\ ~forms'[p].inflight
                         \/ \E i \in DOMAIN forms :
                              forms[i].editor = 0 /\ CreatesAs(forms'[p], forms[i])
    BY <1>6, <1>7 DEF CreatorsKept
  <2>1. CASE /\ page[p].key = 0 /\ page[p].target.key = 0 /\ ~page[p].panel.open
             /\ ~page[p].inflight
    BY <2>1, <1>6
  <2>2. CASE \E i \in DOMAIN fs :
               /\ fs[i].editor = 0 /\ page[p].key = fs[i].key /\ page[p].panel = fs[i].panel
               /\ page[p].pending = fs[i].pending /\ page[p].inflight = fs[i].inflight
               /\ page[p].target.key = 0
    <3>1. PICK i \in DOMAIN fs :
               /\ fs[i].editor = 0 /\ page[p].key = fs[i].key /\ page[p].panel = fs[i].panel
               /\ page[p].pending = fs[i].pending /\ page[p].inflight = fs[i].inflight
               /\ page[p].target.key = 0
      BY <2>2
    <3>2. i \in DOMAIN forms /\ Heir(fs[i], forms[i]) /\ forms[i].editor = 0
      BY <3>1 DEF Heir
    <3>3. Creator(forms[i])
      BY <3>2 DEF FInv, Creators
    <3>4. page[p].key # 0 => page[p].key = forms[i].key
      BY <3>1, <3>2, <3>3 DEF Heir, KeyIn, Creator
    <3>5. CreatesAs(forms'[p], forms[i])
      BY <1>6, <3>1, <3>2, <3>4 DEF Heir, CreatesAs
    <3> QED
      BY <3>1, <3>2, <3>3, <3>5 DEF Heir, Creator
  <2> QED
    BY <1>5, <2>1, <2>2
<1> QED
  BY <1>8, <1>9

\* The panel of a view is the one there was or that of the unknown command, which is
\* not a creation: the form that creates is on every page.
LEMMA ViewPanel ==
  ASSUME Rows, NEW k \in Nat, NEW fs, GoodForms(fs, k), GoodStore(store), NEW v \in Versions,
         NEW panel, NEW pause, NEW who, Adopt(fs, v, panel, pause, who)
  PROVE  \/ orphan' = panel
         \/ /\ panel.cmd = NoCommand /\ orphan'.cmd = unknown' /\ orphan'.cmd # NoCommand
            /\ orphan'.cmd.editor # 0
<1>1. PICK page, kept : kept = stored' /\ page = Page(fs, v, kept)
  OBVIOUS
<1>2. orphan' = OrphanOn(page, panel, unknown')
  BY <1>1 DEF Adopt
<1>3. 0 \in DOMAIN page /\ page[0].editor = 0
  <2>1. 0 \in DOMAIN page
    BY <1>1 DEF Page
  <2>2. CASE page[0] = Restored(FormOf(0, v), kept) /\ page[0].editor = 0
    BY <2>1, <2>2
  <2>3. CASE \E i \in DOMAIN fs : 0 = PlaceOf(fs, v, i) /\ TakenFrom(page[0], fs[i])
    <3>1. PICK i \in DOMAIN fs : 0 = PlaceOf(fs, v, i) /\ TakenFrom(page[0], fs[i])
      BY <2>3
    <3>2. fs[i].editor \in Nat
      BY Sizes, FormTyped DEF GoodForms, GoodForm
    <3>3. fs[i].editor = 0
      BY <3>1, <3>2 DEF PlaceOf, KeptAt
    <3> QED
      BY <2>1, <3>1, <3>3 DEF TakenFrom
  <2> QED
    BY <1>1, <2>1, <2>2, <2>3, PageFrom
<1> QED
  BY <1>2, <1>3 DEF OrphanOn

-----------------------------------------------------------------------------
(***************************************************************************)
(* Steps beside a creation.                                                *)
(***************************************************************************)
LEMMA InFlightEdit ==
  ASSUME BInv, ~Creating, fetch.phase \in Unanswered
  PROVE  fetch.cmd.editor # 0 /\ fetch.cmd.editor \in Editors /\ fetch.cmd # NoCommand
<1>1. GoodCommand(fetch.cmd, keys)
  BY BInvParts DEF GoodFetch
<1> QED
  BY <1>1 DEF Creating, GoodCommand, Commands, NoCommand

LEMMA Cleared ==
  ASSUME BInv, ClearPending
  PROVE  /\ fetch.cmd.editor # 0 => stored'[0] = stored[0]
         /\ fetch.cmd.editor \in Editors => stored'[fetch.cmd.editor] = NoCommand
         /\ \A e \in Editors : Old(stored'[e])
         /\ Old(unknown')
<1>1. stored \in [Editors -> Commands] /\ 0 \in Editors
  BY BInvParts, Sizes DEF GoodStored
<1>2. stored' = [stored EXCEPT ![fetch.cmd.editor] = NoCommand]
      /\ unknown' \in {unknown, NoCommand}
  BY DEF ClearPending
<1>3. \A e \in Editors : stored'[e] = IF e = fetch.cmd.editor THEN NoCommand ELSE stored[e]
  BY <1>1, <1>2
<1> QED
  BY <1>1, <1>2, <1>3, HeldOld

LEMMA Retained ==
  ASSUME BInv, RetainPending, fetch.phase \in Unanswered
  PROVE  /\ fetch.cmd.editor # 0 => stored'[0] = stored[0]
         /\ fetch.cmd.editor = 0 => stored'[0] = fetch.cmd
         /\ \A e \in Editors : Old(stored'[e])
         /\ Old(unknown')
<1>1. stored \in [Editors -> Commands] /\ 0 \in Editors
  BY BInvParts, Sizes DEF GoodStored
<1>2. stored' = [stored EXCEPT ![fetch.cmd.editor] = fetch.cmd] /\ unknown' = fetch.cmd
  BY DEF RetainPending
<1>3. \A e \in Editors : stored'[e] = IF e = fetch.cmd.editor THEN fetch.cmd ELSE stored[e]
  BY <1>1, <1>2
<1> QED
  BY <1>1, <1>2, <1>3, HeldOld

LEMMA ViewsCreate ==
  ASSUME BInv, CInv, FInv, Refreshed \/ Rereaded
  PROVE  FInv'
<1>1. /\ stored' = stored /\ unknown' = unknown /\ copies' = copies
      /\ told' = told /\ revisions' = revisions /\ keys' = keys
  BY DEF Refreshed, Rereaded
<1>2. Rows /\ keys \in Nat /\ GoodForms(forms, keys) /\ GoodStore(store) /\ PlacedIn(forms)
  BY BInvParts DEF CInv
<1>3. PICK v, who : v \in Versions /\ Adopt(forms, v, orphan, paused, who)
  BY BInvParts DEF GoodFetch, Fetches, Rereads, Refreshed, Rereaded
<1>4. KeysKept /\ CreatorsKept
  <2>1. \A i \in DOMAIN forms : i \in DOMAIN forms /\ Heir(forms[i], forms[i])
    BY HeirSelf
  <2> QED
    BY <1>2, <1>3, <2>1, ViewAside
<1>5. \/ orphan' = orphan
      \/ /\ orphan.cmd = NoCommand /\ orphan'.cmd = unknown' /\ orphan'.cmd # NoCommand
         /\ orphan'.cmd.editor # 0
  BY <1>2, <1>3, ViewPanel
<1>6. Old(orphan'.cmd) /\ Sent' = Sent
  BY <1>1, <1>5, HeldOld, SentSame
<1>7. CASE Refreshed
  <2>1. fetch'.phase = "idle" /\ ~Creating
    BY <1>7 DEF Refreshed, NoFetch, Creating, Unanswered
  <2>2. Panelled'
    BY <1>5, <2>1 DEF FInv, Panelled, Unanswered
  <2>3. fetch'.phase \notin Unanswered
    BY <2>1 DEF Unanswered
  <2> QED
    BY <1>1, <1>4, <1>6, <2>1, <2>2, <2>3, HeldOld, AsideStep
<1>8. CASE Rereaded
  <2>1. /\ fetch'.phase = fetch.phase /\ fetch'.cmd = fetch.cmd /\ fetch'.retry = fetch.retry
        /\ fetch.phase \in Unanswered /\ Senders # {} => Senders' # {} \/ fetch'.detached
        /\ fetch' = fetch \/ fetch'.detached
        /\ fetch.detached => fetch' = fetch
    BY <1>8, RereadedSends
  <2>2. fetch.phase \in Unanswered /\ SentByPanel' => SentByPanel
    BY <2>1 DEF SentByPanel
  <2>3. Panelled'
    <3>1. CASE fetch.phase \in Unanswered /\ SentByPanel
      <4>1. orphan' = orphan
        BY <1>5, <3>1 DEF FInv, Panelled
      <4> QED
        BY <2>1, <3>1, <4>1 DEF FInv, Panelled
    <3>2. CASE ~(fetch.phase \in Unanswered /\ SentByPanel)
      BY <1>5, <2>1, <2>2, <3>2 DEF FInv, Panelled
    <3> QED
      BY <3>1, <3>2
  <2> QED
    BY <1>1, <1>4, <1>6, <2>1, <2>3, HeldOld, AsideStep
<1> QED
  BY <1>7, <1>8

\* The panel offers its command again, or no longer.
LEMMA PanelReleased ==
  ASSUME BInv, FInv, NEW still \in BOOLEAN, OrphanPends(still),
         fetch.phase \in Unanswered, fetch'.phase \notin Unanswered
  PROVE  Panelled' /\ Old(orphan'.cmd)
<1>1. orphan \in Orphans
  BY BInvParts
<1>2. CASE SentByPanel
  <2>1. orphan' = [orphan EXCEPT !.pending = still]
    BY <1>2 DEF OrphanPends
  <2>2. orphan'.cmd = orphan.cmd /\ orphan.cmd # NoCommand
    BY <1>1, <1>2, <2>1 DEF Orphans, FInv, Panelled
  <2> QED
    BY <2>2, HeldOld DEF FInv, Panelled
<1>3. CASE ~SentByPanel
  BY <1>3, HeldOld DEF OrphanPends, FInv, Panelled
<1> QED
  BY <1>2, <1>3

\* Forms that stay what they are, beside a creation.
LEMMA ConflictShownCreates ==
  ASSUME BInv, CInv, FInv, ConflictShown
  PROVE  FInv'
<1>1. /\ fetch.phase = "conflict" /\ ClearPending /\ fetch'.phase = "idle"
      /\ copies' = copies /\ told' = told /\ revisions' = revisions /\ keys' = keys
  BY DEF ConflictShown, NoFetch
<1>2. ~Creating /\ fetch.phase \in Unanswered /\ fetch'.phase \notin Unanswered
  BY <1>1 DEF FInv, OnItsWay, Creating, Unanswered
<1>3. fetch.cmd.editor # 0
  BY <1>2, InFlightEdit
<1>4. /\ stored'[0] = stored[0] /\ \A e \in Editors : Old(stored'[e])
      /\ Old(unknown') /\ Sent' = Sent
  BY <1>1, <1>3, Cleared, SentSame
<1>5. \A i \in Senders : i \in DOMAIN forms /\ forms[i].editor # 0 /\ forms[i] \in Forms
  BY <1>2, <1>3, FormsTyped DEF CInv, OneSender, Senders
<1>6. CASE Adopt(WithoutPending, fetch.page,
                 IF SentByPanel THEN [orphan EXCEPT !.pending = FALSE] ELSE orphan, FALSE,
                 "nobody")
  <2>1. PICK panel : panel = IF SentByPanel THEN [orphan EXCEPT !.pending = FALSE] ELSE orphan
    OBVIOUS
  <2>2. panel.cmd = orphan.cmd /\ (panel.pending => orphan.pending)
    BY <2>1, BInvParts DEF Orphans
  <2>3. PICK fs : fs = WithoutPending
    OBVIOUS
  <2>4. ASSUME NEW i \in DOMAIN forms
        PROVE  /\ fs[i] \in Forms /\ fs[i].editor = forms[i].editor
               /\ fs[i].version = forms[i].version /\ fs[i].target = forms[i].target
               /\ fs[i].panel = forms[i].panel /\ fs[i].key = forms[i].key
               /\ fs[i].inflight = forms[i].inflight
               /\ forms[i].editor = 0 => fs[i].pending = forms[i].pending
    <3>1. CASE forms[i].inflight
      <4>1. fs[i] = [forms[i] EXCEPT !.pending = FALSE] /\ i \in Senders
        BY <2>3, <3>1 DEF WithoutPending, Senders
      <4> QED
        BY <1>5, <4>1 DEF Forms
    <3>2. CASE ~forms[i].inflight
      BY <2>3, <3>2, FormsTyped DEF WithoutPending
    <3> QED
      BY <3>1, <3>2
  <2>5. DOMAIN fs = DOMAIN forms /\ fs = [i \in DOMAIN forms |-> fs[i]]
    BY <2>3 DEF WithoutPending
  <2>6. GoodForms(fs, keys) /\ PlacedIn(fs)
    <3>1. GoodForms(fs, keys)
      BY <2>4, <2>5, GoodMarks
    <3>2. PlacedIn(fs)
      BY <2>4, <2>5 DEF CInv, PlacedIn
    <3> QED
      BY <3>1, <3>2
  <2>7. \A i \in DOMAIN fs : i \in DOMAIN forms /\ Heir(fs[i], forms[i])
    BY <2>4, <2>5 DEF Heir, KeyIn
  <2>8. fetch.page \in Versions /\ Rows /\ keys \in Nat /\ GoodStore(store)
    BY BInvParts DEF GoodFetch, Fetches
  <2>9. Adopt(fs, fetch.page, panel, FALSE, "nobody")
    BY <1>6, <2>1, <2>3
  <2>10. KeysKept /\ CreatorsKept
    BY <2>6, <2>7, <2>8, <2>9, ViewAside
  <2>11. \/ orphan' = panel
         \/ /\ orphan'.cmd = unknown' /\ orphan'.cmd # NoCommand /\ orphan'.cmd.editor # 0
    BY <2>6, <2>8, <2>9, ViewPanel
  <2>12. Panelled' /\ Old(orphan'.cmd)
    BY <1>2, <1>4, <2>2, <2>11, HeldOld DEF FInv, Panelled
  <2> QED
    BY <1>1, <1>2, <1>4, <2>10, <2>12, AsideStep
<1>8. CASE forms' = forms /\ OrphanPends(FALSE)
  <2>1. \A j \in DOMAIN forms' : j \in DOMAIN forms /\ Heir(forms'[j], forms[j])
    BY <1>8, HeirSelf
  <2>2. KeysKept /\ CreatorsKept
    BY <2>1, HeirsKeep
  <2>3. Panelled' /\ Old(orphan'.cmd)
    BY <1>2, <1>8, PanelReleased
  <2> QED
    BY <1>1, <1>2, <1>4, <2>2, <2>3, AsideStep
<1>7. ASSUME NEW i \in Senders, Put(i, Compared(forms[i])), OrphanPends(FALSE)
      PROVE  FInv'
  <2>1. PICK f : f = Compared(forms[i])
    OBVIOUS
  <2>2. Heir(f, forms[i])
    <3> DEFINE a == Answered(forms[i])
               listed == forms[i].editor \in Live(fetch.page)
               panel == [open |-> TRUE, mine |-> fetch.cmd.text, current |-> fetch.text,
                         version |-> fetch.page, listed |-> listed]
               target == IF listed THEN [given |-> TRUE, text |-> fetch.text,
                                         version |-> fetch.page, key |-> 0]
                         ELSE a.target
    <3>1. f = [a EXCEPT !.panel = panel, !.target = target] /\ (target.key = 0 \/ target = a.target)
      BY <1>5, <2>1 DEF Compared, Answered, Forms
    <3>2. /\ a \in Forms /\ a.editor = forms[i].editor /\ a.key = forms[i].key
          /\ a.target = forms[i].target
      BY <1>5 DEF Answered, Forms
    <3> HIDE DEF a, panel, target
    <3>3. f.editor = a.editor /\ f.key = a.key /\ f.target = target
      BY <3>1, <3>2 DEF Forms
    <3> QED
      BY <1>5, <3>1, <3>2, <3>3 DEF Heir, KeyIn
  <2>3. forms' = [forms EXCEPT ![i] = f]
    BY <1>7, <2>1 DEF Put
  <2>4. \A j \in DOMAIN forms' : j \in DOMAIN forms /\ Heir(forms'[j], forms[j])
    BY <1>5, <2>2, <2>3, HeirSelf
  <2>5. KeysKept /\ CreatorsKept
    BY <1>4, <2>4, HeirsKeep
  <2>6. Panelled' /\ Old(orphan'.cmd)
    BY <1>2, <1>7, PanelReleased
  <2> QED
    BY <1>1, <1>2, <1>4, <2>5, <2>6, AsideStep
<1> QED
  BY <1>6, <1>7, <1>8 DEF ConflictShown

LEMMA ReadsCreate ==
  ASSUME BInv, CInv, FInv, RefreshFails \/ ServerReads \/ RefreshRead
  PROVE  FInv'
<1>1. /\ stored' = stored /\ unknown' = unknown /\ orphan' = orphan
      /\ copies' = copies /\ told' = told /\ revisions' = revisions /\ keys' = keys
  BY DEF RefreshFails, ServerReads, RefreshRead, client, offers
<1>2. fetch \in Fetches
  BY BInvParts DEF GoodFetch
<1>3. \A j \in DOMAIN forms' : j \in DOMAIN forms /\ Heir(forms'[j], forms[j])
  <2>1. CASE RefreshFails
    <3>1. /\ forms' = [i \in DOMAIN forms |->
                 [forms[i] EXCEPT !.inflight = FALSE,
                    !.unrefreshed = IF reread.phase = "read" THEN @ ELSE forms[i].inflight]]
          /\ ~Creating'
      BY <2>1 DEF RefreshFails, NoFetch, Creating, Unanswered
    <3>2. ASSUME NEW j \in DOMAIN forms
          PROVE  Heir(forms'[j], forms[j])
      <4>1. PICK u : /\ forms'[j] = [forms[j] EXCEPT !.inflight = FALSE, !.unrefreshed = u]
                     /\ forms[j] \in Forms
        BY <3>1, FormsTyped
      <4>2. /\ forms'[j].editor = forms[j].editor /\ forms'[j].key = forms[j].key
            /\ forms'[j].target = forms[j].target /\ forms'[j].panel = forms[j].panel
            /\ forms'[j].pending = forms[j].pending
        BY <4>1 DEF Forms
      <4> QED
        BY <3>1, <4>2 DEF Heir, KeyIn
    <3> QED
      BY <3>1, <3>2
  <2>2. CASE ServerReads \/ RefreshRead
    BY <2>2, HeirSelf DEF ServerReads, RefreshRead, client
  <2> QED
    BY <2>1, <2>2
<1>4. KeysKept /\ CreatorsKept
  BY <1>1, <1>3, HeirsKeep
<1>5. /\ ~Creating
      /\ fetch'.phase \in Unanswered =>
           /\ fetch.phase \in Unanswered /\ fetch'.cmd = fetch.cmd /\ forms' = forms
           /\ fetch'.detached = fetch.detached
  <2>1. CASE RefreshFails
    BY <2>1 DEF RefreshFails, NoFetch, Unanswered, Creating
  <2>3. CASE RefreshRead
    <3>1. fetch.phase = "refreshing" /\ fetch'.phase = "refreshed"
      BY <2>3, <1>2 DEF RefreshRead, Fetches
    <3> QED
      BY <3>1 DEF Unanswered, Creating
  <2>2. CASE ServerReads
    <3>1. /\ fetch.phase = "refused" /\ fetch'.cmd = fetch.cmd /\ forms' = forms
          /\ fetch'.detached = fetch.detached
      BY <2>2, <1>2 DEF ServerReads, Fetches, client
    <3> QED
      BY <3>1 DEF Unanswered, Creating, FInv, OnItsWay
  <2> QED
    BY <2>1, <2>2, <2>3
<1>6. Panelled'
  BY <1>1, <1>5 DEF FInv, Panelled, SentByPanel, Senders
<1>7. fetch'.phase \in Unanswered => fetch'.cmd.editor # 0 /\ Old(fetch'.cmd)
  BY <1>5, HeldOld, InFlightEdit
<1> QED
  BY <1>1, <1>4, <1>5, <1>6, <1>7, SentSame, HeldOld, AsideStep

-----------------------------------------------------------------------------
(***************************************************************************)
(* What becomes of the creation in flight.                                 *)
(***************************************************************************)
\* Forms that create and have a key offer its retry.
CreatorsOffer ==
  \A j \in DOMAIN forms' : forms'[j].editor = 0 =>
    /\ ~forms'[j].panel.open /\ forms'[j].target.key = 0
    /\ forms'[j].key = 0 \/ forms'[j].pending

\* It is kept for a retry.
LEMMA KeptForRetry ==
  ASSUME BInv, CInv, FInv, KeysKept, CreatorsOffer, CommandsKept,
         Outstanding # NoCommand, stored'[0] = Outstanding, ~Creating',
         keys' = keys, told' = told, \A d \in Sent' : d \in Sent \/ d = Outstanding
  PROVE  Issued' /\ KeysApart' /\ OnItsWay' /\ Creators' /\ Cardinality(Behind') <= told'
<1>1. Outstanding' = Outstanding
  BY DEF Outstanding
<1>2. /\ Issued' /\ KeysApart' /\ Cardinality(Behind') <= told'
      /\ \A d \in Sent' : d.key = Outstanding'.key => d = Outstanding'
  BY <1>1, StillOutstanding
<1>3. OnItsWay'
  BY <1>1, <1>2 DEF OnItsWay
<1>4. Creators'
  BY DEF CreatorsOffer, Creators, Creator
<1> QED
  BY <1>2, <1>3, <1>4

\* It is left behind, and an earlier one is kept for a retry.
LEMMA KeptBeside ==
  ASSUME BInv, CInv, FInv, KeysKept, CreatorsOffer, CommandsKept,
         Creating, ~fetch.retry, stored[0] # NoCommand, stored'[0] = stored[0], ~Creating',
         keys' = keys, told' = told, \A d \in Sent' : d \in Sent \/ d = fetch.cmd
  PROVE  Issued' /\ KeysApart' /\ OnItsWay' /\ Creators' /\ Cardinality(Behind') <= told'
<1>1. /\ Outstanding' = stored[0] /\ Outstanding = fetch.cmd /\ fetch.cmd \in Commanded
      /\ stored[0].key \in 1 .. keys /\ stored[0].key # fetch.cmd.key
  BY InFlight DEF Outstanding, FInv, OnItsWay, Creating
<1>2. Issued'
  <2>1. \A d \in Executed' : d.key = 0 \/ d \in Commanded
    BY <1>1, InFlight DEF Sent
  <2> QED
    BY <2>1, BInvParts, IssuedStays
<1>3. KeysApart'
  BY ApartStays
<1>4. OnItsWay'
  BY <1>1 DEF FInv, OnItsWay
<1>5. Creators'
  BY DEF CreatorsOffer, Creators, Creator
<1>6. stored[0].key \in Behind
  BY <1>1 DEF Behind
<1>7. Behind' \subseteq (Behind \ {stored[0].key}) \cup {fetch.cmd.key}
  <2> SUFFICES ASSUME NEW k \in 1 .. keys, k # stored[0].key, k # fetch.cmd.key,
                      NEW d \in Sent', d.editor = 0, d.key = k
               PROVE  d \in Sent
    BY <1>1 DEF Behind
  <2> QED
    OBVIOUS
<1>8. Cardinality(Behind') <= told'
  BY <1>6, <1>7, BehindMoves, BInvParts DEF FInv
<1> QED
  BY <1>2, <1>3, <1>4, <1>5, <1>8

\* Forms that create have no key that was sent, unless they offer a retry.
CreatorsFree ==
  \A j \in DOMAIN forms' : forms'[j].editor = 0 =>
    /\ ~forms'[j].panel.open /\ forms'[j].target.key = 0
    /\ forms'[j].key # 0 /\ ~forms'[j].pending => \A d \in Sent' : d.key # forms'[j].key

\* It is given up or done with: the page was told unless it was never executed.
LEMMA Settled ==
  ASSUME BInv, CInv, FInv, KeysKept, CreatorsFree, CommandsKept,
         stored'[0] = NoCommand, ~Creating',
         keys' = keys, \A d \in Sent' : d \in Sent \/ d = Outstanding,
         told' = told + 1 \/ (told' = told /\ \A d \in Sent' : d.key # Outstanding.key)
  PROVE  Issued' /\ KeysApart' /\ OnItsWay' /\ Creators' /\ Cardinality(Behind') <= told'
<1>1. Outstanding' = NoCommand /\ NoCommand.key = 0
  BY DEF Outstanding, NoCommand
<1>2. Issued'
  <2>1. \A d \in Executed' : d.key = 0 \/ d \in Commanded
    BY InFlight DEF Sent, NoCommand
  <2> QED
    BY <2>1, BInvParts, IssuedStays
<1>3. KeysApart'
  BY ApartStays
<1>4. OnItsWay'
  BY <1>1 DEF OnItsWay
<1>5. Creators'
  BY DEF CreatorsFree, Creators, Creator
<1>6. ASSUME NEW k \in Behind'
      PROVE  k \in Behind \/ (k = Outstanding.key /\ \E d \in Sent' : d.key = k)
  <2>1. k \in 1 .. keys /\ \E d \in Sent' : d.editor = 0 /\ d.key = k
    BY <1>1, <1>6 DEF Behind
  <2>2. PICK d \in Sent' : d.editor = 0 /\ d.key = k
    BY <2>1
  <2> QED
    BY <2>1, <2>2 DEF Behind
<1>7. CASE told' = told + 1
  <2>1. Behind' \subseteq Behind \cup {Outstanding.key}
    BY <1>6
  <2> QED
    BY <1>2, <1>3, <1>4, <1>5, <1>7, <2>1, BehindGrows, BInvParts DEF FInv
<1>8. CASE told' = told /\ \A d \in Sent' : d.key # Outstanding.key
  <2>1. Behind' \subseteq Behind
    BY <1>6, <1>8
  <2> QED
    BY <1>2, <1>3, <1>4, <1>5, <1>8, <2>1, BehindStays, BInvParts DEF FInv
<1> QED
  BY <1>7, <1>8

\* The server goes on with it.
LEMMA Underway ==
  ASSUME BInv, CInv, FInv, Creating, forms' = forms, stored' = stored, unknown' = unknown,
         orphan' = orphan, keys' = keys, told' = told,
         fetch'.cmd = fetch.cmd, fetch'.retry = fetch.retry, fetch'.detached = fetch.detached,
         \/ fetch'.phase = "committed" /\ \A d \in Sent' : d \in Sent \/ d = fetch.cmd
         \/ fetch'.phase = "rejected" /\ fetch.phase # "committed" /\ Sent' = Sent
  PROVE  FInv'
<1>1. /\ Outstanding = fetch.cmd /\ fetch.cmd # NoCommand
      /\ fetch.cmd \in Commanded
  BY InFlight DEF Creating
<1>2. Creating' /\ Outstanding' = Outstanding
  BY <1>1 DEF Creating, Outstanding, Unanswered
<1>3. \A j \in DOMAIN forms' : j \in DOMAIN forms /\ Heir(forms'[j], forms[j])
  BY HeirSelf
<1>4. KeysKept
  BY <1>3, HeirsKeep
<1>5. \A d \in Sent' : d \in Sent \/ d = Outstanding
  BY <1>1
<1>6. CommandsKept
  <2>1. \A d \in Sent' : Old(d)
    BY <1>1, <1>5, HeldOld DEF Old
  <2>2. Old(fetch'.cmd)
    BY <1>1 DEF Old
  <2> QED
    BY <2>1, <2>2, HeldOld, CommandsStay
<1>7. /\ Issued' /\ KeysApart' /\ Cardinality(Behind') <= told'
      /\ \A d \in Sent' : d.key = Outstanding'.key => d = Outstanding'
  BY <1>1, <1>2, <1>4, <1>5, <1>6, StillOutstanding
<1>8. OnItsWay'
  BY <1>2, <1>7 DEF FInv, OnItsWay
<1>9. Creators'
  BY <1>2 DEF FInv, Creators, Creator
<1>10. Panelled'
  <2>1. Senders' = Senders
    BY DEF Senders
  <2> QED
    BY <2>1 DEF FInv, Panelled, SentByPanel, Creating
<1> QED
  BY <1>7, <1>8, <1>9, <1>10 DEF FInv

LEMMA RejectsCreate ==
  ASSUME BInv, CInv, FInv, ServerRejects
  PROVE  FInv'
<1>1. /\ forms' = forms /\ stored' = stored /\ unknown' = unknown /\ orphan' = orphan
      /\ copies' = copies /\ told' = told /\ revisions' = revisions /\ keys' = keys
      /\ fetch.phase = "sent" /\ fetch' = [fetch EXCEPT !.phase = "rejected"]
  BY DEF ServerRejects, client, offers
<1>2. /\ fetch'.phase = "rejected" /\ fetch'.cmd = fetch.cmd /\ fetch'.retry = fetch.retry
      /\ fetch'.detached = fetch.detached /\ fetch.phase \in Unanswered
  BY <1>1, BInvParts DEF GoodFetch, Fetches, Unanswered
<1>3. Sent' = Sent
  BY <1>1, SentSame
<1>4. CASE Creating
  BY <1>1, <1>2, <1>3, <1>4, Underway
<1>5. CASE ~Creating
  <2>1. \A j \in DOMAIN forms' : j \in DOMAIN forms /\ Heir(forms'[j], forms[j])
    BY <1>1, HeirSelf
  <2>2. KeysKept /\ CreatorsKept
    BY <1>1, <2>1, HeirsKeep
  <2>3. Panelled'
    BY <1>1, <1>2 DEF FInv, Panelled, SentByPanel, Senders
  <2>4. fetch'.cmd.editor # 0 /\ Old(fetch'.cmd)
    BY <1>2, <1>5, HeldOld, InFlightEdit
  <2> QED
    BY <1>1, <1>3, <1>5, <2>2, <2>3, <2>4, HeldOld, AsideStep
<1> QED
  BY <1>4, <1>5

\* A creation is saved or was: nothing else has its key, and it has no baseline.
LEMMA CreationIsSaved ==
  ASSUME BInv, CInv, FInv, Creating
  PROVE  Outcome(fetch.cmd) \in {"saved", "replayed"}
<1>1. Outstanding = fetch.cmd /\ fetch.cmd # NoCommand /\ fetch.cmd.editor = 0
  BY InFlight DEF Creating
<1>2. ASSUME NEW v \in ClaimedBy(fetch.cmd)
      PROVE  SameRequest(v, fetch.cmd)
  <2>1. revisions[v].cmd \in Sent /\ revisions[v].cmd.key = fetch.cmd.key
    BY DEF ClaimedBy, Sent, Executed
  <2>2. revisions[v].cmd = fetch.cmd
    BY <1>1, <2>1 DEF FInv, OnItsWay
  <2> QED
    BY <2>2 DEF SameRequest
<1>3. Baseline(fetch.cmd)
  BY <1>1 DEF Baseline
<1> QED
  BY <1>1, <1>2, <1>3 DEF Outcome

LEMMA ExecutesCreate ==
  ASSUME BInv, CInv, FInv, ServerExecutes
  PROVE  FInv'
<1> DEFINE c == fetch.cmd
<1>1. /\ forms' = forms /\ stored' = stored /\ unknown' = unknown /\ orphan' = orphan
      /\ copies' = copies /\ told' = told /\ keys' = keys /\ fetch.phase = "sent"
  BY DEF ServerExecutes, client, offers
<1>2. fetch \in Fetches /\ revisions \in Seq(Row) /\ fetch.phase \in Unanswered
  BY <1>1, BInvParts DEF GoodFetch, Unanswered
<1>3. c \in Commanded
  BY <1>2, InFlight
<1> HIDE DEF c
<1>4. /\ fetch'.cmd = c /\ fetch'.retry = fetch.retry /\ fetch'.phase \in Unanswered
      /\ fetch'.detached = fetch.detached
      /\ Outcome(c) \in {"saved", "replayed"} => fetch'.phase = "committed"
      /\ \A d \in Sent' : d \in Sent \/ d = c
  <2>1. CASE /\ Outcome(c) = "saved" /\ Save(c)
             /\ fetch' = [fetch EXCEPT !.phase = "committed", !.page = Version + 1,
                            !.action = IF c.editor = 0 THEN Len(PackageAt(Version)) + 1 ELSE c.editor]
    <3>1. PICK row : row = [cmd |-> c, package |-> PackageAfter(c)]
      OBVIOUS
    <3>2. revisions' = Append(revisions, row) /\ row.cmd = c
      BY <2>1, <3>1 DEF Save
    <3>3. Executed' \subseteq Executed \cup {c}
      BY <1>2, <3>2, RowAdded
    <3>4. PICK page, action : fetch' = [fetch EXCEPT !.phase = "committed", !.page = page,
                                                     !.action = action]
      BY <2>1
    <3>5. /\ fetch'.cmd = c /\ fetch'.retry = fetch.retry /\ fetch'.phase = "committed"
          /\ fetch'.detached = fetch.detached
      BY <1>2, <3>4 DEF Fetches, c
    <3> QED
      BY <1>1, <3>3, <3>5 DEF Sent, Unanswered
  <2>2. CASE /\ Outcome(c) = "replayed"
             /\ \E v \in ClaimedBy(c) :
                  fetch' = [fetch EXCEPT !.phase = "committed", !.page = v,
                              !.action = EditorNamed(c, v)]
             /\ UNCHANGED revisions
    <3>1. PICK page, action : fetch' = [fetch EXCEPT !.phase = "committed", !.page = page,
                                                     !.action = action]
      BY <2>2
    <3>2. /\ fetch'.cmd = c /\ fetch'.retry = fetch.retry /\ fetch'.phase = "committed"
          /\ fetch'.detached = fetch.detached
      BY <1>2, <3>1 DEF Fetches, c
    <3>3. Sent' = Sent
      BY <1>1, <2>2, SentSame
    <3> QED
      BY <3>2, <3>3 DEF Unanswered
  <2>3. CASE /\ Outcome(c) \in {"conflict", "key_conflict", "invalid"}
             /\ LET current == ScopeAt(Version, c.editor) IN
                  fetch' = [fetch EXCEPT !.text = current.text, !.removed = current.removed,
                              !.phase = IF Outcome(c) = "conflict" THEN "refused" ELSE Outcome(c)]
             /\ UNCHANGED revisions
    <3>1. PICK text, removed, phase :
            /\ fetch' = [fetch EXCEPT !.text = text, !.removed = removed, !.phase = phase]
            /\ phase \in {"refused", "key_conflict", "invalid"}
      BY <2>3
    <3>2. /\ fetch'.cmd = c /\ fetch'.retry = fetch.retry /\ fetch'.phase = phase
          /\ fetch'.detached = fetch.detached
      BY <1>2, <3>1 DEF Fetches, c
    <3>3. Sent' = Sent
      BY <1>1, <2>3, SentSame
    <3> QED
      BY <2>3, <3>1, <3>2, <3>3 DEF Unanswered
  <2> QED
    BY <2>1, <2>2, <2>3 DEF ServerExecutes, c
<1>5. CASE Creating
  <2>1. fetch'.phase = "committed"
    BY <1>4, <1>5, CreationIsSaved DEF c
  <2> QED
    BY <1>1, <1>4, <1>5, <2>1, Underway DEF c
<1>6. CASE ~Creating
  <2>1. \A j \in DOMAIN forms' : j \in DOMAIN forms /\ Heir(forms'[j], forms[j])
    BY <1>1, HeirSelf
  <2>2. KeysKept /\ CreatorsKept
    BY <1>1, <2>1, HeirsKeep
  <2>3. Panelled'
    BY <1>1, <1>2, <1>4 DEF FInv, Panelled, SentByPanel, Senders, c
  <2>4. c.editor # 0 /\ Old(c)
    BY <1>2, <1>3, <1>6, InFlightEdit DEF c, Old
  <2> QED
    BY <1>1, <1>3, <1>4, <1>6, <2>2, <2>3, <2>4, HeldOld, AsideStep
<1> QED
  BY <1>5, <1>6

LEMMA RefusedCreates ==
  ASSUME BInv, CInv, FInv, Refused
  PROVE  FInv'
<1> DEFINE still == fetch.phase = "rejected" /\ fetch.retry
<1>1. /\ OrphanPends(still) /\ fetch'.phase = "idle"
      /\ (IF still THEN stored' = stored /\ unknown' = unknown ELSE ClearPending)
      /\ copies' = copies /\ told' = told /\ revisions' = revisions /\ keys' = keys
      /\ forms' = [i \in DOMAIN forms |->
            IF forms[i].inflight
              THEN [Answered(forms[i]) EXCEPT !.pending = still,
                      !.key = IF fetch.phase = "key_conflict" THEN 0 ELSE @]
              ELSE forms[i]]
      /\ fetch.phase \in {"rejected", "key_conflict", "invalid"}
  BY DEF Refused, NoFetch
<1>2. still \in BOOLEAN /\ fetch.phase \in Unanswered /\ fetch'.phase \notin Unanswered
  BY <1>1, BInvParts DEF GoodFetch, Fetches, Unanswered
<1>3. Creating => /\ fetch.phase = "rejected" /\ Outstanding = fetch.cmd
                  /\ fetch.cmd # NoCommand /\ fetch.cmd.editor = 0
                  /\ still => stored[0] = fetch.cmd
                  /\ ~still => ~fetch.retry /\ \A d \in Sent : d.key # fetch.cmd.key
  BY <1>1, InFlight DEF FInv, OnItsWay, Creating
<1> HIDE DEF still
<1>4. \A i \in DOMAIN forms : forms[i].inflight => (forms[i].editor = 0 <=> Creating)
  BY <1>2 DEF CInv, OneSender, Creating
<1>5. /\ ~Creating \/ still => stored'[0] = stored[0]
      /\ Creating /\ ~still => stored'[0] = NoCommand
      /\ (\A e \in Editors : Old(stored'[e])) /\ Old(unknown')
  <2>1. CASE still
    BY <1>1, <2>1, HeldOld
  <2>2. CASE ~still
    <3>1. ClearPending /\ 0 \in Editors
      BY <1>1, <2>2, Sizes
    <3> QED
      BY <2>2, <3>1, <1>2, <1>3, Cleared, InFlightEdit
  <2> QED
    BY <2>1, <2>2
<1>6. ASSUME NEW j \in DOMAIN forms
      PROVE  /\ forms'[j].editor = forms[j].editor /\ forms'[j].key \in {0, forms[j].key}
             /\ forms'[j].target = forms[j].target /\ forms'[j].panel = forms[j].panel
             /\ forms'[j].pending = IF forms[j].inflight THEN still ELSE forms[j].pending
             /\ ~forms[j].inflight => forms'[j] = forms[j]
  <2>1. CASE ~forms[j].inflight
    BY <1>1, <2>1
  <2>2. CASE forms[j].inflight
    <3>1. PICK a, key : /\ a = Answered(forms[j])
                        /\ key = IF fetch.phase = "key_conflict" THEN 0 ELSE forms[j].key
      OBVIOUS
    <3>2. /\ a \in Forms /\ a.editor = forms[j].editor /\ a.key = forms[j].key
          /\ a.target = forms[j].target /\ a.panel = forms[j].panel
      BY <3>1, FormsTyped DEF Answered, Forms
    <3>3. forms'[j] = [a EXCEPT !.pending = still, !.key = key]
      BY <1>1, <2>2, <3>1, <3>2
    <3>4. /\ forms'[j].editor = a.editor /\ forms'[j].key = key
          /\ forms'[j].target = a.target /\ forms'[j].panel = a.panel
          /\ forms'[j].pending = still
      BY <3>2, <3>3 DEF Forms
    <3> QED
      BY <2>2, <3>1, <3>2, <3>4
  <2> QED
    BY <2>1, <2>2
<1>7. DOMAIN forms' = DOMAIN forms
  BY <1>1
<1>8. KeysKept
  BY <1>6, <1>7 DEF KeysKept, KeyIn
<1>9. Panelled' /\ Old(orphan'.cmd)
  BY <1>1, <1>2, PanelReleased
<1>10. Sent' = Sent
  BY <1>1, SentSame
<1>11. CommandsKept
  BY <1>2, <1>5, <1>9, <1>10, HeldOld, CommandsStay
<1>12. ~Creating'
  BY <1>2 DEF Creating, Unanswered
<1>13. CASE ~Creating
  <2>1. ASSUME NEW j \in DOMAIN forms PROVE Heir(forms'[j], forms[j])
    <3>1. forms[j].editor = 0 => forms'[j].pending = forms[j].pending
      BY <1>4, <1>6, <1>13
    <3> QED
      BY <1>6, <1>12, <3>1 DEF Heir, KeyIn
  <2>2. CreatorsKept
    BY <1>7, <2>1, HeirsKeep
  <2> QED
    BY <1>1, <1>2, <1>5, <1>8, <1>9, <1>10, <1>13, <2>2, AsideStep
<1>14. CASE Creating /\ still
  <2>1. stored'[0] = Outstanding /\ Outstanding # NoCommand
    BY <1>3, <1>5, <1>14
  <2>2. CreatorsOffer
    <3> SUFFICES ASSUME NEW j \in DOMAIN forms, forms[j].editor = 0
                 PROVE  /\ ~forms'[j].panel.open /\ forms'[j].target.key = 0
                        /\ forms'[j].key = 0 \/ forms'[j].pending
      BY <1>6, <1>7 DEF CreatorsOffer
    <3>1. Creator(forms[j])
      BY DEF FInv, Creators
    <3> QED
      BY <1>2, <1>6, <1>14, <3>1 DEF Creator
  <2>3. \A d \in Sent' : d \in Sent \/ d = Outstanding
    BY <1>10
  <2> QED
    BY <1>1, <1>8, <1>9, <1>11, <1>12, <2>1, <2>2, <2>3, KeptForRetry DEF FInv
<1>15. CASE Creating /\ ~still
  <2>1. stored'[0] = NoCommand /\ \A d \in Sent' : d.key # Outstanding.key
    BY <1>3, <1>5, <1>10, <1>15
  <2>2. CreatorsFree
    <3> SUFFICES ASSUME NEW j \in DOMAIN forms, forms[j].editor = 0
                 PROVE  /\ ~forms'[j].panel.open /\ forms'[j].target.key = 0
                        /\ forms'[j].key # 0 /\ ~forms'[j].pending => forms'[j].key = Outstanding.key
      BY <1>6, <1>7, <2>1 DEF CreatorsFree
    <3>1. Creator(forms[j])
      BY DEF FInv, Creators
    <3> QED
      BY <1>3, <1>6, <1>15, <3>1 DEF Creator
  <2>3. \A d \in Sent' : d \in Sent \/ d = Outstanding
    BY <1>10
  <2> QED
    BY <1>1, <1>8, <1>9, <1>11, <1>12, <2>1, <2>2, <2>3, Settled DEF FInv
<1> QED
  BY <1>13, <1>14, <1>15

\* What was on its way may arrive later.
LEMMA BehindSent ==
  ASSUME LeaveBehind, revisions' = revisions
  PROVE  /\ \A d \in Sent' : d \in Sent \/ (fetch.phase = "sent" /\ d = fetch.cmd)
         /\ fetch.phase # "sent" => Sent' = Sent
<1>1. /\ \A d \in copies' : d \in copies \/ (fetch.phase = "sent" /\ d = fetch.cmd)
      /\ fetch.phase # "sent" => copies' = copies
  BY DEF LeaveBehind
<1>2. Executed' = Executed
  BY DEF Executed, Version
<1> QED
  BY <1>1, <1>2 DEF Sent

LEMMA FailsCreate ==
  ASSUME BInv, CInv, FInv, FetchFails
  PROVE  FInv'
<1>1. /\ OrphanPends(TRUE) /\ RetainPending /\ LeaveBehind /\ fetch'.phase = "idle"
      /\ told' = told /\ revisions' = revisions /\ keys' = keys
      /\ fetch.phase \in Unanswered
      /\ forms' = [i \in DOMAIN forms |->
           IF forms[i].inflight THEN [forms[i] EXCEPT !.inflight = FALSE, !.pending = TRUE]
           ELSE forms[i]]
  BY DEF FetchFails, NoFetch
<1>2. fetch'.phase \notin Unanswered
  BY <1>1 DEF Unanswered
<1>3. /\ fetch.cmd.editor # 0 => stored'[0] = stored[0]
      /\ fetch.cmd.editor = 0 => stored'[0] = fetch.cmd
      /\ \A e \in Editors : Old(stored'[e])
      /\ Old(unknown')
  BY <1>1, Retained
<1>4. Panelled' /\ Old(orphan'.cmd)
  BY <1>1, <1>2, PanelReleased
<1>5. \A d \in Sent' : d \in Sent \/ d = fetch.cmd
  BY <1>1, BehindSent
<1>6. fetch.cmd \in Commanded
  BY <1>1, InFlight
<1>7. CommandsKept
  <2>1. \A d \in Sent' : Old(d)
    BY <1>5, <1>6, HeldOld DEF Old
  <2> QED
    BY <2>1, <1>2, <1>3, <1>4, HeldOld, CommandsStay
<1>8. ASSUME NEW j \in DOMAIN forms
      PROVE  /\ forms'[j].editor = forms[j].editor /\ forms'[j].key = forms[j].key
             /\ forms'[j].target = forms[j].target /\ forms'[j].panel = forms[j].panel
             /\ forms'[j].pending = IF forms[j].inflight THEN TRUE ELSE forms[j].pending
  BY <1>1, FormsTyped DEF Forms
<1>9. DOMAIN forms' = DOMAIN forms
  BY <1>1
<1>10. KeysKept
  BY <1>8, <1>9 DEF KeysKept, KeyIn
<1>11. CASE Creating
  <2>1. Outstanding = fetch.cmd /\ fetch.cmd # NoCommand /\ stored'[0] = Outstanding
    BY <1>3, <1>11, InFlight DEF Creating
  <2>2. CreatorsOffer
    <3> SUFFICES ASSUME NEW j \in DOMAIN forms, forms[j].editor = 0
                 PROVE  /\ ~forms'[j].panel.open /\ forms'[j].target.key = 0
                        /\ forms'[j].key = 0 \/ forms'[j].pending
      BY <1>8, <1>9 DEF CreatorsOffer
    <3>1. Creator(forms[j])
      BY DEF FInv, Creators
    <3> QED
      BY <1>8, <1>11, <3>1 DEF Creator
  <2>3. ~Creating'
    BY <1>2 DEF Creating, Unanswered
  <2> QED
    BY <1>1, <1>4, <1>5, <1>7, <1>10, <2>1, <2>2, <2>3, KeptForRetry DEF FInv
<1>12. CASE ~Creating
  <2>1. fetch.cmd.editor # 0
    BY <1>1, <1>12, InFlightEdit
  <2>2. ASSUME NEW j \in DOMAIN forms
        PROVE  Heir(forms'[j], forms[j])
    <3>1. forms[j].editor = 0 => ~forms[j].inflight
      BY <1>1, <2>1 DEF CInv, OneSender
    <3>2. ~Creating'
      BY <1>2 DEF Creating, Unanswered
    <3> QED
      BY <1>8, <3>1, <3>2 DEF Heir, KeyIn
  <2>3. CreatorsKept
    BY <1>9, <2>2, HeirsKeep
  <2>4. \A d \in Sent' : d.key = 0 \/ d \in Sent \/ (d \in Commanded /\ d.editor # 0)
    BY <1>5, <1>6, <2>1
  <2> QED
    BY <1>1, <1>2, <1>3, <1>4, <1>10, <1>12, <2>1, <2>3, <2>4, AsideStep
<1> QED
  BY <1>11, <1>12

LEMMA AcknowledgedCreates ==
  ASSUME BInv, CInv, FInv, Acknowledged
  PROVE  FInv'
<1>1. /\ fetch.phase = "committed" /\ ClearPending /\ fetch'.phase = "refreshing"
      /\ copies' = copies /\ revisions' = revisions /\ keys' = keys
      /\ told' = IF CreationInFlight THEN told + 1 ELSE told
  BY DEF Acknowledged, NoFetch
<1>2. /\ fetch.phase \in Unanswered /\ fetch'.phase \notin Unanswered
      /\ (CreationInFlight <=> Creating)
  BY <1>1 DEF Unanswered, CreationInFlight, Creating
<1>3. /\ fetch.cmd.editor # 0 => stored'[0] = stored[0]
      /\ fetch.cmd.editor \in Editors => stored'[fetch.cmd.editor] = NoCommand
      /\ \A e \in Editors : Old(stored'[e])
      /\ Old(unknown')
  BY <1>1, Cleared
<1>4. Sent' = Sent
  BY <1>1, SentSame
<1>5. fetch.action # 0 /\ fetch.cmd.editor \in {0, fetch.action}
  <2>1. Named(fetch) /\ fetch \in Fetches /\ Rows
    BY <1>1, BInvParts DEF GoodFetch
  <2>2. DOMAIN PackageAt(fetch.page) = 1 .. Len(PackageAt(fetch.page))
    <3>1. fetch.page \in Versions
      BY <2>1 DEF Fetches
    <3> QED
      BY <2>1, <3>1, Packaged DEF Rows
  <2> QED
    BY <2>1, <2>2 DEF Named
<1>6. orphan' = orphan \/ orphan' = NoOrphan
  BY DEF Acknowledged
<1>7. Panelled' /\ Old(orphan'.cmd)
  BY <1>2, <1>6, HeldOld DEF FInv, Panelled, NoOrphan
<1>8. CommandsKept
  BY <1>2, <1>3, <1>4, <1>7, HeldOld, CommandsStay
<1>9. \/ \E i \in Senders :
           forms' = [forms EXCEPT ![i] = AcknowledgeEditor(forms[i])]
      \/ Senders = {} /\ forms' = forms
  BY DEF Acknowledged, Put, SentByPanel, CInv, OneSender, Senders
<1>10. ASSUME NEW i \in Senders
       PROVE  LET g == AcknowledgeEditor(forms[i]) IN
              /\ g.editor = fetch.action /\ g.key = 0 /\ g.target.key = 0 /\ ~g.panel.open
              /\ i \in DOMAIN forms /\ forms[i].editor = fetch.cmd.editor
  <2>1. i \in DOMAIN forms /\ forms[i] \in Forms /\ forms[i].editor = fetch.cmd.editor
    BY <1>2, FormsTyped DEF Senders, CInv, OneSender
  <2>2. PICK g : g = AcknowledgeEditor(forms[i])
    OBVIOUS
  <2>3. g.editor = fetch.action /\ g.key = 0 /\ g.target = NoTarget /\ g.panel = NoPanel
    BY <2>1, <2>2 DEF AcknowledgeEditor, Forms
  <2> QED
    BY <2>1, <2>2, <2>3 DEF NoTarget, NoPanel
<1>11. CASE Creating
  <2>1. stored'[0] = NoCommand /\ told' = told + 1 /\ Outstanding = fetch.cmd
    <3>1. 0 \in Editors /\ fetch.cmd.editor = 0
      BY <1>11, Sizes DEF Creating
    <3> QED
      BY <1>1, <1>2, <1>3, <1>11, <3>1, InFlight
  <2>2. ~Creating'
    BY <1>2 DEF Creating, Unanswered
  <2>3. \A d \in Sent' : d \in Sent \/ d = Outstanding
    BY <1>4
  <2>4. KeysKept /\ CreatorsFree
    <3>1. CASE Senders = {} /\ forms' = forms
      <4>1. \A j \in DOMAIN forms' : j \in DOMAIN forms /\ Heir(forms'[j], forms[j])
        BY <3>1, HeirSelf
      <4>2. KeysKept
        BY <4>1, HeirsKeep
      <4>3. \A j \in DOMAIN forms : ~forms[j].inflight
        BY <3>1 DEF Senders
      <4>4. CreatorsFree
        BY <1>11, <3>1, <4>3 DEF CreatorsFree, FInv, Creators, Creator
      <4> QED
        BY <4>2, <4>4
    <3>2. ASSUME NEW i \in Senders, forms' = [forms EXCEPT ![i] = AcknowledgeEditor(forms[i])]
          PROVE  KeysKept /\ CreatorsFree
      <4>1. PICK g : g = AcknowledgeEditor(forms[i])
        OBVIOUS
      <4>2. /\ DOMAIN forms' = DOMAIN forms /\ forms'[i] = g
            /\ \A j \in DOMAIN forms : j # i => forms'[j] = forms[j]
            /\ g.editor # 0 /\ g.key = 0 /\ g.target.key = 0
            /\ i \in DOMAIN forms /\ forms[i].editor = 0
        BY <1>5, <1>10, <1>11, <3>2, <4>1 DEF Creating
      <4>3. KeysKept
        BY <4>2 DEF KeysKept, KeyIn
      <4>4. \A j \in DOMAIN forms' : forms'[j].editor # 0
        <5> SUFFICES ASSUME NEW j \in DOMAIN forms, j # i, forms[j].editor = 0 PROVE FALSE
          BY <4>2
        <5> QED
          BY <4>2, OneCreator
      <4>5. CreatorsFree
        BY <4>4 DEF CreatorsFree
      <4> QED
        BY <4>3, <4>5
    <3> QED
      BY <1>9, <3>1, <3>2
  <2> QED
    BY <1>1, <1>7, <1>8, <2>1, <2>2, <2>3, <2>4, Settled DEF FInv
<1>12. CASE ~Creating
  <2>1. fetch.cmd.editor # 0 /\ fetch.action = fetch.cmd.editor
    BY <1>2, <1>5, <1>12, InFlightEdit
  <2>2. \A j \in DOMAIN forms' : j \in DOMAIN forms /\ Heir(forms'[j], forms[j])
    <3>1. ASSUME NEW i \in Senders, forms' = [forms EXCEPT ![i] = AcknowledgeEditor(forms[i])]
          PROVE  \A j \in DOMAIN forms' : j \in DOMAIN forms /\ Heir(forms'[j], forms[j])
      <4>1. Heir(AcknowledgeEditor(forms[i]), forms[i]) /\ i \in DOMAIN forms
        BY <1>10, <2>1 DEF Heir, KeyIn
      <4> QED
        BY <3>1, <4>1, HeirSelf
    <3> QED
      BY <1>9, <3>1, HeirSelf
  <2>3. KeysKept /\ CreatorsKept
    BY <2>2, HeirsKeep
  <2> QED
    BY <1>1, <1>2, <1>3, <1>4, <1>7, <1>12, <2>1, <2>3, AsideStep
<1> QED
  BY <1>11, <1>12

LEMMA ReloadCreates ==
  ASSUME BInv, CInv, FInv, Reload
  PROVE  FInv'
<1>1. /\ Adopt(NoForms, Version, NoOrphan, FALSE, "nobody") /\ stored' = stored /\ unknown' = unknown
      /\ revisions' = revisions /\ keys' = keys /\ fetch'.phase = "idle" /\ LeaveBehind
      /\ told' = IF CreationInFlight /\ stored[0] = NoCommand THEN told + 1 ELSE told
  BY DEF Reload, NoFetch
<1>2. Rows /\ revisions \in Seq(Row) /\ keys \in Nat /\ GoodStore(store) /\ Version \in Versions
  BY BInvParts, Packaged
<1>3. GoodForms(NoForms, keys) /\ PlacedIn(NoForms) /\ DOMAIN NoForms = {}
  BY NoneGood
<1>4. fetch'.phase \notin Unanswered
  BY <1>1 DEF Unanswered
<1>5. KeysKept /\ CreatorsKept
  BY <1>1, <1>2, <1>3, ViewAside
<1>6. ASSUME NEW j \in DOMAIN forms'
      PROVE  forms'[j].key = 0
  <2>1. PICK page, kept : kept = stored' /\ page = Page(NoForms, Version, kept)
    OBVIOUS
  <2>2. forms' = [i \in DOMAIN page |->
                    [page[i] EXCEPT !.inflight = @ /\ fetch'.phase # "idle",
                                    !.unrefreshed = @ /\ reread'.phase # "none"]]
    BY <1>1, <2>1 DEF Adopt
  <2>3. page[j] \in Forms /\ page[j].key = 0
    <3> DEFINE shown == Page(NoForms, Version, kept)
    <3>1. j \in DOMAIN shown /\ page = shown
      BY <2>1, <2>2
    <3>2. /\ shown[j] \in Forms
          /\ \A x : x # 0 /\ KeyIn(x, shown[j]) =>
               \E i \in DOMAIN NoForms : KeyIn(x, NoForms[i]) /\ NoForms[i].editor = shown[j].editor
      BY <1>2, <1>3, <3>1, PageKeys
    <3> HIDE DEF shown
    <3> QED
      BY <1>3, <3>1, <3>2 DEF KeyIn
  <2> QED
    BY <2>2, <2>3 DEF Forms
<1>7. Panelled' /\ Old(orphan'.cmd)
  <2>1. \/ orphan' = NoOrphan
        \/ orphan'.cmd = unknown' /\ orphan'.cmd # NoCommand /\ orphan'.cmd.editor # 0
    BY <1>1, <1>2, <1>3, ViewPanel
  <2> QED
    BY <1>1, <1>4, <2>1, HeldOld DEF Panelled, NoOrphan
<1>8. /\ \A d \in Sent' : d \in Sent \/ (fetch.phase = "sent" /\ d = fetch.cmd)
      /\ fetch.phase # "sent" => Sent' = Sent
  BY <1>1, BehindSent
<1>9. fetch.phase = "sent" => fetch.phase \in Unanswered /\ fetch.cmd \in Commanded
  BY InFlight DEF Unanswered
<1>10. CommandsKept
  <2>1. \A d \in Sent' : Old(d)
    BY <1>8, <1>9, HeldOld DEF Old
  <2> QED
    BY <2>1, <1>1, <1>4, <1>7, HeldOld, CommandsStay
<1>11. ~Creating'
  BY <1>4 DEF Creating, Unanswered
<1>12. CASE ~Creating
  <2>1. told' = told
    BY <1>1, <1>12 DEF CreationInFlight, Creating, Unanswered
  <2>2. \A d \in Sent' : d.key = 0 \/ d \in Sent \/ (d \in Commanded /\ d.editor # 0)
    BY <1>8, <1>9, <1>12, InFlightEdit
  <2> QED
    BY <1>1, <1>4, <1>5, <1>7, <1>12, <2>1, <2>2, HeldOld, AsideStep
<1>13. CASE Creating
  <2>1. Outstanding = fetch.cmd /\ fetch.cmd # NoCommand /\ \A d \in Sent' : d \in Sent \/ d = Outstanding
    BY <1>8, <1>13, InFlight
  <2>4. CreatorsOffer /\ CreatorsFree
    <3>1. ASSUME NEW j \in DOMAIN forms', forms'[j].editor = 0
          PROVE  ~forms'[j].panel.open /\ forms'[j].target.key = 0
      BY <1>5, <3>1 DEF CreatorsKept
    <3> QED
      BY <1>6, <3>1 DEF CreatorsOffer, CreatorsFree
  <2>2. CASE stored[0] # NoCommand
    <3>1. stored'[0] = stored[0] /\ told' = told
      BY <1>1, <2>2
    <3>2. CASE fetch.retry
      <4>1. stored[0] = Outstanding
        BY <1>13, <2>1, <3>2 DEF FInv, OnItsWay
      <4> QED
        BY <1>1, <1>5, <1>7, <1>10, <1>11, <2>1, <2>4, <3>1, <4>1, KeptForRetry DEF FInv
    <3>3. CASE ~fetch.retry
      BY <1>1, <1>5, <1>7, <1>10, <1>11, <1>13, <2>1, <2>2, <2>4, <3>1, <3>3, KeptBeside DEF FInv
    <3> QED
      BY <3>2, <3>3
  <2>3. CASE stored[0] = NoCommand
    <3>1. told' = told + 1 \/ (told' = told /\ \A d \in Sent' : d.key # Outstanding.key)
      <4>1. CASE fetch.phase \in {"sent", "committed"}
        BY <1>1, <1>13, <2>3, <4>1 DEF CreationInFlight, Creating
      <4>2. CASE fetch.phase = "rejected"
        <5>1. ~fetch.retry
          BY <1>13, <2>1, <2>3 DEF FInv, OnItsWay
        <5> QED
          BY <1>1, <1>8, <1>13, <2>1, <2>3, <4>2, <5>1 DEF CreationInFlight, FInv, OnItsWay
      <4> QED
        BY <1>13, <4>1, <4>2 DEF FInv, OnItsWay
    <3> QED
      BY <1>1, <1>5, <1>7, <1>10, <1>11, <2>1, <2>3, <2>4, <3>1, Settled DEF FInv
  <2> QED
    BY <2>2, <2>3
<1> QED
  BY <1>12, <1>13

-----------------------------------------------------------------------------
(***************************************************************************)
(* What is submitted once is one action.                                   *)
(***************************************************************************)
\* The first page has sent nothing and drawn no key.
LEMMA NothingSent ==
  ASSUME Init
  PROVE  FInv
<1>1. /\ revisions = [v \in DOMAIN Opened |->
           [cmd |-> [NoCommand EXCEPT !.text = Opened[v], !.base = v - 1],
            package |-> [a \in 1 .. v |-> [text |-> Opened[a], removed |-> FALSE]]]]
      /\ stored = [e \in Editors |-> NoCommand] /\ unknown = NoCommand /\ orphan = NoOrphan
      /\ forms = Page(NoForms, Version, stored)
      /\ fetch.phase = "idle" /\ copies = {} /\ keys = 0 /\ told = 0
  BY DEF Init, NoFetch
<1>2. BInv /\ Rows /\ revisions \in Seq(Row) /\ GoodStore(store) /\ Version \in Versions
      /\ Version \in Nat
  BY GoodInit, BInvParts, Packaged
<1>3. fetch.phase \notin Unanswered /\ ~Creating /\ stored[0] = NoCommand /\ Outstanding = NoCommand
  BY <1>1, Sizes DEF Unanswered, Creating, Outstanding
<1>4. NoCommand.key = 0 /\ NoCommand.editor = 0
  BY DEF NoCommand
<1>5. ASSUME NEW d \in Executed
      PROVE  d.key = 0
  <2>1. PICK v \in 1 .. Version : d = revisions[v].cmd
    BY <1>5 DEF Executed
  <2>2. v \in DOMAIN Opened
    BY <1>1, <1>2, Packaged
  <2>3. d = [NoCommand EXCEPT !.text = Opened[v], !.base = v - 1]
    BY <1>1, <2>1, <2>2
  <2> QED
    BY <2>3 DEF NoCommand
<1>6. ASSUME NEW c \in Commanded
      PROVE  c.key = 0
  BY <1>1, <1>3, <1>4, <1>5 DEF Commanded, Sent, Held, Waiting, NoOrphan
<1>7. ASSUME NEW j \in DOMAIN forms
      PROVE  /\ \A x : KeyIn(x, forms[j]) => x = 0
             /\ forms[j].editor = 0 => Creator(forms[j])
  <2> DEFINE shown == Page(NoForms, Version, stored)
  <2>1. j \in DOMAIN shown /\ forms = shown
    BY <1>1
  <2>2. GoodForms(NoForms, 0) /\ PlacedIn(NoForms) /\ DOMAIN NoForms = {} /\ 0 \in Nat
    BY NoneGood
  <2>3. /\ \A x : x # 0 /\ KeyIn(x, shown[j]) =>
             \E i \in DOMAIN NoForms : KeyIn(x, NoForms[i]) /\ NoForms[i].editor = shown[j].editor
        /\ shown[j].editor = 0 =>
             \/ /\ shown[j].key = 0 /\ shown[j].target.key = 0 /\ ~shown[j].panel.open
                /\ ~shown[j].inflight
             \/ \E i \in DOMAIN NoForms :
                  /\ NoForms[i].editor = 0 /\ shown[j].key = NoForms[i].key
                  /\ shown[j].panel = NoForms[i].panel
                  /\ shown[j].pending = NoForms[i].pending
                  /\ shown[j].inflight = NoForms[i].inflight /\ shown[j].target.key = 0
    BY <1>2, <2>1, <2>2, PageKeys
  <2> HIDE DEF shown
  <2> QED
    BY <1>3, <2>1, <2>2, <2>3 DEF Creator
<1>0. keys = 0 /\ told = 0
  BY DEF Init
<1>8. Issued
  BY <1>0, <1>5 DEF Issued
<1>9. KeysApart
  BY <1>6, <1>7 DEF KeysApart, UsedFor
<1>10. OnItsWay /\ Creators
  BY <1>3, <1>7 DEF OnItsWay, Creators
<1>11. Panelled
  BY <1>1, <1>3 DEF Panelled, NoOrphan
<1>12. Cardinality(Behind) <= told
  <2>1. Behind = {}
    BY <1>0 DEF Behind
  <2>2. Cardinality(Behind) = 0
    BY <2>1, FS_EmptySet
  <2> QED
    BY <1>0, <2>2
<1> QED
  BY <1>8, <1>9, <1>10, <1>11, <1>12 DEF FInv

LEMMA NextCreates ==
  ASSUME BInv, CInv, FInv, Next
  PROVE  FInv'
<1>1. CASE Author
  BY <1>1, AuthorCreates
<1>2. CASE Send
  BY <1>2, SendCreates
<1>3. CASE Server
  BY <1>3, ExecutesCreate, ReadsCreate DEF Server
<1>4. CASE Script
  BY <1>4, AcknowledgedCreates, ConflictShownCreates, RefusedCreates, ViewsCreate DEF Script
<1>5. CASE Faulty
  BY <1>5, RejectsCreate, FailsCreate, ReadsCreate, ReloadCreates, OthersCreate DEF Faulty
<1>6. CASE Others
  BY <1>6, OthersCreate
<1> QED
  BY <1>1, <1>2, <1>3, <1>4, <1>5, <1>6 DEF Next

LEMMA StillCreates ==
  ASSUME BInv, CInv, FInv, UNCHANGED vars
  PROVE  FInv'
<1>1. /\ forms' = forms /\ stored' = stored /\ unknown' = unknown /\ orphan' = orphan
      /\ copies' = copies /\ told' = told /\ revisions' = revisions /\ keys' = keys
      /\ fetch' = fetch
  BY DEF vars, client, offers
<1>2. \A j \in DOMAIN forms' : j \in DOMAIN forms /\ Heir(forms'[j], forms[j])
  BY <1>1, HeirSelf
<1>3. KeysKept /\ CreatorsKept
  BY <1>1, <1>2, HeirsKeep
<1>4. Panelled'
  BY <1>1, PanelSame DEF Senders
<1> QED
  BY <1>1, <1>3, <1>4, SentSame, HeldOld, AsideStep

LEMMA Creates == Spec => []FInv
<1>1. Init => FInv
  BY NothingSent
<1>2. (BInv /\ EInv) /\ FInv /\ [Next]_vars => FInv'
  BY NextCreates, StillCreates DEF EInv
<1> QED
  BY <1>1, <1>2, Keeps, PTL DEF Spec

\* An executed creation is one the page was told of, or the one outstanding.
LEMMA CreationsBehind ==
  ASSUME BInv, CInv, FInv, NEW v \in Creations
  PROVE  LET k == revisions[v].cmd.key IN
         k \in Behind \/ (k = Outstanding.key /\ (CreationInFlight \/ stored[0] # NoCommand))
<1>1. PICK d : d = revisions[v].cmd
  OBVIOUS
<1>2. d \in Executed /\ d \in Sent /\ d.editor = 0 /\ d.key # 0
  BY <1>1 DEF Creations, Executed, Sent
<1>3. d.key \in 1 .. keys
  BY <1>2, NoneDrawn, InFlight
<1>4. CASE d.key # Outstanding.key
  BY <1>1, <1>2, <1>3, <1>4 DEF Behind
<1>5. CASE d.key = Outstanding.key
  <2>1. stored[0] # NoCommand \/ (Creating /\ Outstanding = fetch.cmd)
    BY <1>2, <1>5 DEF Outstanding, NoCommand
  <2>2. CASE Creating /\ stored[0] = NoCommand
    <3>1. fetch.phase \in {"sent", "committed"}
      BY <1>2, <1>5, <2>2, InFlight DEF FInv, OnItsWay
    <3> QED
      BY <1>1, <1>5, <2>2, <3>1 DEF CreationInFlight, Creating
  <2> QED
    BY <1>1, <1>5, <2>1, <2>2
<1> QED
  BY <1>4, <1>5

\* What a user submits once as a new action is one action, however often it is
\* retried and however late a request arrives: beside those the page was told of
\* there is at most the one in flight or offered for retry.  Counted as told of
\* are also the creation in flight at a reload and the one whose outcome is still
\* unknown when the page creates another, which the user may submit again.
THEOREM ActionsAreCreatedOnce == Spec => []CreatedOnce
<1>1. BInv /\ EInv /\ FInv => CreatedOnce
  <2> SUFFICES ASSUME BInv, CInv, FInv PROVE CreatedOnce
    BY DEF EInv
  <2> DEFINE one == CreationInFlight \/ stored[0] # NoCommand
             K == IF one THEN Behind \cup {Outstanding.key} ELSE Behind
             f == [v \in Creations |-> revisions[v].cmd.key]
  <2>1. PICK S, n : S = Behind /\ n = Cardinality(S)
    OBVIOUS
  <2>2. IsFiniteSet(S) /\ n \in Nat /\ n <= told /\ told \in Nat
    BY <2>1, BehindCounted, BInvParts DEF FInv
  <2>3. /\ IsFiniteSet(K)
        /\ Cardinality(K) \in Nat /\ Cardinality(K) <= told + (IF one THEN 1 ELSE 0)
    <3>1. PICK k : k = Outstanding.key
      OBVIOUS
    <3>2. IsFiniteSet(S \cup {k}) /\ (Cardinality(S \cup {k}) = n \/ Cardinality(S \cup {k}) = n + 1)
      BY <2>1, <2>2, FS_AddElement
    <3>3. K = IF one THEN S \cup {k} ELSE S
      BY <2>1, <3>1
    <3> HIDE DEF K, one
    <3> QED
      BY <2>1, <2>2, <3>2, <3>3
  <2>4. \A v \in Creations : revisions[v].cmd.key \in K
    BY CreationsBehind
  <2>5. \A v, w \in Creations : revisions[v].cmd.key = revisions[w].cmd.key => v = w
    BY BInvParts DEF Counted, Creations
  <2> HIDE DEF K, one
  <2>6. f \in Injection(Creations, K)
    BY <2>4, <2>5 DEF Injection, IsInjective
  <2>7. IsFiniteSet(Creations) /\ Cardinality(Creations) <= Cardinality(K)
    BY <2>3, <2>6, FS_Injection
  <2>8. Cardinality(Creations) \in Nat
    BY <2>7, FS_CardinalityType
  <2>9. Cardinality(Creations) <= told + (IF one THEN 1 ELSE 0)
    BY <2>2, <2>3, <2>7, <2>8
  <2> QED
    BY <2>9 DEF CreatedOnce, one
<1> QED
  BY <1>1, Keeps, Creates, PTL
=============================================================================
