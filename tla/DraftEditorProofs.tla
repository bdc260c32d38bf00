-------------------------- MODULE DraftEditorProofs -------------------------
(***************************************************************************)
(* Proofs about DraftEditor, for every set of texts and all bounds.        *)
(***************************************************************************)
EXTENDS DraftEditor, FiniteSetTheorems, TLAPS

\* A saved text together with a version it is the text of.
GoodPage(p) == p \in Pages /\ TextAt(p.version) = p.text

\* A command that does not come out of a conflict comparison names the version
\* of the text its author was shown.
GoodCommand(c) == c \in Commands /\ (c.resolved \/ TextAt(c.base) = c.shown)

\* The same of a form and of its discard target; and what the form takes for
\* saved was saved.
GoodForm(f) ==
  /\ f \in Forms
  /\ f.resolved \/ TextAt(f.version) = f.shown
  /\ f.target.given /\ ~f.target.resolved => TextAt(f.target.version) = f.target.text
  /\ f.resolved \/ \E v \in f.version .. Version : TextAt(v) = f.baseline

\* An answer names the revision its command made, and a page is one that was saved.
GoodFetch(f) ==
  /\ f \in Fetches
  /\ GoodCommand(f.cmd)
  /\ f.phase = "refreshed" => GoodPage(f.page)
  /\ f.phase = "committed" =>
       /\ f.page.version \in 1 .. Version
       /\ LET named == history[f.page.version] IN
            named.key = f.cmd.key /\ named.text = f.cmd.text /\ named.base = f.cmd.base

GoodReread(r) == r \in Rereads /\ (r.phase = "read" => GoodPage(r.page))

\* A recovery copy keeps a version with the text that was shown with it.
GoodCopy(c) == c \in Copies /\ (c.kept /\ ~c.resolved => TextAt(c.version) = c.shown)

IInv ==
  /\ TypeOK
  /\ GoodForm(form) /\ GoodCopy(copy) /\ GoodCommand(stored) /\ GoodFetch(fetch)
  /\ GoodReread(reread)
  /\ \A c \in copies : GoodCommand(c)
  /\ ReplacesWhatWasShown
  /\ OneRevisionPerKey

\* The copy is that of the form on the page, or was written since for one that was
\* taken away; then no page in hand is older than it.
CopyFits ==
  /\ copy.own => copy = CopyOf(form)
  /\ ~copy.own /\ copy.kept =>
       /\ reread.phase = "read" => copy.version <= reread.page.version
       /\ fetch.phase = "refreshed" => copy.version <= fetch.page.version
  /\ fetch.detached => reread.phase = "none"

-----------------------------------------------------------------------------
(***************************************************************************)
(* How the saved text grows.                                               *)
(***************************************************************************)
\* Without a save everything that is typed by the versions keeps its type.
LEMMA Unchanged ==
  ASSUME TypeOK, UNCHANGED history
  PROVE  /\ Version \in Nat /\ Version' = Version /\ Versions' = Versions
         /\ \A v \in Versions : TextAt(v)' = TextAt(v) /\ TextAt(v) \in Texts
         /\ Commands' = Commands /\ Pages' = Pages /\ Targets' = Targets /\ Copies' = Copies
         /\ Forms' = Forms /\ Panels' = Panels /\ Fetches' = Fetches
         /\ Rereads' = Rereads
<1>1. history \in Seq(Commands) /\ Version \in Nat
  BY DEF TypeOK, Version
<1>2. Version' = Version /\ Versions' = Versions
  BY DEF Version, Versions
<1>3. \A v \in Versions : TextAt(v)' = TextAt(v)
  BY DEF TextAt
<1>4. \A v \in Versions : TextAt(v) \in Texts
  <2>1. \A v \in Versions : v # 0 => history[v] \in Commands
    BY <1>1 DEF Versions, Version
  <2>2. \A c \in Commands : c.text \in Texts
    BY DEF Commands
  <2> QED
    BY <2>1, <2>2, EditorAssumption DEF TextAt
<1>5. /\ Commands' = Commands /\ Pages' = Pages /\ Targets' = Targets
      /\ Panels' = Panels /\ Copies' = Copies
  BY <1>2 DEF Commands, Pages, Targets, Panels, Copies
<1> QED
  BY <1>1, <1>2, <1>3, <1>4, <1>5 DEF Forms, Fetches, Rereads

\* A save adds one version; what was typed and what was saved stays.
LEMMA Grown ==
  ASSUME TypeOK, NEW c \in Commands, Save(c)
  PROVE  /\ Version \in Nat /\ Version' = Version + 1
         /\ \A v \in 1 .. Version : history'[v] = history[v]
         /\ \A v : v = Version + 1 => history'[v] = c
         /\ \A v \in Versions : TextAt(v)' = TextAt(v)
         /\ Versions \subseteq Versions' /\ history' \in Seq(Commands')
         /\ Commands \subseteq Commands' /\ Pages \subseteq Pages'
         /\ Forms \subseteq Forms' /\ Panels \subseteq Panels' /\ Copies \subseteq Copies'
         /\ Fetches \subseteq Fetches' /\ Rereads \subseteq Rereads'
<1>1. history \in Seq(Commands) /\ Version \in Nat
  BY DEF TypeOK, Version
<1>2. history' = Append(history, c) /\ history' \in Seq(Commands)
  BY <1>1 DEF Save
<1>3. Version' = Version + 1
  BY <1>1, <1>2 DEF Version
<1>4. \A v \in 1 .. Version : history'[v] = history[v]
  BY <1>1, <1>2 DEF Version
<1>5. \A v : v = Version + 1 => history'[v] = c
  BY <1>1, <1>2 DEF Version
<1>6. \A v \in Versions : TextAt(v)' = TextAt(v)
  BY <1>1, <1>4 DEF TextAt, Versions
<1>7. Versions \subseteq Versions'
  BY <1>1, <1>3 DEF Versions
<1>8. /\ Commands \subseteq Commands' /\ Pages \subseteq Pages'
      /\ Targets \subseteq Targets' /\ Panels \subseteq Panels' /\ Copies \subseteq Copies'
  BY <1>7 DEF Commands, Pages, Targets, Panels, Copies
<1>9. /\ Forms \subseteq Forms' /\ Fetches \subseteq Fetches' /\ Rereads \subseteq Rereads'
  BY <1>7, <1>8 DEF Forms, Fetches, Rereads
<1>10. history' \in Seq(Commands')
  BY <1>2, <1>8
<1> QED
  BY <1>1, <1>3, <1>4, <1>5, <1>6, <1>7, <1>8, <1>9, <1>10

\* A step that saves nothing keeps the invariant if what it assigns is good.
LEMMA QuietStep ==
  ASSUME IInv, UNCHANGED history,
         GoodForm(form'), GoodCopy(copy'), GoodCommand(stored'), GoodFetch(fetch'),
         GoodReread(reread'),
         \A c \in copies' : GoodCommand(c),
         panel' \in Panels, keys' \in Keys, faults' \in 0 .. MaxFaults
  PROVE  IInv'
<1>1. TypeOK
  BY DEF IInv
<1>2. TypeOK'
  BY <1>1, Unchanged
  DEF TypeOK, GoodForm, GoodCopy, GoodCommand, GoodFetch, GoodReread, Keys
<1>3. GoodForm(form)' /\ GoodCopy(copy)'
  BY <1>1, Unchanged DEF GoodForm, GoodCopy, TextAt
<1>4. GoodCommand(stored)' /\ (\A c \in copies : GoodCommand(c))'
  BY <1>1, Unchanged DEF GoodCommand, TextAt
<1>5. GoodFetch(fetch)' /\ GoodReread(reread)'
  BY <1>1, Unchanged DEF GoodFetch, GoodReread, GoodPage, GoodCommand, TextAt
<1>6. ReplacesWhatWasShown' /\ OneRevisionPerKey'
  BY <1>1, Unchanged DEF IInv, ReplacesWhatWasShown, OneRevisionPerKey, TextAt
<1> QED
  BY <1>2, <1>3, <1>4, <1>5, <1>6 DEF IInv

\* What is good stays good while the saved text grows.
LEMMA StillGood ==
  ASSUME TypeOK, NEW c \in Commands, Save(c)
  PROVE  /\ GoodForm(form) /\ form' = form => GoodForm(form)'
         /\ GoodCopy(copy) /\ copy' = copy => GoodCopy(copy)'
         /\ GoodCommand(stored) /\ stored' = stored => GoodCommand(stored)'
         /\ GoodFetch(fetch) /\ fetch' = fetch => GoodFetch(fetch)'
         /\ GoodReread(reread) /\ reread' = reread => GoodReread(reread)'
         /\ (\A d \in copies : GoodCommand(d)) /\ copies' \subseteq copies
              => (\A d \in copies : GoodCommand(d))'
<1>1. /\ Version \in Nat /\ Version' = Version + 1
      /\ \A v \in Versions : TextAt(v)' = TextAt(v)
  BY Grown
<1>2. \A d : GoodCommand(d) => d \in Commands' /\ (d.resolved \/ TextAt(d.base)' = d.shown)
  BY Grown, <1>1 DEF GoodCommand, Commands
<1>3. \A p : GoodPage(p) => p \in Pages' /\ TextAt(p.version)' = p.text
  BY Grown, <1>1 DEF GoodPage, Pages
<1>4. GoodForm(form) /\ form' = form => GoodForm(form)'
  <2> SUFFICES ASSUME GoodForm(form), form' = form PROVE GoodForm(form)'
    OBVIOUS
  <2>1. form \in Forms'
    BY Grown DEF GoodForm
  <2>2. form.version \in Versions /\ form.target.version \in Versions
    BY DEF GoodForm, Forms, Targets
  <2>3. ASSUME NEW v \in form.version .. Version, TextAt(v) = form.baseline
        PROVE  v \in form.version .. Version' /\ TextAt(v)' = form.baseline
    BY <1>1, <2>2, <2>3 DEF Versions
  <2>4. form.resolved \/ \E v \in form.version .. Version' : TextAt(v)' = form.baseline
    BY <2>3 DEF GoodForm
  <2>5. /\ TextAt(form.version)' = IF form.resolved THEN TextAt(form.version)' ELSE form.shown
        /\ form.target.given /\ ~form.target.resolved
             => TextAt(form.target.version)' = form.target.text
    BY <1>1, <2>2 DEF GoodForm, TextAt
  <2> QED
    BY <2>1, <2>4, <2>5 DEF GoodForm
<1>5. GoodCommand(stored) /\ stored' = stored => GoodCommand(stored)'
  BY <1>2 DEF GoodCommand
<1>6. GoodFetch(fetch) /\ fetch' = fetch => GoodFetch(fetch)'
  <2> SUFFICES ASSUME GoodFetch(fetch), fetch' = fetch PROVE GoodFetch(fetch)'
    OBVIOUS
  <2>1. fetch' \in Fetches' /\ GoodCommand(fetch.cmd)'
    BY Grown, <1>2 DEF GoodFetch, GoodCommand
  <2>2. fetch.phase = "refreshed" => GoodPage(fetch.page)'
    BY <1>3 DEF GoodFetch, GoodPage
  <2>3. fetch.phase = "committed" =>
          fetch.page.version \in 1 .. Version' /\ history'[fetch.page.version] = history[fetch.page.version]
    BY Grown, <1>1 DEF GoodFetch
  <2> QED
    BY <2>1, <2>2, <2>3 DEF GoodFetch
<1>7. GoodReread(reread) /\ reread' = reread => GoodReread(reread)'
  BY Grown, <1>3 DEF GoodReread, GoodPage
<1>8. (\A d \in copies : GoodCommand(d)) /\ copies' \subseteq copies
        => (\A d \in copies : GoodCommand(d))'
  BY <1>2 DEF GoodCommand
<1>9. GoodCopy(copy) /\ copy' = copy => GoodCopy(copy)'
  <2> SUFFICES ASSUME GoodCopy(copy), copy' = copy PROVE GoodCopy(copy)'
    OBVIOUS
  <2>1. copy \in Copies' /\ copy.version \in Versions
    BY Grown DEF GoodCopy, Copies
  <2>2. TextAt(copy.version)' = TextAt(copy.version)
    BY <1>1, <2>1
  <2> QED
    BY <2>1, <2>2 DEF GoodCopy, TextAt
<1> QED
  BY <1>4, <1>5, <1>6, <1>7, <1>8, <1>9

\* A new revision keeps what every revision promises.
LEMMA SaveKeepsHistory ==
  ASSUME TypeOK, ReplacesWhatWasShown, OneRevisionPerKey, NEW c \in Commands, Save(c),
         c.resolved \/ c.shown = CurrentText,
         c.key = 0 \/ ClaimedBy(c) = {}
  PROVE  ReplacesWhatWasShown' /\ OneRevisionPerKey'
<1>1. Version \in Nat /\ Version' = Version + 1
  BY Grown
<1>2. \A v \in 1 .. Version' :
        \/ v = Version + 1 /\ history'[v] = c
        \/ v \in 1 .. Version /\ history'[v] = history[v]
  BY Grown, <1>1
<1>3. ASSUME NEW v \in 1 .. Version'
      PROVE  history'[v].resolved \/ history'[v].shown = TextAt(v - 1)'
  <2>1. v - 1 \in Versions
    BY <1>1 DEF Versions
  <2>2. TextAt(v - 1)' = TextAt(v - 1)
    BY <2>1, Grown
  <2> QED
    BY <1>1, <1>2, <2>2 DEF ReplacesWhatWasShown, CurrentText
<1>4. ASSUME NEW v \in 1 .. Version', NEW w \in 1 .. Version',
             history'[v].key = history'[w].key, history'[v].key # 0
      PROVE  v = w
  BY <1>1, <1>2, <1>4 DEF OneRevisionPerKey, ClaimedBy
<1> QED
  BY <1>3, <1>4 DEF ReplacesWhatWasShown, OneRevisionPerKey

-----------------------------------------------------------------------------
(***************************************************************************)
(* The initial state.                                                      *)
(***************************************************************************)
LEMMA InitIInv == Init => IInv
<1> SUFFICES ASSUME Init PROVE IInv
  OBVIOUS
<1>1. history \in Seq(Commands) /\ Version = 0 /\ 0 \in Versions /\ 0 \in Keys
  BY EditorAssumption DEF Init, Version, Versions, Keys
<1>2. NoCommand \in Commands /\ NoPage \in Pages /\ NoTarget \in Targets /\ NoCopy \in Copies
  BY <1>1, EditorAssumption
  DEF NoCommand, NoPage, NoTarget, NoCopy, Commands, Pages, Targets, Copies
<1>3. NoPanel \in Panels /\ NoFetch \in Fetches /\ NoReread \in Rereads
  BY <1>1, <1>2, EditorAssumption
  DEF NoPanel, NoFetch, NoReread, Panels, Fetches, Rereads, Phases
<1>4. FormOf(NoPage) \in Forms
  BY <1>1, <1>2, EditorAssumption DEF FormOf, NoPage, Forms
<1>5. TypeOK
  BY <1>1, <1>2, <1>3, <1>4, EditorAssumption DEF Init, TypeOK
<1>6. GoodPage(NoPage) /\ GoodCommand(NoCommand)
  BY <1>2 DEF GoodPage, GoodCommand, NoPage, NoCommand, TextAt
<1>7. GoodForm(FormOf(NoPage))
  BY <1>1, <1>4 DEF GoodForm, FormOf, NoPage, NoTarget, TextAt
<1>8. GoodFetch(NoFetch) /\ GoodReread(NoReread)
  BY <1>3, <1>6 DEF GoodFetch, GoodReread, NoFetch, NoReread
<1>9. ReplacesWhatWasShown /\ OneRevisionPerKey
  BY <1>1 DEF ReplacesWhatWasShown, OneRevisionPerKey
<1>10. GoodCopy(NoCopy)
  BY <1>2 DEF GoodCopy, NoCopy
<1> QED
  BY <1>5, <1>6, <1>7, <1>8, <1>9, <1>10 DEF Init, IInv

LEMMA InitCopyFits == Init => CopyFits
<1> SUFFICES ASSUME Init PROVE CopyFits
  OBVIOUS
<1>1. CopyOf(form) = NoCopy
  BY DEF Init, CopyOf, FormOf
<1> QED
  BY <1>1 DEF Init, CopyFits, NoCopy, NoFetch

-----------------------------------------------------------------------------
(***************************************************************************)
(* What the script makes of a form.                                        *)
(***************************************************************************)
LEMMA CurrentPageIsGood == TypeOK => GoodPage(CurrentPage)
<1> SUFFICES ASSUME TypeOK PROVE GoodPage(CurrentPage)
  OBVIOUS
<1>1. Version \in Nat /\ Version \in Versions
  BY DEF TypeOK, Version, Versions
<1>2. CurrentText \in Texts
  <2>1. Version # 0 => history[Version] \in Commands
    BY DEF TypeOK, Version
  <2> QED
    BY <2>1, EditorAssumption DEF CurrentText, TextAt, Commands
<1> QED
  BY <1>1, <1>2 DEF GoodPage, CurrentPage, Pages, CurrentText

LEMMA FormOfIsGood ==
  ASSUME TypeOK, NEW p, GoodPage(p)
  PROVE  GoodForm(FormOf(p))
<1>1. Version \in Nat /\ 0 \in Versions /\ 0 \in Keys
  BY EditorAssumption DEF TypeOK, Version, Versions, Keys
<1>2. p.text \in Texts /\ p.version \in Versions /\ TextAt(p.version) = p.text
  BY DEF GoodPage, Pages
<1>3. p.version \in p.version .. Version
  BY <1>1, <1>2 DEF Versions
<1>4. NoTarget \in Targets
  BY <1>1, EditorAssumption DEF NoTarget, Targets
<1>5. FormOf(p) \in Forms
  BY <1>1, <1>2, <1>4 DEF FormOf, Forms
<1> QED
  BY <1>2, <1>3, <1>5 DEF GoodForm, FormOf, NoTarget

LEMMA DiscardedIsGood ==
  ASSUME TypeOK, GoodForm(form)
  PROVE  GoodForm(Discarded)
<1>1. Version \in Nat /\ 0 \in Keys
  BY EditorAssumption DEF TypeOK, Version, Keys
<1>2. form \in Forms /\ form.target \in Targets
  BY DEF GoodForm, Forms
<1>3. CASE form.target.given
  <2> DEFINE d == [form EXCEPT !.text = form.target.text, !.baseline = form.target.text,
                      !.version = form.target.version, !.key = 0,
                      !.shown = form.target.text, !.resolved = form.target.resolved]
  <2>1. d \in Forms /\ d.target = form.target /\ d.version = form.target.version
        /\ d.baseline = form.target.text /\ d.shown = form.target.text
        /\ d.resolved = form.target.resolved
    BY <1>1, <1>2 DEF Forms, Targets
  <2>2. form.target.version \in form.target.version .. Version
    BY <1>1, <1>2 DEF Targets, Versions
  <2>3. d.resolved \/ TextAt(d.version) = d.shown
    BY <1>3, <2>1 DEF GoodForm
  <2>4. d.resolved \/ \E v \in d.version .. Version : TextAt(v) = d.baseline
    BY <2>1, <2>2, <2>3
  <2>5. GoodForm(d)
    BY <2>1, <2>3, <2>4 DEF GoodForm
  <2> QED
    BY <1>3, <2>5 DEF Discarded
<1>4. CASE ~form.target.given
  <2>1. [form EXCEPT !.text = form.baseline] \in Forms
    BY <1>2 DEF Forms
  <2>2. GoodForm([form EXCEPT !.text = form.baseline])
    BY <1>2, <2>1 DEF GoodForm, Forms
  <2> QED
    BY <1>4, <2>2 DEF Discarded
<1> QED
  BY <1>3, <1>4

LEMMA MineIsGood ==
  ASSUME TypeOK, GoodForm(form)
  PROVE  GoodForm(Mine)
<1>1. 0 \in Keys
  BY EditorAssumption DEF Keys
<1>2. form \in Forms /\ panel \in Panels
  BY DEF GoodForm, TypeOK
<1>3. Mine \in Forms /\ Mine.resolved /\ Mine.target = form.target
  BY <1>1, <1>2 DEF Mine, Forms, Panels
<1> QED
  BY <1>3 DEF GoodForm

LEMMA AcknowledgeEditorIsGood ==
  ASSUME TypeOK, NEW g, GoodForm(g), NEW c \in Commands, NEW v \in 1 .. Version,
         history[v].text = c.text
  PROVE  GoodForm(AcknowledgeEditor(g, c, v))
<1>1. Version \in Nat /\ 0 \in Versions /\ 0 \in Keys
  BY EditorAssumption DEF TypeOK, Version, Versions, Keys
<1>2. v \in Versions /\ v \in v .. Version /\ TextAt(v) = c.text
  BY <1>1 DEF Versions, TextAt
<1>3. NoTarget \in Targets /\ g \in Forms /\ c.text \in Texts
  BY <1>1, EditorAssumption DEF NoTarget, Targets, GoodForm, Commands
<1> DEFINE f == AcknowledgeEditor(g, c, v)
<1>4. f \in Forms /\ f.version = v /\ f.shown = c.text /\ f.baseline = c.text
      /\ f.target = NoTarget
  BY <1>1, <1>2, <1>3 DEF AcknowledgeEditor, Forms
<1> QED
  BY <1>2, <1>4 DEF GoodForm, NoTarget

LEMMA FreezeIsGood ==
  ASSUME NEW f, GoodForm(f)
  PROVE  GoodCommand(Freeze(f))
BY DEF GoodForm, GoodCommand, Freeze, Forms, Commands

\* Another text, an offer to retry or a discard target changes nothing else.
LEMMA TextIsGood ==
  ASSUME GoodForm(form), NEW t \in Texts
  PROVE  GoodForm([form EXCEPT !.text = t])
BY DEF GoodForm, Forms

LEMMA PendingIsGood ==
  ASSUME GoodForm(form), NEW b \in BOOLEAN
  PROVE  GoodForm([form EXCEPT !.pending = b])
BY DEF GoodForm, Forms

LEMMA TargetIsGood ==
  ASSUME GoodForm(form), NEW t \in Targets, NEW b \in BOOLEAN,
         t.given /\ ~t.resolved => TextAt(t.version) = t.text
  PROVE  GoodForm([form EXCEPT !.pending = b, !.target = t])
<1>1. form \in Forms
  BY DEF GoodForm
<1>2. [form EXCEPT !.pending = b, !.target = t] \in Forms
  BY <1>1 DEF Forms
<1> QED
  BY <1>1, <1>2 DEF GoodForm, Forms

\* What mark stores, and what restore makes of it.
LEMMA CopyOfIsGood ==
  ASSUME TypeOK, NEW f, GoodForm(f)
  PROVE  GoodCopy(CopyOf(f))
<1>1. NoCopy \in Copies
  BY EditorAssumption DEF TypeOK, Version, Versions, NoCopy, Copies
<1> QED
  BY <1>1 DEF GoodForm, GoodCopy, CopyOf, NoCopy, Forms, Copies

LEMMA ReplacedIsGood ==
  ASSUME TypeOK, GoodCopy(copy), NEW p, GoodPage(p), Replaced(p),
         copy.kept => copy.version <= p.version
  PROVE  GoodForm(form') /\ GoodCopy(copy') /\ panel' \in Panels
<1> DEFINE fresh == FormOf(p)
           back == [fresh EXCEPT !.text = copy.text, !.version = copy.version,
                                 !.shown = copy.shown, !.resolved = copy.resolved]
           b == stored # NoCommand
<1>1. /\ GoodForm(fresh) /\ fresh.baseline = p.text /\ ~fresh.target.given
      /\ p.version \in Versions /\ TextAt(p.version) = p.text /\ Version \in Nat
  BY FormOfIsGood DEF FormOf, NoTarget, GoodPage, Pages, TypeOK, Version
<1>2. b \in BOOLEAN /\ fresh \in Forms
  BY <1>1 DEF GoodForm
<1>3. ASSUME copy.kept PROVE GoodForm(form')
  <2>1. copy.text \in Texts /\ copy.version \in Versions /\ copy.shown \in Texts
        /\ copy.resolved \in BOOLEAN
    BY DEF GoodCopy, Copies
  <2>2. form' = [back EXCEPT !.pending = b]
    BY <1>3 DEF Replaced, Restored
  <2>3. /\ form' \in Forms /\ form'.version = copy.version /\ form'.shown = copy.shown
        /\ form'.resolved = copy.resolved /\ form'.baseline = p.text
        /\ ~form'.target.given
    BY <1>1, <1>2, <2>1, <2>2 DEF Forms
  <2>4. p.version \in form'.version .. Version /\ TextAt(p.version) = form'.baseline
    BY <1>1, <1>3, <2>1, <2>3 DEF Versions
  <2>5. form'.resolved \/ TextAt(form'.version) = form'.shown
    BY <1>3, <2>3 DEF GoodCopy
  <2> QED
    BY <2>3, <2>4, <2>5 DEF GoodForm
<1>4. ASSUME ~copy.kept PROVE GoodForm(form')
  <2>1. form' = [fresh EXCEPT !.pending = b]
    BY <1>4 DEF Replaced, Restored
  <2>2. GoodForm(form')
    BY <1>1, <1>2, <2>1 DEF GoodForm, Forms
  <2> QED
    BY <2>2
<1>5. GoodForm(form')
  BY <1>3, <1>4
<1>6. copy' = CopyOf(form') /\ panel' = NoPanel /\ NoPanel \in Panels
  BY <1>1, EditorAssumption DEF Replaced, Panels, NoPanel, Versions
<1> QED
  BY <1>5, <1>6, CopyOfIsGood

LEMMA AdoptPageIsGood ==
  ASSUME TypeOK, GoodForm(form), GoodCopy(copy), NEW p, GoodPage(p), AdoptPage(p),
         ~Dirty /\ copy.kept => copy.version <= p.version
  PROVE  GoodForm(form') /\ GoodCopy(copy') /\ panel' \in Panels
<1>1. panel \in Panels
  BY DEF TypeOK
<1>2. CASE Dirty
  <2> DEFINE t == [given |-> TRUE, text |-> p.text, version |-> p.version, resolved |-> FALSE]
  <2>1. t \in Targets /\ TextAt(t.version) = t.text
    BY DEF GoodPage, Pages, Targets
  <2>2. [form EXCEPT !.target = t] = [form EXCEPT !.pending = form.pending, !.target = t]
        /\ form.pending \in BOOLEAN
    BY DEF GoodForm, Forms
  <2>3. GoodForm([form EXCEPT !.target = t])
    BY <2>1, <2>2, TargetIsGood
  <2> QED
    BY <1>1, <1>2, <2>3 DEF AdoptPage
<1>3. CASE ~Dirty
  BY <1>3, ReplacedIsGood DEF AdoptPage
<1> QED
  BY <1>2, <1>3

\* What submit leaves behind.
LEMMA SendFormIsGood ==
  ASSUME TypeOK, NEW f, GoodForm(f), SendForm(f)
  PROVE  GoodForm(form') /\ GoodFetch(fetch') /\ keys' \in Keys
<1> DEFINE named == IF f.key = 0 THEN [f EXCEPT !.key = keys + 1] ELSE f
<1>1. keys \in Nat /\ keys \in Keys /\ f \in Forms
  BY EditorAssumption DEF TypeOK, Keys, GoodForm
<1>2. named.key \in Keys /\ form' = named /\ Dispatch(Freeze(named), FALSE)
      /\ keys' = IF f.key = 0 THEN keys + 1 ELSE keys
  BY DEF SendForm
<1>3. named \in Forms /\ named = [f EXCEPT !.key = named.key]
  BY <1>1, <1>2 DEF Forms
<1>4. GoodForm(named)
  BY <1>1, <1>3 DEF GoodForm, Forms
<1>5. f.key = 0 => named.key = keys + 1
  BY <1>1 DEF Forms
<1>6. keys' \in Keys
  BY <1>1, <1>2, <1>5
<1>7. NoPage \in Pages
  BY EditorAssumption DEF TypeOK, NoPage, Pages, Versions, Version
<1>8. GoodCommand(Freeze(named))
  BY <1>4, FreezeIsGood
<1>9. GoodFetch(fetch')
  BY <1>2, <1>7, <1>8, EditorAssumption
  DEF Dispatch, NoFetch, GoodFetch, Fetches, Phases, GoodCommand
<1> QED
  BY <1>2, <1>4, <1>6, <1>9

-----------------------------------------------------------------------------
(***************************************************************************)
(* Every step keeps the invariant.                                         *)
(***************************************************************************)
\* What a step finds, and the values that empty a variable.
LEMMA Found ==
  ASSUME IInv
  PROVE  /\ TypeOK /\ GoodForm(form) /\ GoodCopy(copy) /\ GoodCommand(stored)
         /\ GoodFetch(fetch) /\ GoodCopy(NoCopy) /\ GoodReread(reread) /\ (\A c \in copies : GoodCommand(c))
         /\ panel \in Panels /\ keys \in Keys /\ faults \in 0 .. MaxFaults
         /\ GoodCommand(fetch.cmd) /\ fetch \in Fetches /\ Version \in Nat
         /\ GoodCommand(NoCommand) /\ NoPage \in Pages /\ NoPanel \in Panels
         /\ GoodFetch(NoFetch) /\ GoodReread(NoReread)
<1>1. /\ TypeOK /\ GoodForm(form) /\ GoodCopy(copy) /\ GoodCommand(stored)
      /\ GoodFetch(fetch) /\ GoodReread(reread) /\ (\A c \in copies : GoodCommand(c))
  BY DEF IInv
<1>2. panel \in Panels /\ keys \in Keys /\ faults \in 0 .. MaxFaults /\ Version \in Nat
  BY <1>1 DEF TypeOK, Version
<1>3. 0 \in Versions /\ 0 \in Keys
  BY <1>2, EditorAssumption DEF Versions, Keys
<1>4. NoPage \in Pages /\ NoPanel \in Panels /\ GoodCommand(NoCommand)
  BY <1>3, EditorAssumption
  DEF NoPage, Pages, NoPanel, Panels, GoodCommand, NoCommand, Commands, TextAt
<1>5. GoodFetch(NoFetch) /\ GoodReread(NoReread)
  BY <1>4, EditorAssumption
  DEF GoodFetch, NoFetch, Fetches, Phases, GoodCommand, GoodReread, NoReread, Rereads
<1>6. GoodCopy(NoCopy)
  BY <1>3, EditorAssumption DEF GoodCopy, NoCopy, Copies
<1> QED
  BY <1>1, <1>2, <1>4, <1>5, <1>6 DEF GoodFetch

\* A save keeps it if its command is good and names a text that is current.
LEMMA SaveStep ==
  ASSUME IInv, NEW c, GoodCommand(c), Save(c),
         c.resolved \/ c.shown = CurrentText,
         c.key = 0 \/ ClaimedBy(c) = {},
         form' = form, panel' = panel, copy' = copy, stored' = stored, reread' = reread,
         copies' \subseteq copies, keys' = keys, faults' = faults,
         GoodFetch(fetch)'
  PROVE  IInv'
<1>1. TypeOK /\ c \in Commands
  BY DEF IInv, GoodCommand
<1>2. ReplacesWhatWasShown' /\ OneRevisionPerKey'
  BY <1>1, SaveKeepsHistory DEF IInv
<1>3. /\ GoodForm(form)' /\ GoodCopy(copy)' /\ GoodCommand(stored)' /\ GoodReread(reread)'
      /\ (\A d \in copies : GoodCommand(d))'
  BY <1>1, StillGood DEF IInv
<1>4. history' \in Seq(Commands') /\ panel' \in Panels' /\ copies' \subseteq Commands'
  BY <1>1, Grown DEF TypeOK
<1>5. TypeOK'
  BY <1>1, <1>3, <1>4
  DEF TypeOK, GoodForm, GoodCopy, GoodCommand, GoodFetch, GoodReread, Keys
<1> QED
  BY <1>2, <1>3, <1>5 DEF IInv

\* Baseline lets a command through only over the text its author was shown.
LEMMA BaselineIsShown ==
  ASSUME NEW c, GoodCommand(c), Baseline(c)
  PROVE  c.resolved \/ c.shown = CurrentText
BY DEF GoodCommand, Baseline, CurrentText

LEMMA AuthorKeeps ==
  ASSUME IInv, Author
  PROVE  IInv'
<1>1. ASSUME NEW f, GoodForm(f) PROVE GoodCopy(CopyOf(f))
  BY <1>1, Found, CopyOfIsGood
<1>2. ASSUME NEW t \in Texts, Type(t) PROVE IInv'
  <2>1. GoodForm(form')
    BY <1>2, Found, TextIsGood DEF Type
  <2>2. GoodCopy(copy')
    BY <1>1, <1>2, <2>1 DEF Type
  <2> QED
    BY <1>2, <2>1, <2>2, Found, QuietStep DEF Type
<1>3. CASE Discard
  BY <1>3, Found, DiscardedIsGood, QuietStep DEF Discard
<1>4. CASE UseCurrent
  BY <1>4, Found, DiscardedIsGood, QuietStep DEF UseCurrent
<1>5. GoodForm(Mine) /\ GoodCopy(CopyOf(Mine))
  BY <1>1, Found, MineIsGood
<1>6. CASE SaveMine
  <2>1. GoodForm(form') /\ GoodFetch(fetch') /\ keys' \in Keys
    BY <1>5, <1>6, Found, SendFormIsGood DEF SaveMine
  <2> QED
    BY <1>5, <1>6, <2>1, Found, QuietStep DEF SaveMine
<1>7. CASE Combine
  BY <1>5, <1>7, Found, QuietStep DEF Combine
<1> QED
  BY <1>2, <1>3, <1>4, <1>6, <1>7 DEF Author

LEMMA SendingKeeps ==
  ASSUME IInv, Submit \/ Retry \/ RetryRefresh
  PROVE  IInv'
<1>1. CASE Submit
  <2>1. GoodForm(form') /\ GoodFetch(fetch') /\ keys' \in Keys
    BY <1>1, Found, SendFormIsGood DEF Submit
  <2> QED
    BY <1>1, <2>1, Found, QuietStep DEF Submit
<1>2. CASE Retry
  <2>1. fetch' = [NoFetch EXCEPT !.phase = "sent", !.cmd = stored, !.retry = TRUE]
    BY <1>2 DEF Retry, Dispatch
  <2>2. GoodFetch(fetch')
    BY <2>1, Found DEF GoodFetch, NoFetch, Fetches, Phases, GoodCommand
  <2> QED
    BY <1>2, <2>2, Found, QuietStep DEF Retry
<1>3. CASE RetryRefresh
  <2>1. GoodReread([reread EXCEPT !.phase = "asked"])
    BY Found DEF GoodReread, Rereads
  <2> QED
    BY <1>3, <2>1, Found, QuietStep DEF RetryRefresh
<1> QED
  BY <1>1, <1>2, <1>3

\* The form that was sent, on the page or taken away, is acknowledged.
LEMMA AcknowledgeSenderIsGood ==
  ASSUME IInv, fetch.phase = "committed", AcknowledgeSender
  PROVE  GoodForm(form') /\ GoodCopy(copy') /\ panel' \in Panels
<1> DEFINE v == fetch.page.version
           taken == [form EXCEPT !.text = fetch.left]
<1>1. v \in 1 .. Version /\ history[v].text = fetch.cmd.text /\ fetch.cmd \in Commands
  BY Found DEF GoodFetch, GoodCommand
<1>2. CASE ~fetch.detached
  <2>1. form' = AcknowledgeEditor(form, fetch.cmd, v) /\ copy' = CopyOf(form')
        /\ panel' = NoPanel
    BY <1>2 DEF AcknowledgeSender, KeepNewer
  <2>2. GoodForm(form')
    BY <1>1, <2>1, Found, AcknowledgeEditorIsGood
  <2> QED
    BY <2>1, <2>2, Found, CopyOfIsGood
<1>3. CASE fetch.detached
  <2> DEFINE c == CopyOf(AcknowledgeEditor(taken, fetch.cmd, v))
  <2>1. copy' = [c EXCEPT !.own = FALSE] /\ form' = form /\ panel' = panel
    BY <1>3 DEF AcknowledgeSender, Overtake
  <2>2. GoodForm(taken)
    BY Found, TextIsGood DEF Fetches
  <2>3. GoodForm(AcknowledgeEditor(taken, fetch.cmd, v))
    BY <1>1, <2>2, Found, AcknowledgeEditorIsGood
  <2>4. GoodCopy(c)
    BY <2>3, Found, CopyOfIsGood
  <2>5. GoodCopy(copy')
    BY <2>1, <2>4 DEF GoodCopy, Copies
  <2> QED
    BY <2>1, <2>5, Found
<1> QED
  BY <1>2, <1>3

\* A clean form with a recovery copy has one that was written for a form taken away.
LEMMA CleanCopyIsOvertaken ==
  ASSUME CopyFits, ~Dirty, copy.kept
  PROVE  ~copy.own
BY DEF CopyFits, CopyOf, Dirty, NoCopy

LEMMA ScriptKeeps ==
  ASSUME IInv, CopyFits, Script
  PROVE  IInv'
<1>1. CASE Acknowledged
  <2>1. GoodForm(form') /\ GoodCopy(copy') /\ panel' \in Panels
    BY <1>1, AcknowledgeSenderIsGood DEF Acknowledged
  <2>2. GoodFetch([NoFetch EXCEPT !.phase = "refreshing"])
    BY Found DEF GoodFetch, NoFetch, Fetches, Phases
  <2> QED
    BY <1>1, <2>1, <2>2, Found, QuietStep DEF Acknowledged
<1>2. CASE ConflictShown
  <2> DEFINE t == [given |-> TRUE, text |-> fetch.page.text,
                   version |-> fetch.page.version, resolved |-> TRUE]
  <2>1. fetch.page \in Pages /\ fetch.cmd.text \in Texts
    BY Found DEF Fetches, Commands
  <2>2. t \in Targets /\ t.resolved
    BY <2>1 DEF Pages, Targets
  <2>3. GoodForm(form')
    BY <1>2, <2>2, Found, TargetIsGood DEF ConflictShown
  <2>4. panel' \in Panels
    <3>1. fetch.cmd.text \in Texts /\ fetch.page.text \in Texts /\ fetch.page.version \in Versions
      BY <2>1 DEF Pages
    <3>2. CASE fetch.detached
      BY <1>2, <3>2, Found DEF ConflictShown
    <3>3. CASE ~fetch.detached
      <4>1. panel' = [open |-> TRUE, mine |-> fetch.cmd.text, current |-> fetch.page.text,
                      version |-> fetch.page.version]
        BY <1>2, <3>3 DEF ConflictShown
      <4>2. history' = history
        BY <1>2 DEF ConflictShown
      <4> QED
        BY <3>1, <4>1, <4>2 DEF Panels, Versions, Version
    <3> QED
      BY <3>2, <3>3
  <2> QED
    BY <1>2, <2>3, <2>4, Found, QuietStep DEF ConflictShown
<1>3. CASE KeyRefused
  <2>1. GoodForm([form EXCEPT !.key = 0, !.pending = FALSE])
    <3> DEFINE g == [form EXCEPT !.key = 0, !.pending = FALSE]
    <3>1. form \in Forms /\ 0 \in Keys
      BY Found, EditorAssumption DEF GoodForm, Keys
    <3>2. /\ g \in Forms /\ g.resolved = form.resolved /\ g.version = form.version
          /\ g.shown = form.shown /\ g.target = form.target /\ g.baseline = form.baseline
      BY <3>1 DEF Forms
    <3> QED
      BY <3>2, Found DEF GoodForm
  <2>2. GoodCopy([NoCopy EXCEPT !.own = FALSE])
    BY Found DEF GoodCopy, Copies
  <2>3. GoodForm(form') /\ GoodCopy(copy')
    BY <1>3, <2>1, <2>2, Found DEF KeyRefused, Overtake
  <2> QED
    BY <1>3, <2>3, Found, QuietStep DEF KeyRefused
<1>4. CASE Rejected
  <2>1. GoodForm(form')
    BY <1>4, Found, PendingIsGood DEF Rejected, Offering, Fetches
  <2> QED
    BY <1>4, <2>1, Found, QuietStep DEF Rejected
<1>5. CASE Refreshed
  <2>1. GoodPage(fetch.page)
    BY <1>5, Found DEF Refreshed, GoodFetch
  <2>2. ~Dirty /\ copy.kept => copy.version <= fetch.page.version
    BY <1>5, CleanCopyIsOvertaken DEF Refreshed, CopyFits
  <2>3. GoodForm(form') /\ GoodCopy(copy') /\ panel' \in Panels
    BY <1>5, <2>1, <2>2, Found, AdoptPageIsGood DEF Refreshed
  <2> QED
    BY <1>5, <2>3, Found, QuietStep DEF Refreshed
<1>6. CASE Rereaded
  <2>1. GoodPage(reread.page)
    BY <1>6, Found DEF Rereaded, GoodReread
  <2>2. ~Dirty /\ copy.kept => copy.version <= reread.page.version
    BY <1>6, CleanCopyIsOvertaken DEF Rereaded, CopyFits
  <2>3. GoodForm(form') /\ GoodCopy(copy') /\ panel' \in Panels
    BY <1>6, <2>1, <2>2, Found, AdoptPageIsGood DEF Rereaded
  <2>4. form.text \in Texts
    BY Found DEF GoodForm, Forms
  <2>5. fetch' = fetch \/ fetch' = [fetch EXCEPT !.detached = TRUE, !.left = form.text]
    BY <1>6 DEF Rereaded
  <2>6. GoodFetch(fetch')
    BY <2>4, <2>5, Found DEF GoodFetch, Fetches
  <2> QED
    BY <1>6, <2>3, <2>6, Found, QuietStep DEF Rereaded
<1> QED
  BY <1>1, <1>2, <1>3, <1>4, <1>5, <1>6 DEF Script

LEMMA ServerExecutesKeeps ==
  ASSUME IInv, ServerExecutes
  PROVE  IInv'
<1> DEFINE c == fetch.cmd
<1>1. GoodCommand(c) /\ c \in Commands /\ TypeOK
  BY Found DEF GoodCommand
<1>2. CASE Outcome(c) = "saved"
  <2>1. Save(c) /\ Answered("committed", [text |-> c.text, version |-> NextVersion])
    BY <1>2 DEF ServerExecutes
  <2>2. ClaimedBy(c) = {} /\ Baseline(c)
    BY <1>2 DEF Outcome
  <2>3. c.resolved \/ c.shown = CurrentText
    BY <1>1, <2>2, BaselineIsShown
  <2>4. /\ Version \in Nat /\ Version' = Version + 1 /\ history'[Version + 1] = c
        /\ fetch \in Fetches' /\ Commands \subseteq Commands'
        /\ \A v \in Versions : TextAt(v)' = TextAt(v)
    BY <1>1, <2>1, Found, Grown
  <2>5. fetch' = [fetch EXCEPT !.phase = "committed",
                              !.page = [text |-> c.text, version |-> Version + 1]]
    BY <2>1 DEF Answered, NextVersion
  <2>6. [text |-> c.text, version |-> Version + 1] \in Pages'
    BY <1>1, <2>4 DEF Pages, Commands, Versions
  <2>7. /\ fetch' \in Fetches' /\ fetch'.cmd = c /\ fetch'.phase = "committed"
        /\ fetch'.page.version = Version + 1
    BY <2>4, <2>5, <2>6 DEF Fetches, Phases
  <2>8. GoodCommand(fetch.cmd)'
    BY <1>1, <2>4, <2>7 DEF GoodCommand, Commands
  <2>9. GoodFetch(fetch)'
    BY <2>4, <2>7, <2>8 DEF GoodFetch, GoodCommand
  <2> QED
    BY <1>1, <2>1, <2>2, <2>3, <2>9, SaveStep DEF ServerExecutes
<1>3. ASSUME NEW phase \in {"key_conflict", "refused"}, NEW page \in Pages,
             Answered(phase, page)
      PROVE  GoodFetch(fetch')
  BY <1>1, <1>3, Found DEF Answered, GoodFetch, Fetches, Phases
<1>4. CASE Outcome(c) = "replayed"
  <2>1. PICK v \in ClaimedBy(c) :
          SameRequest(v, c) /\ Answered("committed", [text |-> c.text, version |-> v])
    BY <1>4 DEF ServerExecutes
  <2>2. v \in 1 .. Version /\ history[v].key = c.key
    BY <2>1 DEF ClaimedBy
  <2>3. [text |-> c.text, version |-> v] \in Pages
    BY <1>1, <2>2, Found DEF Pages, Commands, Versions
  <2>4. fetch' = [fetch EXCEPT !.phase = "committed",
                              !.page = [text |-> c.text, version |-> v]]
    BY <2>1 DEF Answered
  <2>5. /\ fetch' \in Fetches /\ fetch'.cmd = c /\ fetch'.phase = "committed"
        /\ fetch'.page.version = v
    BY <2>3, <2>4, Found DEF Fetches, Phases
  <2>6. GoodFetch(fetch')
    BY <1>1, <2>1, <2>2, <2>5 DEF GoodFetch, SameRequest
  <2> QED
    BY <1>4, <2>6, Found, QuietStep DEF ServerExecutes
<1>5. CASE Outcome(c) = "key_conflict"
  <2>1. GoodFetch(fetch')
    BY <1>3, <1>5, Found DEF ServerExecutes
  <2> QED
    BY <1>5, <2>1, Found, QuietStep DEF ServerExecutes
<1>6. CASE Outcome(c) = "conflict"
  <2>1. [text |-> CurrentText, version |-> 0] \in Pages
    BY <1>1, Found, CurrentPageIsGood DEF GoodPage, CurrentPage, Pages, Versions
  <2>2. GoodFetch(fetch')
    BY <1>3, <1>6, <2>1 DEF ServerExecutes
  <2> QED
    BY <1>6, <2>2, Found, QuietStep DEF ServerExecutes
<1> QED
  BY <1>2, <1>4, <1>5, <1>6 DEF ServerExecutes

LEMMA ServerKeeps ==
  ASSUME IInv, Server
  PROVE  IInv'
<1>1. GoodPage(CurrentPage) /\ Version \in Versions
  BY Found, CurrentPageIsGood DEF Versions
<1>2. CASE ServerReads
  <2>1. GoodFetch(fetch')
    BY <1>1, <1>2, Found DEF ServerReads, Answered, GoodFetch, Fetches, Phases, Pages
  <2> QED
    BY <1>2, <2>1, Found, QuietStep DEF ServerReads
<1>3. CASE RefreshRead
  <2>1. GoodFetch(fetch')
    BY <1>1, <1>3, Found DEF RefreshRead, Answered, GoodFetch, Fetches, Phases, GoodPage
  <2> QED
    BY <1>3, <2>1, Found, QuietStep DEF RefreshRead
<1>4. CASE Reread
  <2>1. GoodReread(reread')
    BY <1>1, <1>4, Found DEF Reread, GoodReread, Rereads, GoodPage
  <2> QED
    BY <1>4, <2>1, Found, QuietStep DEF Reread
<1> QED
  BY <1>2, <1>3, <1>4, ServerExecutesKeeps DEF Server

LEMMA FaultyKeeps ==
  ASSUME IInv, CopyFits, Faulty
  PROVE  IInv'
<1>1. faults < MaxFaults => faults + 1 \in 0 .. MaxFaults
  BY Found, EditorAssumption
<1>2. LeaveBehind => \A c \in copies' : GoodCommand(c)
  BY Found DEF LeaveBehind
<1>3. CASE ServerRejects
  <2>1. GoodFetch(fetch')
    BY <1>3, Found DEF ServerRejects, Answered, GoodFetch, Fetches, Phases
  <2> QED
    BY <1>1, <1>3, <2>1, Found, QuietStep DEF ServerRejects
<1>4. CASE FetchFails
  <2>1. GoodForm(form')
    BY <1>4, Found, PendingIsGood DEF FetchFails, Offering
  <2> QED
    BY <1>1, <1>2, <1>4, <2>1, Found, QuietStep DEF FetchFails
<1>5. CASE RefreshFails
  <2>1. GoodReread(reread')
    BY <1>5, Found DEF RefreshFails, GoodReread, Rereads
  <2> QED
    BY <1>1, <1>5, <2>1, Found, QuietStep DEF RefreshFails
<1>6. CASE Reload
  <2>1. GoodPage(CurrentPage) /\ CurrentPage.version = Version
    BY Found, CurrentPageIsGood DEF CurrentPage
  <2>2. copy.kept => copy.version <= CurrentPage.version
    BY <2>1, Found DEF GoodCopy, Copies, Versions
  <2>3. GoodForm(form') /\ GoodCopy(copy') /\ panel' \in Panels
    BY <1>6, <2>1, <2>2, Found, ReplacedIsGood DEF Reload
  <2> QED
    BY <1>1, <1>2, <1>6, <2>3, Found, QuietStep DEF Reload
<1>7. ASSUME NEW c \in copies, CopyArrives(c) PROVE IInv'
  <2>1. GoodCommand(c) /\ c \in Commands /\ copies' \subseteq copies
    BY <1>7, Found DEF CopyArrives, GoodCommand
  <2>2. CASE Outcome(c) = "saved"
    <3>1. ClaimedBy(c) = {} /\ Baseline(c) /\ Save(c)
      BY <1>7, <2>2 DEF Outcome, CopyArrives
    <3>2. c.resolved \/ c.shown = CurrentText
      BY <2>1, <3>1, BaselineIsShown
    <3>3. GoodFetch(fetch)'
      BY <1>7, <2>1, <3>1, Found, StillGood DEF CopyArrives
    <3> QED
      BY <1>7, <2>1, <3>1, <3>2, <3>3, SaveStep DEF CopyArrives
  <2>3. CASE Outcome(c) # "saved"
    BY <1>7, <2>1, <2>3, Found, QuietStep DEF CopyArrives
  <2> QED
    BY <2>2, <2>3
<1> QED
  BY <1>3, <1>4, <1>5, <1>6, <1>7 DEF Faulty

LEMMA SavedElsewhereKeeps ==
  ASSUME IInv, NEW t \in Texts, SavedElsewhere(t)
  PROVE  IInv'
<1> DEFINE c == [text |-> t, base |-> Version, key |-> 0, shown |-> CurrentText,
                 resolved |-> FALSE]
<1>1. Save(c) /\ c.key = 0 /\ c.shown = CurrentText
  BY DEF SavedElsewhere
<1>2. GoodPage(CurrentPage)
  BY Found, CurrentPageIsGood
<1>3. GoodCommand(c) /\ c \in Commands
  BY <1>2, EditorAssumption DEF GoodPage, CurrentPage, Pages, GoodCommand, Commands, CurrentText,
     Keys
<1>4. GoodFetch(fetch)'
  BY <1>1, <1>3, Found, StillGood DEF SavedElsewhere
<1> QED
  BY <1>1, <1>3, <1>4, SaveStep DEF SavedElsewhere

LEMMA NextKeeps == IInv /\ CopyFits /\ [Next]_vars => IInv'
<1> SUFFICES ASSUME IInv, CopyFits, [Next]_vars PROVE IInv'
  OBVIOUS
<1>1. CASE Author
  BY <1>1, AuthorKeeps
<1>2. CASE Submit \/ Retry \/ RetryRefresh
  BY <1>2, SendingKeeps
<1>3. CASE Server
  BY <1>3, ServerKeeps
<1>4. CASE Script
  BY <1>4, ScriptKeeps
<1>5. CASE Faulty
  BY <1>5, FaultyKeeps
<1>6. CASE \E t \in Texts : SavedElsewhere(t)
  BY <1>6, SavedElsewhereKeeps
<1>7. CASE UNCHANGED vars
  BY <1>7, Found, QuietStep DEF vars
<1> QED
  BY <1>1, <1>2, <1>3, <1>4, <1>5, <1>6, <1>7 DEF Next

-----------------------------------------------------------------------------
(***************************************************************************)
(* The recovery copy stays that of the form on the page.                   *)
(***************************************************************************)
\* A step that writes the copy for the form on the page, or neither of them.
LEMMA MarkedFits ==
  ASSUME IInv, CopyFits, copy' = CopyOf(form'), fetch'.detached => reread'.phase = "none"
  PROVE  CopyFits'
<1>1. copy'.own
  BY DEF CopyOf, NoCopy
<1> QED
  BY <1>1 DEF CopyFits, CopyOf

LEMMA UnmarkedFits ==
  ASSUME CopyFits, copy' = copy,
         \/ form' = form
         \/ /\ form'.text = form.text /\ form'.baseline = form.baseline
            /\ form'.version = form.version /\ form'.shown = form.shown
            /\ form'.resolved = form.resolved,
         reread'.phase = "read" => reread' = reread,
         fetch'.phase = "refreshed" => fetch' = fetch,
         fetch'.detached => reread'.phase = "none"
  PROVE  CopyFits'
BY DEF CopyFits, CopyOf

\* A clean form is clean after the author went back to a saved text.
LEMMA DiscardedIsClean == GoodForm(form) => CopyOf(Discarded) = NoCopy
BY DEF GoodForm, Forms, Discarded, CopyOf

LEMMA AuthorFits ==
  ASSUME IInv, CopyFits, Author
  PROVE  CopyFits'
<1>1. GoodForm(form) /\ (fetch.detached => reread.phase = "none")
  BY Found DEF CopyFits
<1>2. ASSUME NEW t \in Texts, Type(t) PROVE CopyFits'
  BY <1>1, <1>2, MarkedFits DEF Type
<1>3. CASE Discard
  BY <1>1, <1>3, DiscardedIsClean, MarkedFits DEF Discard
<1>4. CASE UseCurrent
  BY <1>1, <1>4, DiscardedIsClean, MarkedFits DEF UseCurrent
<1>5. CASE SaveMine
  <2>1. CopyOf(form') = CopyOf(Mine)
    <3>1. Mine \in Forms
      BY Found, MineIsGood DEF GoodForm
    <3>2. form' = Mine \/ form' = [Mine EXCEPT !.key = keys + 1]
      BY <1>5 DEF SaveMine, SendForm
    <3> QED
      BY <3>1, <3>2 DEF CopyOf, Forms
  <2>2. fetch'.detached => fetch.detached
    BY <1>5 DEF SaveMine, SendForm, Dispatch, NoFetch
  <2> QED
    BY <1>1, <1>5, <2>1, <2>2, MarkedFits DEF SaveMine
<1>6. CASE Combine
  BY <1>1, <1>6, MarkedFits DEF Combine
<1> QED
  BY <1>2, <1>3, <1>4, <1>5, <1>6 DEF Author

LEMMA SendingFits ==
  ASSUME IInv, CopyFits, Submit \/ Retry \/ RetryRefresh
  PROVE  CopyFits'
<1>1. form \in Forms /\ reread \in Rereads
  BY Found DEF GoodForm, GoodReread
<1>2. CASE Submit
  <2>1. form' = form \/ form' = [form EXCEPT !.key = keys + 1]
    BY <1>2 DEF Submit, SendForm
  <2>2. fetch'.phase = "sent" /\ ~fetch'.detached
    BY <1>2 DEF Submit, SendForm, Dispatch, NoFetch
  <2> QED
    BY <1>1, <1>2, <2>1, <2>2, UnmarkedFits DEF Submit, Forms
<1>3. CASE Retry
  <2>1. fetch'.phase = "sent" /\ ~fetch'.detached
    BY <1>3 DEF Retry, Dispatch, NoFetch
  <2> QED
    BY <1>3, <2>1, UnmarkedFits DEF Retry
<1>4. CASE RetryRefresh
  <2>1. reread'.phase = "asked" /\ ~fetch.detached
    BY <1>1, <1>4 DEF RetryRefresh, Rereads, CopyFits
  <2> QED
    BY <1>4, <2>1, UnmarkedFits DEF RetryRefresh
<1> QED
  BY <1>2, <1>3, <1>4

\* A page that is read now is not older than the copy.
LEMMA ServerFits ==
  ASSUME IInv, CopyFits, Server
  PROVE  CopyFits'
<1>1. fetch \in Fetches /\ reread \in Rereads /\ copy.version <= Version
  BY Found DEF GoodReread, GoodCopy, Copies, Versions
<1>2. CASE ServerExecutes
  <2>1. fetch'.phase # "refreshed" /\ (fetch'.detached => fetch.detached)
    BY <1>1, <1>2 DEF ServerExecutes, Answered, Fetches
  <2> QED
    BY <1>2, <2>1, UnmarkedFits DEF ServerExecutes, CopyFits
<1>3. CASE ServerReads
  <2>1. fetch'.phase # "refreshed" /\ (fetch'.detached => fetch.detached)
    BY <1>1, <1>3 DEF ServerReads, Answered, Fetches
  <2> QED
    BY <1>3, <2>1, UnmarkedFits DEF ServerReads, CopyFits
<1>4. CASE RefreshRead
  <2>1. fetch'.page.version = Version /\ (fetch'.detached => fetch.detached)
    BY <1>1, <1>4 DEF RefreshRead, Answered, CurrentPage, Fetches
  <2> QED
    BY <1>1, <1>4, <2>1 DEF RefreshRead, CopyFits, CopyOf
<1>5. CASE Reread
  <2>1. reread'.page.version = Version /\ ~fetch.detached
    BY <1>5 DEF Reread, CurrentPage, CopyFits
  <2> QED
    BY <1>1, <1>5, <2>1 DEF Reread, CopyFits, CopyOf
<1> QED
  BY <1>2, <1>3, <1>4, <1>5 DEF Server

\* A page that is shown leaves a dirty form with its copy, and restores it into
\* the one that replaces a clean form.
LEMMA AdoptPageFits ==
  ASSUME IInv, CopyFits, NEW p, AdoptPage(p),
         reread'.phase # "read", fetch'.phase # "refreshed",
         fetch'.detached => reread'.phase = "none"
  PROVE  CopyFits'
<1>1. form \in Forms
  BY Found DEF GoodForm
<1>2. CASE Dirty
  <2>1. copy' = copy /\ \E t : form' = [form EXCEPT !.target = t]
    BY <1>2 DEF AdoptPage
  <2>2. /\ form'.text = form.text /\ form'.baseline = form.baseline
        /\ form'.version = form.version /\ form'.shown = form.shown
        /\ form'.resolved = form.resolved
    BY <1>1, <2>1 DEF Forms
  <2> QED
    BY <2>1, <2>2, UnmarkedFits
<1>3. CASE ~Dirty
  BY <1>3, MarkedFits DEF AdoptPage, Replaced
<1> QED
  BY <1>2, <1>3

LEMMA ScriptFits ==
  ASSUME IInv, CopyFits, Script
  PROVE  CopyFits'
<1>1. form \in Forms /\ fetch \in Fetches /\ reread \in Rereads
  BY Found DEF GoodForm, GoodReread
<1>2. /\ NoFetch.phase = "idle" /\ ~NoFetch.detached /\ NoReread.phase = "none"
      /\ [NoFetch EXCEPT !.phase = "refreshing"].phase = "refreshing"
      /\ ~[NoFetch EXCEPT !.phase = "refreshing"].detached
  BY DEF NoFetch, NoReread
<1>3. CASE Acknowledged
  <2>1. CASE ~fetch.detached
    <3>1. copy' = CopyOf(form')
      BY <1>3, <2>1 DEF Acknowledged, AcknowledgeSender, KeepNewer
    <3> QED
      BY <1>2, <1>3, <3>1, MarkedFits DEF Acknowledged
  <2>2. CASE fetch.detached
    <3>1. ~copy'.own
      <4>1. \A f : CopyOf(f).own /\ ~[CopyOf(f) EXCEPT !.own = FALSE].own
        BY DEF CopyOf, NoCopy
      <4> QED
        BY <1>3, <2>2, <4>1 DEF Acknowledged, AcknowledgeSender, Overtake
    <3>2. reread'.phase = "none"
      BY <1>3, <2>2 DEF Acknowledged, CopyFits
    <3> QED
      BY <1>2, <1>3, <3>1, <3>2 DEF Acknowledged, CopyFits
  <2> QED
    BY <2>1, <2>2
<1>4. CASE ConflictShown
  <2>1. \/ form' = form
        \/ /\ form'.text = form.text /\ form'.baseline = form.baseline
           /\ form'.version = form.version /\ form'.shown = form.shown
           /\ form'.resolved = form.resolved
    BY <1>1, <1>4 DEF ConflictShown, Forms
  <2> QED
    BY <1>2, <1>4, <2>1, UnmarkedFits DEF ConflictShown
<1>5. CASE KeyRefused
  <2>1. CASE ~fetch.detached
    <3>1. /\ form'.text = form.text /\ form'.baseline = form.baseline
          /\ form'.version = form.version /\ form'.shown = form.shown
          /\ form'.resolved = form.resolved /\ copy' = copy
      BY <1>1, <1>5, <2>1 DEF KeyRefused, Forms
    <3> QED
      BY <1>2, <1>5, <3>1, UnmarkedFits DEF KeyRefused
  <2>2. CASE fetch.detached
    <3>1. ~copy'.own /\ ~copy'.kept
      BY <1>5, <2>2 DEF KeyRefused, Overtake, NoCopy
    <3> QED
      BY <1>2, <1>5, <3>1 DEF KeyRefused, CopyFits
  <2> QED
    BY <2>1, <2>2
<1>6. CASE Rejected
  <2>1. \/ form' = form
        \/ /\ form'.text = form.text /\ form'.baseline = form.baseline
           /\ form'.version = form.version /\ form'.shown = form.shown
           /\ form'.resolved = form.resolved
    BY <1>1, <1>6 DEF Rejected, Offering, Forms
  <2> QED
    BY <1>2, <1>6, <2>1, UnmarkedFits DEF Rejected
<1>7. CASE Refreshed
  <2>1. AdoptPage(fetch.page) /\ fetch' = NoFetch
        /\ (reread' = NoReread \/ reread' = reread)
    BY <1>7 DEF Refreshed
  <2>2. CASE Dirty
    <3>1. /\ form'.text = form.text /\ form'.baseline = form.baseline
          /\ form'.version = form.version /\ form'.shown = form.shown
          /\ form'.resolved = form.resolved /\ copy' = copy
      BY <1>1, <2>1, <2>2 DEF AdoptPage, Forms
    <3> QED
      BY <1>2, <2>1, <3>1, UnmarkedFits
  <2>3. CASE ~Dirty
    BY <1>2, <2>1, <2>3, MarkedFits DEF AdoptPage, Replaced
  <2> QED
    BY <2>2, <2>3
<1>8. CASE Rereaded
  <2>1. reread'.phase = "none" /\ AdoptPage(reread.page)
    BY <1>2, <1>8 DEF Rereaded
  <2>2. CASE Dirty
    <3>1. /\ form'.text = form.text /\ form'.baseline = form.baseline
          /\ form'.version = form.version /\ form'.shown = form.shown
          /\ form'.resolved = form.resolved /\ copy' = copy /\ fetch' = fetch
      BY <1>1, <1>8, <2>1, <2>2 DEF AdoptPage, Rereaded, Forms
    <3> QED
      BY <2>1, <3>1, UnmarkedFits
  <2>3. CASE ~Dirty
    BY <2>1, <2>3, MarkedFits DEF AdoptPage, Replaced
  <2> QED
    BY <2>2, <2>3
<1> QED
  BY <1>3, <1>4, <1>5, <1>6, <1>7, <1>8 DEF Script

LEMMA FaultyFits ==
  ASSUME IInv, CopyFits, Faulty
  PROVE  CopyFits'
<1>1. form \in Forms /\ fetch \in Fetches /\ reread \in Rereads
  BY Found DEF GoodForm, GoodReread
<1>2. NoFetch.phase = "idle" /\ ~NoFetch.detached /\ NoReread.phase = "none"
  BY DEF NoFetch, NoReread
<1>3. CASE ServerRejects
  <2>1. fetch'.phase = "rejected" /\ (fetch'.detached => fetch.detached)
    BY <1>1, <1>3 DEF ServerRejects, Answered, Fetches
  <2> QED
    BY <1>3, <2>1, UnmarkedFits DEF ServerRejects, CopyFits
<1>4. CASE FetchFails
  <2>1. \/ form' = form
        \/ /\ form'.text = form.text /\ form'.baseline = form.baseline
           /\ form'.version = form.version /\ form'.shown = form.shown
           /\ form'.resolved = form.resolved
    BY <1>1, <1>4 DEF FetchFails, Offering, Forms
  <2> QED
    BY <1>2, <1>4, <2>1, UnmarkedFits DEF FetchFails
<1>5. CASE RefreshFails
  <2>1. reread'.phase = "read" => reread' = reread
    BY <1>1, <1>5 DEF RefreshFails, Rereads
  <2> QED
    BY <1>2, <1>5, <2>1, UnmarkedFits DEF RefreshFails
<1>6. CASE Reload
  BY <1>2, <1>6, MarkedFits DEF Reload, Replaced
<1>7. ASSUME NEW c \in copies, CopyArrives(c) PROVE CopyFits'
  BY <1>7, UnmarkedFits DEF CopyArrives, CopyFits
<1> QED
  BY <1>3, <1>4, <1>5, <1>6, <1>7 DEF Faulty

LEMMA NextKeepsCopy == IInv /\ CopyFits /\ [Next]_vars => CopyFits'
<1> SUFFICES ASSUME IInv, CopyFits, [Next]_vars PROVE CopyFits'
  OBVIOUS
<1>1. CASE \E t \in Texts : SavedElsewhere(t)
  BY <1>1, UnmarkedFits DEF SavedElsewhere, CopyFits
<1>2. CASE UNCHANGED vars
  BY <1>2, UnmarkedFits DEF vars, CopyFits
<1> QED
  BY <1>1, <1>2, AuthorFits, SendingFits, ServerFits, ScriptFits, FaultyFits DEF Next

-----------------------------------------------------------------------------
(***************************************************************************)
(* The editor implements the draft of module Workspace.                    *)
(***************************************************************************)
\* Revisions of other sessions.
Elsewhere == {v \in 1 .. Version : history[v].key = 0}

\* What is sent, was given up or has an unknown outcome has a key, and the
\* other sessions save within their bound.
Keyed ==
  /\ fetch.phase \in Unanswered => fetch.cmd.key # 0
  /\ stored = NoCommand \/ stored.key # 0
  /\ \A c \in copies : c.key # 0
  /\ Cardinality(Elsewhere) <= MaxOthers

LEMMA InitKeyed == Init => Keyed
<1> SUFFICES ASSUME Init PROVE Keyed
  OBVIOUS
<1>1. Elsewhere = {}
  BY DEF Init, Elsewhere, Version
<1>2. Cardinality(Elsewhere) = 0
  BY <1>1, FS_EmptySet
<1> QED
  BY <1>2, EditorAssumption DEF Init, Keyed, NoFetch, Unanswered

\* What a step leaves of the revisions of other sessions.
LEMMA ElsewhereGrows ==
  ASSUME TypeOK, NEW c \in Commands, Save(c)
  PROVE  /\ IsFiniteSet(Elsewhere) /\ Cardinality(Elsewhere) \in Nat
         /\ c.key # 0 => Elsewhere' = Elsewhere
         /\ c.key = 0 => Cardinality(Elsewhere)' = Cardinality(Elsewhere) + 1
<1>1. Version \in Nat /\ Version' = Version + 1
      /\ (\A v \in 1 .. Version : history'[v] = history[v]) /\ history'[Version + 1] = c
  BY Grown
<1>2. IsFiniteSet(Elsewhere) /\ Cardinality(Elsewhere) \in Nat
  <2>1. IsFiniteSet(1 .. Version)
    BY <1>1, FS_Interval
  <2>2. Elsewhere \subseteq 1 .. Version
    BY DEF Elsewhere
  <2> QED
    BY <2>1, <2>2, FS_Subset, FS_CardinalityType
<1>3. c.key # 0 => Elsewhere' = Elsewhere
  BY <1>1 DEF Elsewhere
<1>4. ASSUME c.key = 0 PROVE Cardinality(Elsewhere)' = Cardinality(Elsewhere) + 1
  <2>1. Elsewhere' = Elsewhere \cup {Version + 1} /\ Version + 1 \notin Elsewhere
    BY <1>1, <1>4 DEF Elsewhere
  <2>2. Cardinality(Elsewhere \cup {Version + 1}) = Cardinality(Elsewhere) + 1
    BY <1>2, <2>1, FS_AddElement
  <2> QED
    BY <2>1, <2>2
<1> QED
  BY <1>2, <1>3, <1>4

\* The steps that save nothing and the two that do.
LEMMA KeyedQuiet ==
  ASSUME Keyed, UNCHANGED history,
         fetch'.phase \in Unanswered => fetch'.cmd.key # 0,
         stored' = NoCommand \/ stored'.key # 0,
         \A c \in copies' : c.key # 0
  PROVE  Keyed'
<1>1. Elsewhere' = Elsewhere
  BY DEF Elsewhere, Version
<1> QED
  BY <1>1 DEF Keyed

LEMMA KeyedSave ==
  ASSUME TypeOK, Keyed, NEW c \in Commands, Save(c),
         c.key = 0 => Cardinality(Elsewhere) < MaxOthers,
         fetch'.phase \in Unanswered => fetch'.cmd.key # 0,
         stored' = stored, copies' \subseteq copies
  PROVE  Keyed'
<1>1. Cardinality(Elsewhere) <= MaxOthers /\ Cardinality(Elsewhere) \in Nat
  BY ElsewhereGrows DEF Keyed
<1>2. Cardinality(Elsewhere)' <= MaxOthers
  <2>1. CASE c.key = 0
    BY <1>1, <2>1, ElsewhereGrows, EditorAssumption
  <2>2. CASE c.key # 0
    BY <1>1, <2>2, ElsewhereGrows
  <2> QED
    BY <2>1, <2>2
<1> QED
  BY <1>2 DEF Keyed

\* A form is sent under a key.
LEMMA SentWithKey ==
  ASSUME TypeOK, NEW f \in Forms, SendForm(f)
  PROVE  fetch'.cmd.key # 0
<1>1. keys \in Nat /\ keys + 1 # 0
  BY EditorAssumption DEF TypeOK, Keys
<1>2. [f EXCEPT !.key = keys + 1].key = keys + 1
  BY DEF Forms
<1> QED
  BY <1>1, <1>2 DEF SendForm, Dispatch, NoFetch, Freeze

LEMMA NextKeepsKeyed ==
  ASSUME IInv, Keyed, [Next]_vars
  PROVE  Keyed'
<1>1. TypeOK /\ form \in Forms /\ fetch \in Fetches /\ GoodForm(form)
  BY Found DEF GoodForm
<1> USE DEF Unanswered
<1>2. CASE Author
  <2>1. CASE SaveMine /\ Idle
    <3>1. Mine \in Forms
      BY <1>1, MineIsGood DEF GoodForm
    <3>2. SendForm(Mine) \/ UNCHANGED fetch
      BY <2>1 DEF SaveMine
    <3>3. ASSUME SendForm(Mine) PROVE fetch'.cmd.key # 0
      BY <1>1, <3>1, <3>3, SentWithKey
    <3>4. ASSUME UNCHANGED fetch PROVE fetch'.phase \in Unanswered => fetch'.cmd.key # 0
      BY <3>4 DEF Keyed
    <3>5. fetch'.phase \in Unanswered => fetch'.cmd.key # 0
      BY <3>2, <3>3, <3>4
    <3> QED
      BY <2>1, <3>5, KeyedQuiet DEF SaveMine, Keyed
  <2>2. CASE ~(SaveMine /\ Idle)
    <3>1. UNCHANGED <<history, stored, fetch, copies>>
      BY <1>2, <2>2 DEF Author, Type, Discard, UseCurrent, SaveMine, Combine
    <3> QED
      BY <3>1, KeyedQuiet DEF Keyed
  <2> QED
    BY <2>1, <2>2
<1>3. CASE Submit
  <2>1. fetch'.cmd.key # 0
    BY <1>1, <1>3, SentWithKey DEF Submit
  <2> QED
    BY <1>3, <2>1, KeyedQuiet DEF Submit, Keyed
<1>4. CASE Retry
  <2>1. fetch'.cmd = stored
    BY <1>4 DEF Retry, Dispatch, NoFetch
  <2> QED
    BY <1>4, <2>1, KeyedQuiet DEF Retry, Keyed
<1>5. CASE RetryRefresh \/ ServerReads \/ RefreshRead \/ Reread
  <2>1. UNCHANGED <<history, stored, copies>> /\ fetch'.cmd = fetch.cmd
        /\ (fetch'.phase \in Unanswered => fetch.phase \in Unanswered)
    BY <1>1, <1>5 DEF RetryRefresh, ServerReads, RefreshRead, Reread, Answered, Fetches
  <2> QED
    BY <2>1, KeyedQuiet DEF Keyed
<1>6. CASE ServerExecutes
  <2> DEFINE c == fetch.cmd
  <2>1. c \in Commands /\ c.key # 0 /\ fetch'.cmd = c
    BY <1>1, <1>6 DEF ServerExecutes, Answered, Fetches, Keyed
  <2>2. Save(c) \/ UNCHANGED history
    BY <1>6 DEF ServerExecutes
  <2>3. UNCHANGED <<stored, copies>>
    BY <1>6 DEF ServerExecutes
  <2>4. CASE Save(c)
    BY <1>1, <2>1, <2>3, <2>4, KeyedSave
  <2>5. CASE UNCHANGED history
    BY <2>1, <2>3, <2>5, KeyedQuiet DEF Keyed
  <2> QED
    BY <2>2, <2>4, <2>5
<1>7. CASE Script
  <2>1. UNCHANGED <<history, copies>>
        /\ (stored' = NoCommand \/ stored' = stored)
    BY <1>7 DEF Script, Acknowledged, ConflictShown, KeyRefused, Rejected, Refreshed, Rereaded
  <2>2. \/ fetch' = NoFetch \/ fetch' = [NoFetch EXCEPT !.phase = "refreshing"] \/ fetch' = fetch
        \/ fetch' = [fetch EXCEPT !.detached = TRUE, !.left = form.text]
    BY <1>7 DEF Script, Acknowledged, ConflictShown, KeyRefused, Rejected, Refreshed, Rereaded
  <2>3. fetch'.phase \in Unanswered => fetch'.cmd.key # 0
    <3> DEFINE sent == [NoFetch EXCEPT !.phase = "refreshing"]
               left == [fetch EXCEPT !.detached = TRUE, !.left = form.text]
    <3>1. NoFetch.phase \notin Unanswered /\ sent.phase \notin Unanswered
      BY DEF NoFetch
    <3>2. left.phase = fetch.phase /\ left.cmd = fetch.cmd
      BY <1>1 DEF Fetches
    <3> HIDE DEF sent, left
    <3>3. CASE fetch' = NoFetch \/ fetch' = sent
      BY <3>1, <3>3
    <3>4. CASE fetch' = fetch \/ fetch' = left
      BY <3>2, <3>4 DEF Keyed
    <3> QED
      BY <2>2, <3>3, <3>4 DEF sent, left
  <2> QED
    BY <2>1, <2>3, KeyedQuiet DEF Keyed
<1>8. CASE Faulty
  <2>1. LeaveBehind => \A c \in copies' : c.key # 0
    BY DEF LeaveBehind, Keyed
  <2>2. CASE ServerRejects
    <3>1. fetch'.cmd.key # 0
      BY <1>1, <2>2 DEF ServerRejects, Answered, Fetches, Keyed
    <3> QED
      BY <2>2, <3>1, KeyedQuiet DEF ServerRejects, Keyed
  <2>3. CASE FetchFails
    BY <2>1, <2>3, KeyedQuiet DEF FetchFails, Keyed, NoFetch
  <2>4. CASE RefreshFails
    BY <2>4, KeyedQuiet DEF RefreshFails, Keyed, NoFetch
  <2>5. CASE Reload
    BY <2>1, <2>5, KeyedQuiet DEF Reload, Keyed, NoFetch
  <2>6. ASSUME NEW c \in copies, CopyArrives(c) PROVE Keyed'
    <3>1. c \in Commands /\ c.key # 0
      BY Found DEF GoodCommand, Keyed
    <3>2. UNCHANGED <<stored, fetch>> /\ copies' \subseteq copies
      BY <2>6 DEF CopyArrives
    <3>3. CASE Save(c)
      BY <1>1, <3>1, <3>2, <3>3, KeyedSave DEF Keyed
    <3>4. CASE UNCHANGED history
      BY <3>2, <3>4, KeyedQuiet DEF Keyed
    <3> QED
      BY <2>6, <3>3, <3>4 DEF CopyArrives
  <2> QED
    BY <1>8, <2>2, <2>3, <2>4, <2>5, <2>6 DEF Faulty
<1>9. ASSUME NEW t \in Texts, SavedElsewhere(t) PROVE Keyed'
  <2> DEFINE c == [text |-> t, base |-> Version, key |-> 0, shown |-> CurrentText,
                   resolved |-> FALSE]
  <2>1. c \in Commands
    <3>1. CurrentText \in Texts /\ Version \in Versions /\ 0 \in Keys
      BY <1>1, CurrentPageIsGood, EditorAssumption
      DEF GoodPage, CurrentPage, Pages, Keys
    <3> QED
      BY <3>1 DEF Commands
  <2>2. Save(c) /\ Cardinality(Elsewhere) < MaxOthers /\ UNCHANGED <<stored, fetch, copies>>
    BY <1>9 DEF SavedElsewhere, Elsewhere
  <2> QED
    BY <1>1, <2>1, <2>2, KeyedSave DEF Keyed
<1>10. CASE UNCHANGED vars
  BY <1>10, KeyedQuiet DEF vars, Keyed
<1> QED
  BY <1>2, <1>3, <1>4, <1>5, <1>6, <1>7, <1>8, <1>9, <1>10 DEF Next, Server

\* Every revision has a key of this page, of which there is one revision, or is
\* one of another session.
WithinBounds == Version <= MaxSaves + MaxOthers

LEMMA VersionsBounded == IInv /\ Keyed => WithinBounds
<1> SUFFICES ASSUME IInv, Keyed PROVE WithinBounds
  OBVIOUS
<1> DEFINE Own == {v \in 1 .. Version : history[v].key # 0}
           KeyOf == [v \in Own |-> history[v].key]
<1>1. Version \in Nat /\ OneRevisionPerKey /\ Cardinality(Elsewhere) <= MaxOthers
  BY Found DEF IInv, Keyed
<1>2. IsFiniteSet(1 .. Version) /\ Cardinality(1 .. Version) = Version
  BY <1>1, FS_Interval
<1>3. IsFiniteSet(1 .. MaxSaves) /\ Cardinality(1 .. MaxSaves) = MaxSaves
  BY EditorAssumption, FS_Interval
<1>4. KeyOf \in Injection(Own, 1 .. MaxSaves)
  <2>1. \A v \in 1 .. Version : history[v].key \in 0 .. MaxSaves
    <3>1. \A v \in 1 .. Version : history[v] \in Commands
      BY Found DEF TypeOK, Version
    <3> QED
      BY <3>1 DEF Commands, Keys
  <2>2. \A v \in Own : KeyOf[v] \in 1 .. MaxSaves
    BY <2>1, EditorAssumption
  <2>3. \A v, w \in Own : KeyOf[v] = KeyOf[w] => v = w
    BY <1>1 DEF OneRevisionPerKey
  <2> QED
    BY <2>2, <2>3 DEF Injection, IsInjective
<1>5. IsFiniteSet(Own) /\ Cardinality(Own) <= MaxSaves
  <2>1. IsFiniteSet(Own)
    BY <1>2, FS_Subset
  <2>2. Cardinality(Own) <= Cardinality(1 .. MaxSaves)
    BY <1>3, <1>4, <2>1, FS_Injection
  <2> QED
    BY <1>3, <2>1, <2>2
<1>6. IsFiniteSet(Elsewhere)
  BY <1>2, FS_Subset DEF Elsewhere
<1>7. Elsewhere \cup Own = 1 .. Version /\ Elsewhere \cap Own = {}
  BY DEF Elsewhere
<1>8. Cardinality(Elsewhere \cup Own) = Cardinality(Elsewhere) + Cardinality(Own)
  <2>1. Cardinality(Elsewhere \cup Own)
          = Cardinality(Elsewhere) + Cardinality(Own) - Cardinality(Elsewhere \cap Own)
    BY <1>5, <1>6, FS_Union
  <2>2. Cardinality(Elsewhere \cap Own) = 0
    BY <1>7, FS_EmptySet
  <2>3. Cardinality(Elsewhere) \in Nat /\ Cardinality(Own) \in Nat
    BY <1>5, <1>6, FS_CardinalityType
  <2> QED
    BY <2>1, <2>2, <2>3
<1>9. Cardinality(Elsewhere) \in Nat /\ Cardinality(Own) \in Nat
  BY <1>5, <1>6, FS_CardinalityType
<1>10. Version = Cardinality(Elsewhere) + Cardinality(Own)
  BY <1>2, <1>7, <1>8
<1> HIDE DEF Own, KeyOf
<1> QED
  BY <1>1, <1>5, <1>9, <1>10, EditorAssumption DEF WithinBounds

\* The initial state of the editor is a new draft.
LEMMA InitIsNewDraft == Init => Draft!Init
<1> SUFFICES ASSUME Init PROVE Draft!Init
  OBVIOUS
<1>1. Version = 0
  BY DEF Init, Version
<1>2. PackageOf(Version) = Draft!EmptyPackage
  BY <1>1 DEF PackageOf, TextAt, Draft!EmptyPackage
<1>3. [v \in 1 .. Version |-> [package |-> PackageOf(v), op |-> "intention",
                               base |-> history[v].base]] = [n \in {} |-> 0]
  BY <1>1
<1>4. [v \in 1 .. Version |-> [kind |-> "package_revision", id |-> v,
                               completion |-> Unconfirmed]] = [n \in {} |-> 0]
  BY <1>1
<1>5. <<>> = [n \in {} |-> 0]
  OBVIOUS
<1> QED
  BY <1>1, <1>2, <1>3, <1>4, <1>5
  DEF Draft!Init, Draft!Operations, Draft!EditOperations, Draft!SubmitOperations

\* A save whose baseline holds is an edit of the intention.
LEMMA SaveIsEdit ==
  ASSUME IInv, WithinBounds', NEW c \in Commands, Save(c), Baseline(c)
  PROVE  Draft!Next
<1> DEFINE n == Version + 1
           k == "intention"
           Rows == [v \in 1 .. Version |-> [package |-> PackageOf(v), op |-> "intention",
                                            base |-> history[v].base]]
           Results == [v \in 1 .. Version |-> [kind |-> "package_revision", id |-> v,
                                               completion |-> Unconfirmed]]
<1>1. /\ Version \in Nat /\ Version' = n /\ n \in Nat /\ c.text \in Texts /\ c.base \in Versions
      /\ (\A v \in 1 .. Version : history'[v] = history[v]) /\ history'[n] = c
      /\ \A v \in Versions : TextAt(v)' = TextAt(v)
  BY Found, Grown DEF Commands
<1>2. Version < MaxSaves + MaxOthers
  BY <1>1, EditorAssumption DEF WithinBounds
<1>3. Draft!IntentionBaseline(c.base)
  <2>1. \A v \in 1 .. Version : Rows[v].package.intention = TextAt(v)
    BY DEF PackageOf
  <2>2. Draft!PackageAt(c.base).intention = TextAt(c.base)
    BY <1>1, <2>1 DEF Draft!PackageAt, Draft!EmptyPackage, TextAt, Versions
  <2> QED
    BY <2>2 DEF Baseline, Draft!IntentionBaseline, Draft!CurrentBaseline, Draft!KnownVersion,
       CurrentText, PackageOf
<1>4. Draft!UsedKeys("intention") = 1 .. Version
  BY DEF Draft!UsedKeys
<1>5. Draft!FreshKey("intention") = n
  <2>1. Cardinality(1 .. Version) = Version
    BY <1>1, FS_Interval
  <2> QED
    BY <1>4, <2>1 DEF Draft!FreshKey, Draft!Cardinality, Cardinality
<1>6. n \in Draft!KeysToTry("intention") /\ Draft!KeyClaimable("intention", n)
  BY <1>1, <1>4, <1>5 DEF Draft!KeysToTry, Draft!KeyClaimable
<1>7. PackageOf(Version)' = Draft!WithIntention(PackageOf(Version), c.text)
  <2>1. PackageOf(Version)' = [intention |-> c.text, actions |-> [a \in {} |-> 0]]
    BY <1>1 DEF PackageOf, TextAt
  <2> QED
    BY <2>1 DEF PackageOf, Draft!WithIntention
<1>8. Rows' = Draft!Extend(Rows, n, [package |-> PackageOf(Version)', op |-> "intention",
                                     base |-> c.base])
  <2>1. \A v \in 1 .. Version : PackageOf(v)' = PackageOf(v)
    BY <1>1 DEF PackageOf, Versions
  <2> QED
    BY <1>1, <2>1 DEF Draft!Extend
<1>9. Results' = Draft!Extend(Results, n, [kind |-> "package_revision", id |-> n,
                                           completion |-> Unconfirmed])
  BY <1>1 DEF Draft!Extend
<1>10. Draft!EditIntention(n, c.base, c.text)
  BY <1>1, <1>2, <1>3, <1>6, <1>7, <1>8, <1>9
  DEF Draft!EditIntention, Draft!SaveEdit, Draft!SaveDraft, Draft!ClaimRequestKey,
      Draft!lifecycleVars, Draft!NoCompletion, Unconfirmed
<1> QED
  BY <1>1, <1>6, <1>10 DEF Draft!Next, Draft!Edit, Versions

\* A step that saves nothing leaves the draft as it is.
LEMMA NoSaveIsStutter ==
  ASSUME UNCHANGED history
  PROVE  UNCHANGED Draft!vars
BY DEF Draft!vars, Version, PackageOf, TextAt, Unconfirmed

LEMMA StepIsDraftStep ==
  ASSUME IInv, WithinBounds', [Next]_vars
  PROVE  [Draft!Next]_(Draft!vars)
<1>1. CASE UNCHANGED history
  BY <1>1, NoSaveIsStutter
<1>2. ASSUME NEW c \in Commands, Save(c), Baseline(c) PROVE Draft!Next
  BY <1>2, SaveIsEdit
<1>3. CASE ServerExecutes /\ ~UNCHANGED history
  <2>1. Outcome(fetch.cmd) = "saved" /\ Save(fetch.cmd)
    BY <1>3 DEF ServerExecutes
  <2>2. Baseline(fetch.cmd) /\ fetch.cmd \in Commands
    BY <2>1, Found DEF Outcome, GoodCommand
  <2> QED
    BY <1>2, <2>1, <2>2
<1>4. ASSUME NEW c \in copies, CopyArrives(c), ~UNCHANGED history PROVE Draft!Next
  <2>1. Outcome(c) = "saved" /\ Save(c)
    BY <1>4 DEF CopyArrives
  <2>2. Baseline(c) /\ c \in Commands
    BY <2>1, Found DEF Outcome, GoodCommand
  <2> QED
    BY <1>2, <2>1, <2>2
<1>5. ASSUME NEW t \in Texts, SavedElsewhere(t) PROVE Draft!Next
  <2> DEFINE c == [text |-> t, base |-> Version, key |-> 0, shown |-> CurrentText,
                   resolved |-> FALSE]
  <2>1. CurrentText \in Texts /\ Version \in Versions /\ 0 \in Keys
    BY Found, CurrentPageIsGood, EditorAssumption DEF GoodPage, CurrentPage, Pages, Keys
  <2>2. c \in Commands
    BY <2>1 DEF Commands
  <2>3. Save(c) /\ Baseline(c)
    BY <1>5 DEF SavedElsewhere, Baseline
  <2> QED
    BY <1>2, <2>2, <2>3
<1>6. \/ UNCHANGED history \/ ServerExecutes \/ (\E c \in copies : CopyArrives(c))
      \/ \E t \in Texts : SavedElsewhere(t)
  <2>1. Author => UNCHANGED history
    BY DEF Author, Type, Discard, UseCurrent, SaveMine, Combine
  <2>2. Submit \/ Retry \/ RetryRefresh => UNCHANGED history
    BY DEF Submit, Retry, RetryRefresh
  <2>3. Server => ServerExecutes \/ UNCHANGED history
    BY DEF Server, ServerReads, RefreshRead, Reread
  <2>4. Script => UNCHANGED history
    BY DEF Script, Acknowledged, ConflictShown, KeyRefused, Rejected, Refreshed, Rereaded
  <2>5. Faulty => UNCHANGED history \/ \E c \in copies : CopyArrives(c)
    BY DEF Faulty, ServerRejects, FetchFails, RefreshFails, Reload
  <2> QED
    BY <2>1, <2>2, <2>3, <2>4, <2>5 DEF Next, vars
<1> QED
  BY <1>1, <1>3, <1>4, <1>5, <1>6

-----------------------------------------------------------------------------
(***************************************************************************)
(* The theorems.                                                           *)
(***************************************************************************)
\* What every handler, request and answer carries keeps the connection of its
\* text with its version: the invariant the other theorems follow from.
THEOREM EditorInductive == Spec => [](IInv /\ CopyFits)
<1>1. Init => IInv /\ CopyFits
  BY InitIInv, InitCopyFits
<1>2. IInv /\ CopyFits /\ [Next]_vars => IInv' /\ CopyFits'
  BY NextKeeps, NextKeepsCopy
<1> QED
  BY <1>1, <1>2, PTL DEF Spec

\* The page, the network and the server stay in their types; a version named
\* anywhere is one the draft has had.
THEOREM EditorTypeCorrect == Spec => []TypeOK
<1>1. IInv => TypeOK
  BY DEF IInv
<1> QED
  BY <1>1, EditorInductive, PTL

\* acknowledgeEditor, restore and replaceCleanRegions never take a text for
\* saved that the server does not store at the editor's version or later,
\* outside a conflict comparison.
THEOREM CleanTextAlwaysStored == Spec => []CleanTextIsStored
<1>1. IInv => CleanTextIsStored
  BY DEF IInv, GoodForm, CleanTextIsStored
<1> QED
  BY <1>1, EditorInductive, PTL

\* _check_command_baseline together with the script: a save replaces the text
\* the page presented with the version it names, unless it comes out of a
\* conflict comparison.
THEOREM SavesReplaceWhatWasShown == Spec => []ReplacesWhatWasShown
<1>1. IInv => ReplacesWhatWasShown
  BY DEF IInv
<1> QED
  BY <1>1, EditorInductive, PTL

\* The claim of a request key: retries, reloads and delayed copies of one
\* command make one revision.
THEOREM KeysNameOneRevision == Spec => []OneRevisionPerKey
<1>1. IInv => OneRevisionPerKey
  BY DEF IInv
<1> QED
  BY <1>1, EditorInductive, PTL

\* The identity in an answer, first or replayed, is that of the revision its
\* command made.
THEOREM AnswersNameTheirRevision == Spec => []AnswerNamesItsRevision
<1>1. IInv => AnswerNamesItsRevision
  BY DEF IInv, GoodFetch, AnswerNamesItsRevision
<1> QED
  BY <1>1, EditorInductive, PTL

\* A handler of app.js that is not the author's own choice leaves a dirty text
\* alone: sending, answers, refreshed views, and a reload unless the recovery copy
\* was last written for a form that had been taken away under its save.
THEOREM UnsavedTextAlwaysKept == Spec => UnsavedTextIsKept
<1> DEFINE Kept == Dirty /\ form'.text # form.text => Author \/ (Reload /\ ~copy.own)
<1>1. ASSUME IInv, CopyFits, [Next]_vars PROVE [Kept]_vars
  <2> SUFFICES ASSUME Dirty, Next, ~Author, ~(Reload /\ ~copy.own) PROVE form'.text = form.text
    BY <1>1
  <2>1. form \in Forms
    BY <1>1, Found DEF GoodForm
  <2>2. CASE Submit
    <3>1. form' = form \/ form' = [form EXCEPT !.key = keys + 1]
      BY <2>2 DEF Submit, SendForm
    <3> QED
      BY <2>1, <3>1 DEF Forms
  <2>3. CASE Retry \/ RetryRefresh \/ Server
    BY <2>3 DEF Retry, RetryRefresh, Server, ServerExecutes, ServerReads, RefreshRead, Reread
  <2>4. CASE Script
    <3>1. ASSUME NEW p, AdoptPage(p) PROVE form'.text = form.text
      BY <2>1, <3>1 DEF AdoptPage, Forms
    <3>2. CASE Acknowledged
      BY <2>1, <3>2 DEF Acknowledged, AcknowledgeSender, AcknowledgeEditor, Forms
    <3>3. CASE ConflictShown \/ KeyRefused \/ Rejected
      BY <2>1, <3>3 DEF ConflictShown, KeyRefused, Rejected, Offering, Forms
    <3>4. CASE Refreshed \/ Rereaded
      BY <3>1, <3>4 DEF Refreshed, Rereaded
    <3> QED
      BY <2>4, <3>2, <3>3, <3>4 DEF Script
  <2>5. CASE Faulty
    <3>1. CASE Reload
      <4>1. copy.kept /\ copy.text = form.text
        BY <1>1, <3>1 DEF CopyFits, CopyOf, Dirty
      <4>2. form' = Restored(FormOf(CurrentPage))
        BY <3>1 DEF Reload, Replaced
      <4> QED
        BY <4>1, <4>2 DEF Restored, FormOf
    <3>2. CASE FetchFails
      BY <2>1, <3>2 DEF FetchFails, Offering, Forms
    <3>3. CASE ~Reload /\ ~FetchFails
      BY <2>5, <3>3 DEF Faulty, ServerRejects, RefreshFails, CopyArrives
    <3> QED
      BY <3>1, <3>2, <3>3
  <2>6. CASE \E t \in Texts : SavedElsewhere(t)
    BY <2>6 DEF SavedElsewhere
  <2> QED
    BY <2>2, <2>3, <2>4, <2>5, <2>6 DEF Next
<1> QED
  BY <1>1, EditorInductive, PTL DEF Spec, UnsavedTextIsKept

\* Refinement: whatever the page, the network and the other sessions do, the
\* saved text changes only as EditIntention of module Workspace allows: a
\* current baseline or an equal intention, a fresh key and the next version.
THEOREM EditorImplementsDraft == Spec => SavesAreDraftEdits
<1>1. Init => IInv /\ CopyFits /\ Keyed /\ Draft!Init
  BY InitIInv, InitCopyFits, InitKeyed, InitIsNewDraft
<1>2. IInv /\ CopyFits /\ Keyed /\ [Next]_vars => IInv' /\ CopyFits' /\ Keyed'
  BY NextKeeps, NextKeepsCopy, NextKeepsKeyed
<1>3. IInv /\ Keyed => WithinBounds
  BY VersionsBounded
<1>4. IInv /\ WithinBounds' /\ [Next]_vars => [Draft!Next]_(Draft!vars)
  BY StepIsDraftStep
<1> QED
  BY <1>1, <1>2, <1>3, <1>4, PTL DEF Spec, SavesAreDraftEdits, Draft!Spec

=============================================================================
