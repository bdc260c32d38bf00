------------------------------ MODULE MCMemory -------------------------------
(***************************************************************************)
(* Memory for TLC: pages of an operational dataset while two transactions   *)
(* project into it, packages of every small shape loaded by two commands,  *)
(* and pages of a loaded package with hidden targets.                      *)
(***************************************************************************)
EXTENDS Memory

CONSTANTS w1, w2, l1, l2

Symmetry == Permutations({w1, w2}) \cup Permutations({l1, l2})

\* b's revisions precede a's among those of one time.
SomeIds == [o \in Objects |-> IF o = "a" THEN <<"a1", "a2">> ELSE <<"b1", "b2">>]

SomeRank ==
  [id \in {"a1", "a2", "b1", "b2", "x", "y", "z", "link", "tie"} |->
     CASE id = "b2" -> 1 [] id = "a1" -> 2 [] id = "b1" -> 3 [] id = "a2" -> 4
       [] id = "z" -> 5 [] id = "x" -> 6 [] id = "y" -> 7 [] id = "tie" -> 8
       [] id = "link" -> 9]

Query(scope, known, record, related) ==
  [scope |-> scope, known |-> known, record |-> record, related |-> related]

Empty == [declared |-> TRUE, records |-> <<>>, relationships |-> <<>>]

Projecting(queries) ==
  [dataset |-> "operational", package |-> Empty, loads |-> FALSE, writers |-> Writers,
   disclosures |-> {{}, {"red"}}, withdrawn |-> {}, queries |-> queries]

ToAll(t) == [s \in Scopes |-> t]

Plain == [stable |-> None, supersedes |-> None, references |-> {}, actions |-> {},
          recorded |-> 1, disclosed |-> ToAll(1)]

Three == {"x", "y", "z"}

\* Every supersession over three records, one of which may name its record; every graph
\* of references in which z refers to one target at most, one of them superseding z.
Chains ==
  {[Empty EXCEPT !.records = [id \in Three |->
      [Plain EXCEPT !.supersedes = prior[id], !.stable = IF id = "x" THEN stable ELSE None]]] :
     prior \in [Three -> Three \cup {None, "ghost"}], stable \in {None, "s", "z"}}

Graphs ==
  {[Empty EXCEPT !.records = [id \in Three |->
      [Plain EXCEPT !.references = CASE id = "x" -> x [] id = "y" -> y [] id = "z" -> z,
                    !.actions = IF id = "y" THEN {"act"} ELSE {},
                    !.supersedes = IF id = "x" THEN "z" ELSE None]]] :
     x \in SUBSET Three, y \in SUBSET Three,
     z \in {{}, {"x"}, {"y"}, {"z"}, {"act"}, {"ghost"}}}

Loading(p) ==
  [dataset |-> "package", package |-> p, loads |-> TRUE, writers |-> {}, disclosures |-> {},
   withdrawn |-> {}, queries |-> {}]

\* y is not red's; x and z refer to it and to each other's record.
Hidden(late) ==
  [declared |-> TRUE,
   records |-> [id \in Three |->
     CASE id = "x" -> [Plain EXCEPT !.references = {"act", "z"}, !.stable = "s"]
       [] id = "y" -> [Plain EXCEPT !.actions = {"act"},
                                    !.disclosed = [s \in {"adjudicator"} |-> 1]]
       [] id = "z" -> [Plain EXCEPT !.actions = {"deed"}, !.disclosed = ToAll(late)]],
   relationships |-> [id \in {"link", "tie"} |->
     [stable |-> "l", supersedes |-> IF id = "tie" THEN "link" ELSE None, recorded |-> 1,
      disclosed |-> ToAll(1),
      ends |-> IF id = "link" THEN {"x", "act"} ELSE {"x", "deed"}]]]

Reading(p, queries) == [Loading(p) EXCEPT !.queries = queries, !.withdrawn = {"red"}]

AllScenarios ==
  {Projecting({Query("red", 1, None, None), Query("red", 2, None, None)}),
   Projecting({Query("adjudicator", 2, None, None)}),
   Projecting({Query("adjudicator", 2, "a", None)})}
  \cup {Loading(p) : p \in Chains \cup Graphs}
  \cup {Loading([Hidden(1) EXCEPT !.declared = FALSE])}
  \cup {Reading(Hidden(t), {Query(s, 1, None, None), Query(s, 1, None, "x"),
                            Query(s, 1, "y", None)}) : t \in Times, s \in Scopes}
==============================================================================
