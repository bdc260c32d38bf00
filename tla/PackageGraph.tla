---------------------------- MODULE PackageGraph -----------------------------
(***************************************************************************)
(* What load_timeline (memory.py) accepts of a staged package.  A package   *)
(* has records and relationships, each a function from ids; a record has   *)
(* an identity of its own (stable) or the root of its chain's, the record  *)
(* it supersedes, the targets of its references, the actions of its body,  *)
(* and per scope the time of its disclosure (available and recorded).      *)
(* references holds source_refs, references and the manifest's references  *)
(* of a record without the external ones, which nothing checks.            *)
(* declared is FALSE when a type, a scope, a role, a boundary or an        *)
(* interval is refused, or the text of an import differs.                  *)
(* "Fault" marks a plausible bug.                                          *)
(***************************************************************************)
EXTENDS Naturals, FiniteSetsExt

None == "none"

Broken == "broken"

\* The walk along supersedes, with the records passed.
Places(records) == [at : DOMAIN records, seen : SUBSET DOMAIN records]

Walk(records) ==
  LET walk[p \in Places(records)] ==
        LET prior == records[p.at].supersedes IN
          IF prior = None THEN p.at
          ELSE IF p.at \in p.seen \/ prior \notin DOMAIN records THEN Broken
          ELSE walk[[at |-> prior, seen |-> p.seen \cup {p.at}]]
  IN walk

Root(records, id) == Walk(records)[[at |-> id, seen |-> {}]]

ChainHolds(records, id) == Root(records, id) # Broken

Stable(records, id) ==
  IF records[id].stable # None THEN records[id].stable ELSE Root(records, id)

RecordTargets(p) ==
  DOMAIN p.records \cup {Stable(p.records, id) : id \in DOMAIN p.records}

Actions(p) == UNION {p.records[id].actions : id \in DOMAIN p.records}

Known(p, targets) == targets \subseteq RecordTargets(p) \cup Actions(p)

\* The records a record refers to; a target that is only a stable identity is no node.
Edges(p) ==
  [id \in DOMAIN p.records |-> p.records[id].references \cap DOMAIN p.records]

Searched(edges) == [cyclic : BOOLEAN, done : SUBSET DOMAIN edges]

Calls(edges) ==
  [node : DOMAIN edges, path : SUBSET DOMAIN edges, result : Searched(edges)]

\* The visits of the targets one after another, each from the result of the one before.
VisitAll(visit, targets, path, result) ==
  FoldSet(LAMBDA target, r : visit[[node |-> target, path |-> path, result |-> r]],
          result, targets)

\* Depth first from a node; result is what is done so far, or a cycle.
Visit(edges) ==
  LET visit[c \in Calls(edges)] ==
        IF c.result.cyclic \/ c.node \in c.path THEN [c.result EXCEPT !.cyclic = TRUE]
        ELSE IF c.node \in c.result.done THEN c.result
        ELSE [VisitAll(visit, edges[c.node], c.path \cup {c.node}, c.result)
                EXCEPT !.done = @ \cup {c.node}]
  IN visit

\* Fault: only a record that refers to itself is a cycle.
RefersToItself(edges) == \E node \in DOMAIN edges : node \in edges[node]

HasCycle(edges) ==
  VisitAll(Visit(edges), DOMAIN edges, {}, [cyclic |-> FALSE, done |-> {}]).cyclic

\* _validate_graph, before anything is written.
GraphHolds(p) ==
  /\ \A id \in DOMAIN p.records : ChainHolds(p.records, id)
  /\ \A id \in DOMAIN p.records : Known(p, p.records[id].references)
  /\ ~HasCycle(Edges(p))

\* The foreign key from supersedes_revision_id and record_id.
SameRecord(records) ==
  \A id \in DOMAIN records :
    records[id].supersedes # None =>
      Stable(records, id) = Stable(records, records[id].supersedes)

\* The checks made, and the constraints met, between the writes.
RowsHold(p) ==
  /\ p.declared
  /\ SameRecord(p.records)
  /\ \A id \in DOMAIN p.relationships :
       /\ ChainHolds(p.relationships, id)
       /\ Known(p, p.relationships[id].ends)
  /\ SameRecord(p.relationships)
==============================================================================
