--------------------------- MODULE MCConfiguration ---------------------------
(***************************************************************************)
(* Configuration for TLC: a scenario, the same with later deadlines, one    *)
(* with another roster and a reserved name, and an invalid one.            *)
(***************************************************************************)
EXTENDS Configuration, TLC

CONSTANTS c1, c2

Symmetry == Permutations({c1, c2})

Plan(teams, deadlines) ==
  [teams |-> [t \in teams |-> {"actor"}], actors |-> {"actor"}, objectives |-> teams,
   deadlines |-> deadlines]

SomeProposals ==
  {Plan({"red", "blue"}, <<1, 2>>), Plan({"red", "blue"}, <<2, 3>>),
   Plan({"red", Reserved}, <<1, 2>>), Plan({"red", "blue"}, <<2, 1>>)}
==============================================================================
