CONSTANTS
  c1 = c1
  c2 = c2
  Teams = {"red", "blue", "adjudicator"}
  Actors = {"actor"}
  Deadlines = {1, 2, 3}
  Proposals <- SomeProposals
  Turns = {1, 2}
  Clients = {c1, c2}
  MaxTime = 2
  MaxRevisions = 3
SPECIFICATION Spec
SYMMETRY Symmetry
INVARIANTS
  StartedTurnKeepsItsTerms
PROPERTIES
  AnswersStand
  ActivationIsStaffed
CHECK_DEADLOCK FALSE
