CONSTANTS
  c1 = c1
  c2 = c2
  c3 = c3
  o1 = o1
  o2 = o2
  a1 = a1
  a2 = a2
  Users = {"ann", "bob"}
  Sources = {"lan"}
  Clients = {c1, c2, c3}
  Operators = {o1, o2}
  Archives = {a1, a2}
  Scenarios <- AllScenarios
  UsernameLimit = 1
  SourceLimit = 2
  Window = 1
  Idle = 1
  Absolute = 2
  MaxTokens = 4
  MaxTime = 2
  MaxResets = 1
  MaxLosses = 1
SPECIFICATION Spec
SYMMETRY Symmetry
INVARIANTS
  GuessesAreBounded
  ResetEndsEarlierSessions
  AnAdministratorRemains
  ManifestDescribesArchive
  ServedIsRestored
PROPERTIES
  AdmissionsAreCurrent
  ServedStaysServed
CHECK_DEADLOCK FALSE
