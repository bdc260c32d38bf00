CONSTANTS
  w1 = w1
  w2 = w2
  l1 = l1
  l2 = l2
  Objects = {"a", "b"}
  Versions = {1, 2}
  ExternalId <- SomeIds
  Rank <- SomeRank
  Scopes = {"adjudicator", "red"}
  Times = {1, 2}
  Writers = {w1, w2}
  Loaders = {l1, l2}
  Readers = {"reader"}
  Limit = 1
  MaxOrder = 3
  Scenarios <- AllScenarios
SPECIFICATION Spec
SYMMETRY Symmetry
INVARIANTS
  PagesAreOneView
  NothingHiddenIsNamed
  LoadedDatasetIsSound
CHECK_DEADLOCK FALSE
