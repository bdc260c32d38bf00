\* Two concurrent requests of any kind in one game, or a deactivation across two games
\* among up to four grants and removals.
CONSTANTS
  c1 = c1
  c2 = c2
  Users = {1, 2, 3}
  Games = {1, 2}
  SystemAdmins = {1}
  Clients = {c1, c2}
  Offered <- Requests
  Worlds <- EveryWorld
  Attempts = 3
  MaxRequests = 5
SPECIFICATION Spec
SYMMETRY Symmetry
ACTION_CONSTRAINT AnyPairOrChurn
INVARIANTS
  TypeOK
  BlockedIsTrue
  OneSubmitter
PROPERTIES
  CommitsAuthorized
  RemovalLeavesAdmin
CHECK_DEADLOCK FALSE
