CONSTANTS
  c1 = c1
  c2 = c2
  Users = {1, 2}
  Games = {1}
  SystemAdmins = {1}
  Clients = {c1, c2}
  Offered <- Crossing
  Worlds <- Player
  Attempts = 3
  MaxRequests = 2
SPECIFICATION Spec
INVARIANT NoWaitCycle
CHECK_DEADLOCK FALSE
