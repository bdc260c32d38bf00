CONSTANTS
  a1 = a1
  a2 = a2
  a3 = a3
  u1 = u1
  u2 = u2
  blank = blank
  x = x
  ActionIds = {}
  Texts = {blank, x}
  Blank = blank
  Users = {u1, u2}
  Deadline = 1
  MaxVersion = 5
  MaxTime = 2
SPECIFICATION Spec
SYMMETRY Symmetry
INVARIANTS
  RestoreAccepts
  PendingIsDecidable
  AcceptedOverReviewedBase
  ConfirmedIsApplied
PROPERTIES
  HistoryIsKept
  KeepsLedger
