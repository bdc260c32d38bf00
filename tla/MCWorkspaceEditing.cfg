\* Three actions, one complete text, five saves: stale edits and reordering.
CONSTANTS
  a1 = a1
  a2 = a2
  a3 = a3
  u1 = u1
  u2 = u2
  blank = blank
  x = x
  ActionIds = {a1, a2, a3}
  Texts = {blank, x}
  Blank = blank
  Users = {u1}
  Deadline = 1
  MaxVersion = 5
  MaxTime = 0
SPECIFICATION Spec
SYMMETRY EditSymmetry
INVARIANTS
  ReviewedIsSubmitted
  NoUnseenOverwrite
  KeysMadeOneChange
  LiveOrderIsAuthored
