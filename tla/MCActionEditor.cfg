\* An empty draft; two keys of the page, one save of others, two faults.
CONSTANTS
  blank = blank
  x = x
  y = y
  Blank = blank
  Texts = {blank, x, y}
  Opened <- Empty
  MaxKeys = 2
  MaxOthers = 1
  MaxFaults = 2
SYMMETRY Symmetry
SPECIFICATION Spec
INVARIANTS
  CreatedOnce
  AnswerNamesItsAction
  RecoveryKept
  ConflictsAreOfTheAction
PROPERTIES
  UnsavedTextIsKept
