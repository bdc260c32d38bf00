\* A save out of a conflict comparison, over a text that was never shown.
CONSTANTS
  blank = blank
  x = x
  y = y
  Blank = blank
  Texts = {blank, x, y}
  MaxSaves = 2
  MaxOthers = 2
  MaxFaults = 0
SPECIFICATION Spec
INVARIANT
  NeverSilentlyOverwrites
