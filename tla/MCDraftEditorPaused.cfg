\* A second "Save mine" while the outcome of the first is unknown.
CONSTANTS
  blank = blank
  x = x
  y = y
  Blank = blank
  Texts = {blank, x}
  MaxSaves = 3
  MaxOthers = 1
  MaxFaults = 1
SPECIFICATION Spec
PROPERTY
  OtherSavesArePaused
