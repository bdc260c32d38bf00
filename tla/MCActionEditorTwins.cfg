\* A creation whose answer is lost, and a reload.
CONSTANTS
  blank = blank
  x = x
  y = y
  Blank = blank
  Texts = {blank, x, y}
  Opened <- Empty
  MaxKeys = 1
  MaxOthers = 0
  MaxFaults = 2
SPECIFICATION Spec
PROPERTIES
  DirtyEditorsStay
