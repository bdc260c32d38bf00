\* Two texts; two keys of the page, one save of others, two faults; under fairness.
CONSTANTS
  blank = blank
  x = x
  y = y
  Blank = blank
  Texts = {blank, x}
  MaxSaves = 2
  MaxOthers = 1
  MaxFaults = 2
SPECIFICATION FairSpec
INVARIANTS
  CleanTextIsStored
  ReplacesWhatWasShown
  OneRevisionPerKey
PROPERTIES
  UnsavedTextIsKept
  SaveEnds
  OutcomeBecomesKnown
  SavesAreDraftEdits
