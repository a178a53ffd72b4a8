SPECIFICATION SpecUninterrupted
CONSTANTS
  Years = 2
  System = 5
  NaN = NaN
  Results = {351}
  Corrections = {200}
  Typed = {}
  MaxUpdates = 3
  MaxUnsaved = 1
INVARIANTS MeanOfResults RecordsExact GoalHonest
PROPERTIES ChainBreaks EditIsLocal
