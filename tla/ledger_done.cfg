SPECIFICATION SpecUninterrupted
CONSTANTS
  Years = 1
  System = 5
  NaN = NaN
  Results = {351}
  Corrections = {}
  Typed = {}
  MaxUpdates = 3
  MaxUnsaved = 1
PROPERTIES DoneIsDone
