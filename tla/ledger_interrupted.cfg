SPECIFICATION SpecFromHome
CONSTANTS
  Years = 1
  System = 5
  NaN = NaN
  Results = {NaN}
  Corrections = {351}
  Typed <- TypedSentinel
  MaxUpdates = 2
  MaxUnsaved = 1
INVARIANTS TypeOK
PROPERTIES ChainBreaks  EditIsLocal
