SPECIFICATION Spec
CONSTANTS
  Years = 1
  System = 5
  NaN = NaN
  Results = {351}
  Corrections = {}
  Typed <- TypedSentinel
  MaxUpdates = 3
  MaxUnsaved = 1
PROPERTIES SentinelRefused
