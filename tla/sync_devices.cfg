SPECIFICATION FairSpec
CONSTANTS
  Device = {d1, d2}
  Account = {a}
  Slot = {s1}
  Enabled = {"quick"}
  MaxStamp = 2
  MaxDoc = 2
  MaxOrphan = 1
  None = None
INVARIANTS OnceEach
PROPERTIES SyncEnds
CHECK_DEADLOCK FALSE
