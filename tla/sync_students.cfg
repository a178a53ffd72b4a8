SPECIFICATION Spec
CONSTANTS
  Device = {d1}
  Account = {a,b}
  Slot = {s1}
  Enabled = {"quick", "update"}
  MaxStamp = 2
  MaxDoc = 2
  MaxOrphan = 1
  None = None
SYMMETRY Symmetric
INVARIANTS TypeOK OnlyOwnRecords
CHECK_DEADLOCK FALSE
