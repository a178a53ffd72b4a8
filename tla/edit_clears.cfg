SPECIFICATION Spec
CONSTANTS
  Device = {d1}
  Account = {a}
  Slot = {s1}
  Enabled = {"update"}
  MaxStamp = 2
  MaxDoc = 2
  MaxOrphan = 0
  None = None
INVARIANTS EditClears
CHECK_DEADLOCK FALSE
