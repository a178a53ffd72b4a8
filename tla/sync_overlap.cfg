SPECIFICATION Spec
CONSTANTS
  Device = {d1}
  Account = {a}
  Slot = {s1,s2}
  Enabled = {"update"}
  MaxStamp = 2
  MaxDoc = 2
  MaxOrphan = 1
  None = None
INVARIANTS UploadedIsStored SnapshotStored OnceEach SuccessKeepsRecords
PROPERTIES LossCauses LifeOfRecords
CHECK_DEADLOCK FALSE
