SPECIFICATION Spec
CONSTANTS
  Device = {d1, d2}
  Account = {a, b}
  Slot = {s1}
  MaxGoal = 2
  MaxDoc = 3
  MaxQueue = 2
  None = None
SYMMETRY Symmetric
CONSTRAINT OneMishap
INVARIANTS TypeOK OneGoal OwnGoals
PROPERTIES GoalStays
CHECK_DEADLOCK FALSE
