SPECIFICATION Spec
CONSTANTS
  Address = {e1}
  Word = {w1}
  Course = {c1}
  MaxId = 2
  MaxHash = 2
  MaxSent = 2
  MaxSync = 1
  MaxCall = 2
  MaxTurn = 1
  None = None
CONSTRAINTS OneMishap TwoAtOnce
INVARIANTS CanSignIn OwnLists
CHECK_DEADLOCK FALSE
