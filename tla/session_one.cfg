SPECIFICATION Spec
CONSTANTS
  Address = {e1}
  Word = {w1, w2}
  Course = {c1, c2}
  MaxId = 1
  MaxHash = 2
  MaxSent = 2
  MaxSync = 0
  MaxCall = 1
  MaxTurn = 2
  None = None
SYMMETRY Symmetric
INVARIANTS TypeOK PlacesAgree CanSignIn NeverStuck LogoutLasts DeletedStaysDeleted
CHECK_DEADLOCK FALSE
