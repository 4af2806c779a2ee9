CONSTANTS
  NumUsers = 1
  Passwords = {p1, p2}
  Random = {r1}
  None = None
  NoKey = NoKey
  EditKinds = {"password", "delete"}
  MaxEdits = 2
  FaultKinds = {"restart"}
  MaxFaults = 1
SPECIFICATION Spec
INVARIANTS PasswordsFollow
CHECK_DEADLOCK FALSE
