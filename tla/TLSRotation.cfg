CONSTANTS
  Resources = {r1, r2}
  Certs = {c1, c2}
  None = None
  MaxEdits = 1
  FaultKinds = {"api", "pod", "restart"}
  MaxFaults = 1
SPECIFICATION FairSpec
INVARIANTS TypeOK RegisteredAreRotated
PROPERTIES RegisteredServe
CHECK_DEADLOCK FALSE
