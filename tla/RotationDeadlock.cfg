CONSTANTS
  Resources = {r1}
  Certs = {c1, c2}
  None = None
  MaxEdits = 1
  FaultKinds = {"pod"}
  MaxFaults = 1
SPECIFICATION FairSpec
PROPERTIES AllServe
CHECK_DEADLOCK FALSE
