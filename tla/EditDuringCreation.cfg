CONSTANTS
  MinMembers = 2
  MaxMembers = 3
  Versions = {v1}
  NoVersion = NoVersion
  InitVersions = {v1}
  InitTLS = {FALSE}
  EditKinds = {"up"}
  InFlightEdits = TRUE
  StaleReads = FALSE
  FaultKinds = {}
  MaxEdits = 1
  MaxFaults = 0
SPECIFICATION FairSpec
PROPERTIES Converges
CHECK_DEADLOCK FALSE
