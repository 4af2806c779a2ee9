CONSTANTS
  MinMembers = 1
  MaxMembers = 3
  Versions = {v1, v2}
  NoVersion = NoVersion
  InitVersions = {v1, v2}
  InitTLS = {FALSE}
  EditKinds = {"up", "down", "version"}
  InFlightEdits = FALSE
  StaleReads = FALSE
  FaultKinds = {"api", "lookup", "status", "annotate", "crash"}
  MaxEdits = 2
  MaxFaults = 1
SPECIFICATION Spec
INVARIANTS TypeOK MembersInStep QuietMeansDeployed SizesInv DeployedInv
PROPERTIES RefinesMembershipChange RemovedFromConfigFirst ConfigVersionBumped
SYMMETRY VersionSymmetry
CHECK_DEADLOCK FALSE
