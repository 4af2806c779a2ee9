CONSTANTS
  MinMembers = 1
  MaxMembers = 2
  Versions = {v1, v2}
  NoVersion = NoVersion
  InitVersions = {v1, v2}
  InitTLS = {FALSE}
  EditKinds = {"up", "down", "version"}
  InFlightEdits = FALSE
  StaleReads = TRUE
  FaultKinds = {}
  MaxEdits = 2
  MaxFaults = 0
SPECIFICATION Spec
INVARIANTS QuietMeansDeployed
PROPERTIES RefinesMembershipChange RemovedFromConfigFirst TemplateBeforeConfig NoNativeUpgrade
SYMMETRY VersionSymmetry
CHECK_DEADLOCK FALSE
