CONSTANTS
  MinMembers = 1
  MaxMembers = 3
  Versions = {v1, v2}
  NoVersion = NoVersion
  InitVersions = {v1}
  InitTLS = {FALSE, TRUE}
  EditKinds = {"up", "down", "version", "tls"}
  InFlightEdits = FALSE
  StaleReads = FALSE
  FaultKinds = {"api", "tls", "status", "crash"}
  MaxEdits = 1
  MaxFaults = 1
SPECIFICATION FairSpec
PROPERTIES Converges TemplateBeforeConfig NoNativeUpgrade GoalBeforeRunning
CHECK_DEADLOCK FALSE
