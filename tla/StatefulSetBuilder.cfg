\* Histories of edits over six overrides that touch every part of the set.
CONSTANTS
  Versions = {"4.4", "5.0"}
  Releases = {"r1", "r2"}
  ConfigMaps = {"ca1", "ca2"}
  Replicas = {2, 3}
  Overrides <- MCOverrides
  Managed = FALSE
  None = None
  MaxEdits = 4
SPECIFICATION Spec
INVARIANTS TypeOK RequiredParts HistoryIndependent UpdatesAccepted
 
