CONSTANTS
  MaxMembers = 8
  Releases = {1, 2, 3}
  Unparsable = 0
  InitVersions = {2}
  EditKinds = {"members", "version", "fcv"}
  MaxEdits = 2
SPECIFICATION Spec
INVARIANTS TypeOK FCVSupported
PROPERTY DataBearingKept
CHECK_DEADLOCK FALSE
