CONSTANTS
  MaxMembers = 3
  Releases = {1}
  Unparsable = 0
  InitVersions = {1}
  EditKinds = {"members"}
  MaxEdits = 1
SPECIFICATION Spec
INVARIANT NoPanic
CHECK_DEADLOCK FALSE
