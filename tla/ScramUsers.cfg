CONSTANTS
  NumUsers = 2
  Passwords = {p1, p2}
  Random = {r1, r2}
  None = None
  NoKey = NoKey
  EditKinds = {"password", "delete", "dropKey", "sha1StoredKey", "other"}
  MaxEdits = 2
  FaultKinds = {"api", "connection", "notReady", "restart"}
  MaxFaults = 1
SPECIFICATION FairSpec
INVARIANTS TypeOK WatchedPasswordsFollow ConnectionStringsFollow PublishedAreStored CheckedKeysPublished
PROPERTIES AgentSecretsStable EventuallyFollow
CHECK_DEADLOCK FALSE
