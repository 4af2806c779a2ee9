----------------------------- MODULE ScramUsers -----------------------------
(***************************************************************************)
(* The SCRAM users of one resource: from the password secrets the user     *)
(* keeps, over the credentials the operator derives from them, to the      *)
(* automation config and the connection-string secrets                     *)
(* (controllers/mongodb_users.go, pkg/authentication/scram, and            *)
(* controllers/watch, which turns secret events into reconciliations).     *)
(*                                                                         *)
(* A reconciliation is split at its API calls, one user at a time; the     *)
(* user edits secrets, the informer delivers them, the API fails and the   *)
(* operator restarts in between.  Reads of one secret that follow each     *)
(* other, and a read and the write it decides on, are one step.  The rest  *)
(* of Reconcile is one step that either finds the deployment ready or not. *)
(*                                                                         *)
(* Abstractions: credentials are the password they were computed from (the *)
(* salts are drawn afresh with them and stored beside them); the agent's   *)
(* secrets are drawn from a small set.                                     *)
(* Reads of the secrets the operator writes itself are current; reads of   *)
(* the users' password secrets go through the informer's cache.            *)
(***************************************************************************)
EXTENDS Integers, FiniteSets

CONSTANTS
  NumUsers,              \* users of the resource, in the order of the spec
  Passwords,
  Random,                \* values the generators return
  None,                  \* a secret that does not exist, a config not published
  NoKey,                 \* a password secret without the key the spec names
  EditKinds, MaxEdits,   \* what the user does to the secrets
  FaultKinds, MaxFaults

ASSUME UsersAssumption == NumUsers \in Nat \ {0}

ASSUME ValuesAssumption ==
  /\ {None, NoKey} \cap (Passwords \cup Random) = {} /\ None # NoKey
  /\ Random # {}
  /\ EditKinds \subseteq {"password", "delete", "dropKey", "sha1StoredKey", "other"}
  /\ FaultKinds \subseteq {"api", "connection", "notReady", "restart"}
  /\ MaxEdits \in Nat /\ MaxFaults \in Nat

VARIABLES
  password,       \* the users' password secrets
  passwordCache,  \* the informer's view of them
  scram,          \* the credentials secrets
  agent,          \* the agent's password and keyfile secrets
  config,         \* users and agent secrets in the automation config
  connection,     \* the password in each connection-string secret
  watched,        \* users whose password secret the watcher maps to the resource
  queued, pc,
  user,           \* the user a loop is at
  read,           \* the password the conversion has read for that user
  desired,        \* the automation config under construction
  logged,         \* did the last update of the connection strings end in an error?
  edits, faults

secrets == <<password, passwordCache, scram, agent, config, connection>>
vars    == <<password, passwordCache, scram, agent, config, connection, watched,
             queued, pc, user, read, desired, logged, edits, faults>>

Users      == 1..NumUsers
AgentKinds == {"password", "keyfile"}
NoCreds    == [password |-> None, missing |-> "all"]

\* Credentials as they are stored: which key of the secret is missing, if any.
Credentials ==
  [password : Passwords, missing : {"none", "sha1StoredKey", "other"}]

Auth == [users : [Users -> Credentials \cup {NoCreds}],
         agent : [AgentKinds -> Random \cup {None}]]
NoAuth == [users |-> [u \in Users |-> NoCreds], agent |-> [k \in AgentKinds |-> None]]

\* The type invariant of the secrets and of the reconciliation's locals.
TypeOK ==
  /\ password \in [Users -> Passwords \cup {None, NoKey}]
  /\ passwordCache \in [Users -> Passwords \cup {None, NoKey}]
  /\ scram \in [Users -> Credentials \cup {NoCreds}]
  /\ agent \in [AgentKinds -> Random \cup {None}]
  /\ config \in Auth /\ desired \in Auth
  /\ connection \in [Users -> Passwords \cup {None}]
  /\ watched \subseteq Users
  /\ queued \in BOOLEAN
  /\ pc \in {"idle", "resources", "credentials", "compare", "reuse", "store",
             "password", "keyfile", "publish", "deployed", "connection"}
  /\ user \in Users /\ read \in Passwords \cup {None}
  /\ logged \in BOOLEAN
  /\ edits \in Nat /\ faults \in Nat

-----------------------------------------------------------------------------
(* What the code computes from a credentials secret. *)

\* Deliberately wrong: whatever the secret holds is taken.
Faulty_AnyKeys(c) == c # NoCreds

\* readExistingCredentials: the secret is there and has the keys the check
\* names; the list names the SHA-1 server key twice and the stored key never.
readExistingCredentials(c) == c # NoCreds /\ c.missing # "other"

\* needToGenerateNewCredentials: there are none yet, or recomputing them from
\* the password and the stored salts gives something else.
needToGenerateNewCredentials(c, p) ==
  c = NoCreds \/ c.password # p \/ c.missing = "sha1StoredKey"

-----------------------------------------------------------------------------
(* Reconcile *)

Return == pc' = "idle" /\ user' = 1 /\ read' = None /\ desired' = NoAuth

\* Deliberately wrong: an error is not followed by a requeue.
Faulty_FailForgets == Return /\ UNCHANGED queued

\* An error before the status is written: the phase is Failed or Pending and
\* the resource is requeued.
Fail == Return /\ queued' = TRUE

Dequeue ==
  /\ pc = "idle" /\ queued
  /\ queued' = FALSE /\ pc' = "resources"
  /\ UNCHANGED <<secrets, watched, user, read, desired, logged, edits, faults>>

\* Deliberately wrong: runs past the last user.
Faulty_AdvancePast(again, next) ==
  IF user <= NumUsers THEN user' = user + 1 /\ pc' = again
                      ELSE user' = 1 /\ pc' = next

\* The loop goes on to the next user, or ends and the code goes on to step next.
Advance(again, next) ==
  IF user < NumUsers THEN user' = user + 1 /\ pc' = again
                     ELSE user' = 1 /\ pc' = next

\* One iteration of ensureUserResources.  A secret that cannot be found is fine
\* if there are credentials, but then it is not watched.
ensureUserResources ==
  /\ pc = "resources"
  /\ \/ /\ passwordCache[user] \in Passwords
        /\ watched' = watched \cup {user}
        /\ Advance("resources", "credentials") /\ UNCHANGED <<queued, read, desired>>
     \/ /\ passwordCache[user] = None /\ scram[user] # NoCreds
        /\ Advance("resources", "credentials") /\ UNCHANGED <<watched, queued, read, desired>>
     \/ /\ passwordCache[user] = NoKey \/ (passwordCache[user] = None /\ scram[user] = NoCreds)
        /\ Fail /\ UNCHANGED watched
  /\ UNCHANGED <<secrets, logged, edits, faults>>

\* An iteration of convertMongoDBResourceUsersToAutomationConfigUsers, which is
\* ensureScramCredentials for one user, begins with reading the password.
ensureScramCredentials ==
  /\ pc = "credentials"
  /\ \/ /\ passwordCache[user] \in Passwords
        /\ read' = passwordCache[user] /\ pc' = "compare" /\ UNCHANGED <<queued, user, desired>>
     \/ /\ passwordCache[user] = None
        /\ pc' = "reuse" /\ UNCHANGED <<queued, user, read, desired>>
     \/ /\ passwordCache[user] = NoKey
        /\ Fail
  /\ UNCHANGED <<secrets, watched, logged, edits, faults>>

\* The stored credentials are compared with the password.
CompareCredentials ==
  LET c == scram[user] IN
  /\ pc = "compare"
  /\ \/ /\ c = NoCreds \/ readExistingCredentials(c)
        /\ pc' = IF needToGenerateNewCredentials(c, read) THEN "store" ELSE "reuse"
        /\ UNCHANGED <<queued, user, read, desired>>
     \/ /\ c # NoCreds /\ ~readExistingCredentials(c)
        /\ Fail
  /\ UNCHANGED <<secrets, watched, logged, edits, faults>>

\* They are read again and used as they are.
ReuseCredentials ==
  LET c == scram[user] IN
  /\ pc = "reuse"
  /\ \/ /\ readExistingCredentials(c)
        /\ desired' = [desired EXCEPT !.users[user] = c] /\ read' = None
        /\ Advance("credentials", "password") /\ UNCHANGED queued
     \/ /\ ~readExistingCredentials(c)
        /\ Fail
  /\ UNCHANGED <<secrets, watched, logged, edits, faults>>

\* Deliberately wrong: the new credentials are used but not stored.
Faulty_NotStored ==
  /\ pc = "store"
  /\ desired' = [desired EXCEPT !.users[user] = [password |-> read, missing |-> "none"]]
  /\ read' = None /\ Advance("credentials", "password")
  /\ UNCHANGED <<secrets, watched, queued, logged, edits, faults>>

\* New credentials, under fresh salts, are stored and used.
createScramCredentialsSecret ==
  LET new == [password |-> read, missing |-> "none"] IN
  /\ pc = "store"
  /\ scram' = [scram EXCEPT ![user] = new]
  /\ desired' = [desired EXCEPT !.users[user] = new] /\ read' = None
  /\ Advance("credentials", "password")
  /\ UNCHANGED <<password, passwordCache, agent, config, connection, watched, queued,
                 logged, edits, faults>>

\* Deliberately wrong: every reconciliation stores a newly generated value.
Faulty_EnsureOverwrites(kind, next) ==
  /\ pc = kind
  /\ \E r \in Random :
       /\ agent' = [agent EXCEPT ![kind] = r]
       /\ desired' = [desired EXCEPT !.agent[kind] = r]
  /\ pc' = next
  /\ UNCHANGED <<password, passwordCache, scram, config, connection, watched, queued,
                 user, read, logged, edits, faults>>

\* The agent's password and keyfile are generated once and read back afterwards.
EnsureSecretWithKey(kind, next) ==
  /\ pc = kind
  /\ \/ /\ agent[kind] = None
        /\ \E r \in Random : agent' = [agent EXCEPT ![kind] = r]
     \/ /\ agent[kind] # None
        /\ UNCHANGED agent
  /\ desired' = [desired EXCEPT !.agent[kind] = agent'[kind]]
  /\ pc' = next
  /\ UNCHANGED <<password, passwordCache, scram, config, connection, watched, queued,
                 user, read, logged, edits, faults>>

\* The automation config is written with what Enable configured.
Publish ==
  /\ pc = "publish"
  /\ config' = desired
  /\ pc' = "deployed" /\ desired' = NoAuth
  /\ UNCHANGED <<password, passwordCache, scram, agent, connection, watched, queued,
                 user, read, logged, edits, faults>>

\* The deployment is ready and the Running status is written.
Running ==
  /\ pc = "deployed"
  /\ pc' = "connection" /\ logged' = FALSE
  /\ UNCHANGED <<secrets, watched, queued, user, read, desired, edits, faults>>

\* Deliberately wrong: only the first user's secret is written.
Faulty_FirstConnectionOnly ==
  /\ pc = "connection"
  /\ IF passwordCache[user] \in Passwords
     THEN connection' = [connection EXCEPT ![user] = passwordCache[user]]
     ELSE UNCHANGED connection
  /\ Return
  /\ UNCHANGED <<password, passwordCache, scram, agent, config, watched, queued, logged, edits, faults>>

\* One iteration of updateConnectionStringSecrets.  A password that cannot be
\* read ends the loop; the error is only logged.
updateConnectionStringSecrets ==
  /\ pc = "connection"
  /\ \/ /\ passwordCache[user] \in Passwords
        /\ connection' = [connection EXCEPT ![user] = passwordCache[user]]
        /\ Advance("connection", "idle") /\ UNCHANGED <<read, desired, logged>>
     \/ /\ passwordCache[user] \notin Passwords
        /\ Return /\ logged' = TRUE /\ UNCHANGED connection
  /\ UNCHANGED <<password, passwordCache, scram, agent, config, watched, queued, edits, faults>>

Fault(kind) == kind \in FaultKinds /\ faults < MaxFaults /\ faults' = faults + 1

\* An API call fails before the status is written.
ApiError ==
  /\ Fault("api")
  /\ pc \notin {"idle", "connection"}
  /\ Fail
  /\ UNCHANGED <<secrets, watched, logged, edits>>

\* The credentials secret of a user without a password cannot be looked up: the
\* error is logged and the loop of ensureUserResources goes on.
LookupError ==
  /\ Fault("api")
  /\ pc = "resources" /\ passwordCache[user] = None
  /\ Advance("resources", "credentials")
  /\ UNCHANGED <<secrets, watched, queued, read, desired, logged, edits>>

\* A connection-string secret cannot be written: logged, nothing else.
ConnectionError ==
  /\ Fault("connection")
  /\ pc = "connection"
  /\ Return /\ logged' = TRUE
  /\ UNCHANGED <<secrets, watched, queued, edits>>

\* The StatefulSet is not ready before, or the agents after, the config is
\* published.
NotReady ==
  /\ Fault("notReady")
  /\ (pc = "credentials" /\ user = 1) \/ pc = "deployed"
  /\ Fail
  /\ UNCHANGED <<secrets, watched, logged, edits>>

\* The operator restarts: the watcher's map is empty, the informer lists the
\* secrets afresh and the resource is reconciled.
Restart ==
  /\ Fault("restart")
  /\ Fail /\ watched' = {} /\ passwordCache' = password
  /\ UNCHANGED <<password, scram, agent, config, connection, logged, edits>>

-----------------------------------------------------------------------------
(* The user's secrets and the watcher *)

\* Create or update the password secret, delete it, or lose its key.
EditPassword(u) ==
  /\ edits < MaxEdits /\ edits' = edits + 1
  /\ \E p \in (Passwords \cup {None, NoKey}) \ {password[u]} :
       /\ \/ "password" \in EditKinds /\ p \in Passwords
          \/ "delete" \in EditKinds /\ p = None
          \/ "dropKey" \in EditKinds /\ p = NoKey
       /\ password' = [password EXCEPT ![u] = p]
  /\ UNCHANGED <<passwordCache, scram, agent, config, connection, watched, queued, pc,
                 user, read, desired, logged, faults>>

\* Somebody removes the SHA-1 stored key, or another key, from a credentials secret.
EditCredentials(u) ==
  /\ edits < MaxEdits /\ edits' = edits + 1
  /\ scram[u] # NoCreds
  /\ \E key \in {"sha1StoredKey", "other"} \cap EditKinds :
       scram' = [scram EXCEPT ![u].missing = key]
  /\ UNCHANGED <<password, passwordCache, agent, config, connection, watched, queued, pc,
                 user, read, desired, logged, faults>>

\* Deliberately wrong: an event during a reconciliation is dropped.
Faulty_BusyDropsEvent(u) ==
  /\ passwordCache[u] # password[u]
  /\ passwordCache' = [passwordCache EXCEPT ![u] = password[u]]
  /\ queued' = (queued \/ (u \in watched /\ pc = "idle"))
  /\ UNCHANGED <<password, scram, agent, config, connection, watched, pc, user, read,
                 desired, logged, edits, faults>>

\* The informer delivers the change; handleEvent enqueues the resource if it is
\* registered for the secret.
SecretEvent(u) ==
  /\ passwordCache[u] # password[u]
  /\ passwordCache' = [passwordCache EXCEPT ![u] = password[u]]
  /\ queued' = (queued \/ u \in watched)
  /\ UNCHANGED <<password, scram, agent, config, connection, watched, pc, user, read,
                 desired, logged, edits, faults>>

-----------------------------------------------------------------------------
\* The resource is new; its password secrets exist or not.
Init ==
  /\ password \in [Users -> Passwords \cup {None}]
  /\ passwordCache = password
  /\ scram = [u \in Users |-> NoCreds] /\ agent = [k \in AgentKinds |-> None]
  /\ config = NoAuth /\ connection = [u \in Users |-> None]
  /\ watched = {} /\ queued = TRUE /\ pc = "idle" /\ user = 1
  /\ read = None /\ desired = NoAuth
  /\ logged = FALSE /\ edits = 0 /\ faults = 0

Reconcile ==
  \/ Dequeue \/ ensureUserResources \/ ensureScramCredentials
  \/ CompareCredentials \/ ReuseCredentials \/ createScramCredentialsSecret
  \/ EnsureSecretWithKey("password", "keyfile") \/ EnsureSecretWithKey("keyfile", "publish")
  \/ Publish \/ Running \/ updateConnectionStringSecrets

Faults == ApiError \/ LookupError \/ ConnectionError \/ NotReady \/ Restart

Next ==
  \/ Reconcile \/ Faults
  \/ \E u \in Users : EditPassword(u) \/ EditCredentials(u) \/ SecretEvent(u)

Spec == Init /\ [][Next]_vars

\* The work queue and the informer keep running.
FairSpec == Spec /\ WF_vars(Reconcile) /\ \A u \in Users : WF_vars(SecretEvent(u))

-----------------------------------------------------------------------------
(* Properties *)

\* The operator knows every secret and has nothing to do.
Quiet == pc = "idle" /\ ~queued /\ passwordCache = password

UpToDate(u) == password[u] \in Passwords => config.users[u].password = password[u]

\* A password change of a watched secret is never lost, at whatever point of a
\* reconciliation it is delivered: an idle operator has published credentials
\* for the current password.
WatchedPasswordsFollow == Quiet => \A u \in watched : UpToDate(u)

\* A password secret that is created or changed is always picked up: an idle
\* operator has published credentials for every password.
PasswordsFollow == Quiet => \A u \in Users : UpToDate(u)

\* Unless it logged an error, an idle operator that watches every password has
\* put the current ones into all connection strings as well: the loop reads them
\* a third time, after the status was written.
ConnectionStringsFollow ==
  Quiet /\ ~logged /\ watched = Users =>
    \A u \in Users : password[u] \in Passwords => connection[u] = password[u]

\* The credentials the config was published with are the ones stored, so that a
\* deleted password secret leaves the credentials of the last password.
PublishedAreStored ==
  Quiet => \A u \in Users :
    config.users[u] # NoCreds => config.users[u].password = scram[u].password

\* The agent password and the keyfile, which all members share, are published
\* once and never change, whatever was interrupted between generating and
\* publishing them.
AgentSecretsStable ==
  [][\A k \in AgentKinds : config.agent[k] # None => config'.agent[k] = config.agent[k]]_vars

\* Credentials that lack one of the keys readExistingCredentials checks are never
\* published, whenever the key is lost: between the comparison and the second
\* read, too.  The SHA-1 stored key, which the check leaves out, is not among
\* them: without it credentials are published as soon as the password is gone.
CheckedKeysPublished ==
  \A u \in Users : config.users[u] # NoCreds => config.users[u].missing # "other"

\* What makes every reconciliation fail until somebody repairs it.
Blocked ==
  \E u \in Users :
    \/ password[u] = NoKey \/ scram[u].missing = "other"
    \/ password[u] = None /\ scram[u] = NoCreds

\* Once the secrets stop changing, every watched password is published and stays
\* so, unless another user's secrets block the resource.
EventuallyFollow == <>[](Blocked \/ \A u \in watched : UpToDate(u))
=============================================================================
