-------------------------- MODULE ScramUsers_proofs --------------------------
(* Proofs about ScramUsers, for any number of users, passwords, edits and    *)
(* faults.                                                                   *)
EXTENDS ScramUsers, TLAPS

-----------------------------------------------------------------------------
(* Types *)

\* Nothing published yet is well formed.
LEMMA NoAuthType == NoAuth \in Auth /\ NoCreds \notin Credentials
BY ValuesAssumption DEF NoAuth, Auth, NoCreds, Credentials, AgentKinds

\* The end of a reconciliation resets its locals.
LEMMA ReturnType ==
  Return => user' \in Users /\ read' = None /\ desired' \in Auth /\ pc' = "idle"
BY NoAuthType, UsersAssumption DEF Return, Users

\* A loop goes on with a user or ends.
LEMMA AdvanceType ==
  ASSUME user \in Users, NEW again, NEW next, Advance(again, next)
  PROVE  /\ user' \in Users
         /\ pc' \in {again, next}
         /\ \/ user' = user + 1 /\ pc' = again
            \/ user' = 1 /\ user = NumUsers /\ pc' = next
BY UsersAssumption DEF Advance, Users

\* Replacing one user's credentials in the config under construction.
LEMMA DesiredType ==
  ASSUME desired \in Auth, user \in Users, NEW c \in Credentials \cup {NoCreds}
  PROVE  /\ [desired EXCEPT !.users[user] = c] \in Auth
         /\ [desired EXCEPT !.users[user] = c].agent = desired.agent
         /\ \A u \in Users : [desired EXCEPT !.users[user] = c].users[u] =
              IF u = user THEN c ELSE desired.users[u]
BY DEF Auth

\* There is a password to compare with, and to derive credentials from.
ReadInv == pc \in {"compare", "store"} => read \in Passwords

\* How an iteration of the conversion ends when it does not fail: one user's
\* credentials are stored and in the config under construction; they have every
\* key that is checked, and are the ones there were or those of the password read.
LEMMA CredentialsStep ==
  ASSUME TypeOK, ReadInv, ReuseCredentials \/ createScramCredentialsSecret
  PROVE  \/ Fail /\ UNCHANGED scram
         \/ \E c \in Credentials :
              /\ scram' = [scram EXCEPT ![user] = c]
              /\ desired' = [desired EXCEPT !.users[user] = c]
              /\ Advance("credentials", "password") /\ read' = None /\ UNCHANGED queued
              /\ c.missing # "other"
              /\ pc = "store" => c.password = read
              /\ pc = "reuse" => c = scram[user]
<1>1. CASE createScramCredentialsSecret
  <2> DEFINE new == [password |-> read, missing |-> "none"]
  <2>1. new \in Credentials
    BY <1>1 DEF createScramCredentialsSecret, ReadInv, Credentials
  <2>2. new.missing = "none" /\ new.password = read
    OBVIOUS
  <2>3. /\ pc = "store" /\ scram' = [scram EXCEPT ![user] = new]
        /\ desired' = [desired EXCEPT !.users[user] = new]
        /\ Advance("credentials", "password") /\ read' = None /\ UNCHANGED queued
    BY <1>1 DEF createScramCredentialsSecret
  <2> HIDE DEF new
  <2>4. QED
    BY <2>1, <2>2, <2>3
<1>2. CASE ReuseCredentials
  <2>1. CASE Fail
    BY <1>2, <2>1 DEF ReuseCredentials, secrets
  <2>2. CASE /\ readExistingCredentials(scram[user])
             /\ desired' = [desired EXCEPT !.users[user] = scram[user]] /\ read' = None
             /\ Advance("credentials", "password") /\ UNCHANGED queued
    <3>1. scram[user] \in Credentials /\ scram[user].missing # "other"
      BY <2>2 DEF readExistingCredentials, TypeOK
    <3>2. scram' = [scram EXCEPT ![user] = scram[user]] /\ pc = "reuse"
      BY <1>2 DEF ReuseCredentials, TypeOK, secrets
    <3>3. QED
      BY <2>2, <3>1, <3>2
  <2>3. QED
    BY <1>2, <2>1, <2>2 DEF ReuseCredentials
<1>3. QED
  BY <1>1, <1>2

\* Initially the types are right.
LEMMA TypeInit == Init => TypeOK
<1> SUFFICES ASSUME Init PROVE TypeOK
  OBVIOUS
<1>1. /\ password \in [Users -> Passwords \cup {None, NoKey}]
      /\ passwordCache \in [Users -> Passwords \cup {None, NoKey}]
  BY DEF Init
<1>2. /\ scram \in [Users -> Credentials \cup {NoCreds}]
      /\ agent \in [AgentKinds -> Random \cup {None}]
      /\ connection \in [Users -> Passwords \cup {None}]
      /\ config \in Auth /\ desired \in Auth
  BY NoAuthType DEF Init
<1>3. watched \subseteq Users /\ user \in Users /\ edits \in Nat /\ faults \in Nat
  BY UsersAssumption DEF Init, Users
<1>4. queued \in BOOLEAN /\ logged \in BOOLEAN
  BY Zenon DEF Init
<1>5. pc = "idle" /\ read = None
  BY DEF Init
<1>6. QED
  BY <1>1, <1>2, <1>3, <1>4, <1>5 DEF TypeOK

\* Every step keeps the types.
LEMMA TypeNext == TypeOK /\ ReadInv /\ [Next]_vars => TypeOK'
<1> SUFFICES ASSUME TypeOK, ReadInv, [Next]_vars PROVE TypeOK'
  OBVIOUS
<1>1. CASE Dequeue
  BY <1>1 DEF Dequeue, TypeOK, secrets
<1>2. CASE ensureUserResources
  <2>1. CASE Fail /\ UNCHANGED watched
    BY <1>2, <2>1, ReturnType DEF ensureUserResources, Fail, TypeOK, secrets
  <2>2. CASE /\ Advance("resources", "credentials") /\ watched' \subseteq Users
             /\ UNCHANGED <<queued, read, desired>>
    BY <1>2, <2>2, AdvanceType DEF ensureUserResources, TypeOK, secrets
  <2>3. QED
    BY <1>2, <2>1, <2>2 DEF ensureUserResources, TypeOK
<1>16. CASE ensureScramCredentials
  <2>1. CASE Fail
    BY <1>16, <2>1, ReturnType DEF ensureScramCredentials, Fail, TypeOK, secrets
  <2>2. CASE ~Fail
    BY <1>16, <2>2 DEF ensureScramCredentials, TypeOK, secrets
  <2>3. QED
    BY <2>1, <2>2
<1>17. CASE CompareCredentials
  <2>1. CASE Fail
    BY <1>17, <2>1, ReturnType DEF CompareCredentials, Fail, TypeOK, secrets
  <2>2. CASE ~Fail
    <3>1. pc' \in {"store", "reuse"} /\ UNCHANGED <<queued, user, read, desired>>
      BY <1>17, <2>2 DEF CompareCredentials
    <3>2. QED
      BY <1>17, <3>1 DEF CompareCredentials, TypeOK, secrets
  <2>3. QED
    BY <2>1, <2>2
<1>3. CASE ReuseCredentials \/ createScramCredentialsSecret
  <2>4. UNCHANGED <<password, passwordCache, agent, config, connection, watched, logged, edits, faults>>
    BY <1>3 DEF ReuseCredentials, createScramCredentialsSecret, secrets
  <2>1. CASE Fail /\ UNCHANGED scram
    BY <2>1, <2>4, ReturnType DEF Fail, TypeOK
  <2>2. ASSUME NEW c \in Credentials,
               scram' = [scram EXCEPT ![user] = c],
               desired' = [desired EXCEPT !.users[user] = c],
               Advance("credentials", "password"), read' = None, UNCHANGED queued
        PROVE  TypeOK'
    <3>1. desired' \in Auth
      BY <2>2, DesiredType DEF TypeOK
    <3>2. scram' \in [Users -> Credentials \cup {NoCreds}]
      BY <2>2 DEF TypeOK
    <3>3. user' \in Users /\ pc' \in {"credentials", "password"}
      BY <2>2, AdvanceType DEF TypeOK
    <3>4. QED
      BY <2>2, <2>4, <3>1, <3>2, <3>3 DEF TypeOK
  <2>3. QED
    BY <1>3, <2>1, <2>2, CredentialsStep
<1>4. ASSUME NEW kind \in AgentKinds, NEW next \in {"keyfile", "publish"},
             EnsureSecretWithKey(kind, next)
      PROVE  TypeOK'
  <2>1. agent' \in [AgentKinds -> Random \cup {None}]
    BY <1>4 DEF EnsureSecretWithKey, TypeOK
  <2>2. desired' \in Auth
    BY <1>4, <2>1 DEF EnsureSecretWithKey, TypeOK, Auth
  <2>3. QED
    BY <1>4, <2>1, <2>2 DEF EnsureSecretWithKey, TypeOK
<1>5. CASE Publish
  BY <1>5, NoAuthType DEF Publish, TypeOK
<1>6. CASE Running
  BY <1>6 DEF Running, TypeOK, secrets
<1>7. CASE updateConnectionStringSecrets
  <2>1. CASE passwordCache[user] \in Passwords
    <3>1. connection' \in [Users -> Passwords \cup {None}]
      BY <1>7, <2>1 DEF updateConnectionStringSecrets, TypeOK
    <3>2. user' \in Users /\ pc' \in {"connection", "idle"}
      BY <1>7, <2>1, AdvanceType DEF updateConnectionStringSecrets, TypeOK
    <3>3. QED
      BY <1>7, <2>1, <3>1, <3>2 DEF updateConnectionStringSecrets, TypeOK
  <2>2. CASE passwordCache[user] \notin Passwords
    BY <1>7, <2>2, ReturnType DEF updateConnectionStringSecrets, TypeOK
  <2>3. QED
    BY <2>1, <2>2
<1>8. CASE ApiError \/ NotReady
  <2>1. Return /\ queued' = TRUE /\ faults' = faults + 1 /\ UNCHANGED <<secrets, watched, logged, edits>>
    BY <1>8 DEF ApiError, NotReady, Fail, Fault
  <2>2. QED
    BY <2>1, ReturnType DEF TypeOK, secrets
<1>9. CASE ConnectionError
  BY <1>9, ReturnType DEF ConnectionError, Fault, TypeOK, secrets
<1>10. CASE Restart
  BY <1>10, ReturnType DEF Restart, Fail, Fault, TypeOK
<1>18. CASE LookupError
  BY <1>18, AdvanceType DEF LookupError, Fault, TypeOK, secrets
<1>11. ASSUME NEW u \in Users, EditPassword(u) PROVE TypeOK'
  BY <1>11 DEF EditPassword, TypeOK
<1>12. ASSUME NEW u \in Users, EditCredentials(u) PROVE TypeOK'
  <2>1. PICK key \in {"sha1StoredKey", "other"} : scram' = [scram EXCEPT ![u].missing = key]
    BY <1>12 DEF EditCredentials
  <2>2. scram' \in [Users -> Credentials \cup {NoCreds}]
    BY <1>12, <2>1 DEF EditCredentials, TypeOK, Credentials
  <2>3. QED
    BY <1>12, <2>2 DEF EditCredentials, TypeOK
<1>13. ASSUME NEW u \in Users, SecretEvent(u) PROVE TypeOK'
  BY <1>13 DEF SecretEvent, TypeOK
<1>14. CASE UNCHANGED vars
  BY <1>14 DEF vars, TypeOK
<1>15. QED
  BY <1>1, <1>2, <1>3, <1>4, <1>5, <1>6, <1>7, <1>8, <1>9, <1>10, <1>11, <1>12, <1>13, <1>14,
     <1>16, <1>17, <1>18
  DEF Next, Reconcile, Faults, AgentKinds

\* The password stays read until the credentials are stored.
LEMMA ReadNext == TypeOK /\ ReadInv /\ [Next]_vars => ReadInv'
<1> SUFFICES ASSUME TypeOK, ReadInv, [Next]_vars PROVE ReadInv'
  OBVIOUS
<1> USE DEF ReadInv
<1>1. CASE Dequeue \/ Publish \/ Running
  BY <1>1 DEF Dequeue, Publish, Running
<1>2. CASE ensureUserResources \/ LookupError
  BY <1>2 DEF ensureUserResources, LookupError, Fail, Return, Advance
<1>3. CASE ensureScramCredentials
  BY <1>3 DEF ensureScramCredentials, Fail, Return
<1>4. CASE CompareCredentials
  BY <1>4 DEF CompareCredentials, Fail, Return
<1>5. CASE ReuseCredentials \/ createScramCredentialsSecret
  BY <1>5 DEF ReuseCredentials, createScramCredentialsSecret, Fail, Return, Advance
<1>6. CASE EnsureSecretWithKey("password", "keyfile") \/ EnsureSecretWithKey("keyfile", "publish")
  BY <1>6 DEF EnsureSecretWithKey
<1>7. CASE updateConnectionStringSecrets \/ ConnectionError
  BY <1>7 DEF updateConnectionStringSecrets, ConnectionError, Return, Advance
<1>8. CASE ApiError \/ NotReady \/ Restart
  BY <1>8 DEF ApiError, NotReady, Restart, Fail, Return
<1>9. ASSUME NEW u \in Users, EditPassword(u) \/ EditCredentials(u) \/ SecretEvent(u)
      PROVE  ReadInv'
  BY <1>9 DEF EditPassword, EditCredentials, SecretEvent
<1>10. CASE UNCHANGED vars
  BY <1>10 DEF vars
<1>11. QED
  BY <1>1, <1>2, <1>3, <1>4, <1>5, <1>6, <1>7, <1>8, <1>9, <1>10 DEF Next, Reconcile, Faults

\* The types are inductive together with what has been read.
TypeInv == TypeOK /\ ReadInv

\* The types and the password read are right in every reachable state.
LEMMA Typed == Spec => []TypeInv
<1>1. Init => TypeInv
  BY TypeInit DEF TypeInv, Init, ReadInv
<1>2. TypeInv /\ [Next]_vars => TypeInv'
  BY TypeNext, ReadNext DEF TypeInv
<1>3. QED
  BY <1>1, <1>2, PTL DEF Spec

\* The secrets and the locals of a reconciliation always have their types.
THEOREM TypeCorrect == Spec => []TypeOK
<1>1. TypeInv => TypeOK
  BY DEF TypeInv
<1>2. QED
  BY <1>1, Typed, PTL

-----------------------------------------------------------------------------
(* The inductive invariants *)

\* The credentials an automation config holds are those of the stored passwords.
Stored(auth) ==
  \A u \in Users : auth.users[u] # NoCreds => auth.users[u].password = scram[u].password

\* Stored credentials are overwritten only between a dequeue and the next
\* publication, and a reconciliation that ends in between is retried.
Published == pc \in {"deployed", "connection"} \/ (pc = "idle" /\ ~queued)
StoredInv == Stored(desired) /\ (Published => Stored(config))

\* Outside its loops a reconciliation is at the first user.
UserInv ==
  pc \notin {"resources", "credentials", "compare", "reuse", "store", "connection"} => user = 1

\* What a watched user's credentials are compared with is what the cache holds:
\* a password delivered since would have queued the resource.
Fresh(auth, u) ==
  passwordCache[u] \in Passwords => auth.users[u].password = passwordCache[u]
Converted(u) ==
  \/ pc \in {"password", "keyfile", "publish"}
  \/ pc \in {"credentials", "compare", "reuse", "store"} /\ u < user
FollowInv ==
  ~queued => \A u \in watched :
    /\ Converted(u) => Fresh(desired, u)
    /\ u = user /\ pc \in {"compare", "store"} => read = passwordCache[u]
    /\ u = user /\ pc = "reuse" /\ passwordCache[u] \in Passwords =>
         scram[u].password = passwordCache[u]
    /\ pc \in {"deployed", "connection", "idle"} => Fresh(config, u)

\* The same for the connection strings, which a logged error excuses.
Connected(u) ==
  \/ pc = "connection" /\ u < user
  \/ pc = "idle" /\ ~logged
ConnectionInv ==
  ~queued => \A u \in watched :
    Connected(u) /\ passwordCache[u] \in Passwords => connection[u] = passwordCache[u]

\* What is published of the agent's secrets is what is stored.
AgentInv ==
  /\ \A k \in AgentKinds : config.agent[k] # None => config.agent[k] = agent[k]
  /\ pc \in {"keyfile", "publish"} => desired.agent["password"] = agent["password"]
  /\ pc = "publish" => desired.agent["keyfile"] = agent["keyfile"]

\* What is published, and what is about to be, has every key that is checked.
Checked(auth) == \A u \in Users : auth.users[u] # NoCreds => auth.users[u].missing # "other"
CheckedInv == Checked(desired) /\ Checked(config)

-----------------------------------------------------------------------------
(* The steps preserve them *)

\* An error before the status is written, a restart included.
LEMMA FailStep ==
  ASSUME ApiError \/ NotReady \/ Restart
  PROVE  /\ pc' = "idle" /\ user' = 1 /\ desired' = NoAuth /\ queued' = TRUE
         /\ UNCHANGED <<scram, agent, config, connection, logged>>
BY DEF ApiError, NotReady, Restart, Fail, Return, secrets

\* Nobody has credentials in an empty config.
LEMMA NoAuthUsers ==
  \A u \in Users : NoAuth.users[u] = NoCreds
BY DEF NoAuth

\* Only the loops move the user.
LEMMA UserNext == TypeOK /\ UserInv /\ [Next]_vars => UserInv'
<1> SUFFICES ASSUME TypeOK, UserInv, [Next]_vars PROVE UserInv'
  OBVIOUS
<1>1. CASE Dequeue \/ Publish \/ Running
  BY <1>1 DEF Dequeue, Publish, Running, UserInv
<1>2. CASE ensureUserResources \/ LookupError
  BY <1>2 DEF ensureUserResources, LookupError, Fail, Return, Advance, UserInv
<1>3. CASE ensureScramCredentials \/ CompareCredentials
  BY <1>3 DEF ensureScramCredentials, CompareCredentials, Fail, Return, UserInv
<1>11. CASE ReuseCredentials \/ createScramCredentialsSecret
  BY <1>11 DEF ReuseCredentials, createScramCredentialsSecret, Fail, Return, Advance, UserInv
<1>4. CASE updateConnectionStringSecrets
  BY <1>4 DEF updateConnectionStringSecrets, Return, Advance, UserInv
<1>5. CASE EnsureSecretWithKey("password", "keyfile") \/ EnsureSecretWithKey("keyfile", "publish")
  BY <1>5 DEF EnsureSecretWithKey, UserInv
<1>6. CASE ApiError \/ NotReady \/ Restart
  BY <1>6, FailStep DEF UserInv
<1>7. CASE ConnectionError
  BY <1>7 DEF ConnectionError, Return, UserInv
<1>8. ASSUME NEW u \in Users, EditPassword(u) \/ EditCredentials(u) \/ SecretEvent(u)
      PROVE  UserInv'
  BY <1>8 DEF EditPassword, EditCredentials, SecretEvent, UserInv
<1>9. CASE UNCHANGED vars
  BY <1>9 DEF vars, UserInv
<1>10. QED
  BY <1>1, <1>2, <1>3, <1>4, <1>5, <1>6, <1>7, <1>8, <1>9, <1>11 DEF Next, Reconcile, Faults

\* Credentials change in the store and in the config under construction at once.
LEMMA StoredNext == TypeInv /\ StoredInv /\ [Next]_vars => StoredInv'
<1> SUFFICES ASSUME TypeOK, ReadInv, StoredInv, [Next]_vars PROVE StoredInv'
  BY DEF TypeInv
<1> USE DEF Published
<1>1. CASE Dequeue
  BY <1>1 DEF Dequeue, StoredInv, Stored, secrets
<1>2. CASE ensureUserResources \/ LookupError
  BY <1>2, NoAuthUsers
  DEF ensureUserResources, LookupError, Fail, Return, Advance, StoredInv, Stored, secrets
<1>15. CASE ensureScramCredentials \/ CompareCredentials
  BY <1>15, NoAuthUsers
  DEF ensureScramCredentials, CompareCredentials, Fail, Return, StoredInv, Stored, secrets
<1>3. CASE ReuseCredentials \/ createScramCredentialsSecret
  <2>1. CASE Fail /\ UNCHANGED scram
    BY <1>3, <2>1, NoAuthUsers DEF Fail, Return, StoredInv, Stored
  <2>2. ASSUME NEW c \in Credentials,
               scram' = [scram EXCEPT ![user] = c],
               desired' = [desired EXCEPT !.users[user] = c],
               Advance("credentials", "password")
        PROVE  StoredInv'
    <3>1. \A u \in Users : desired'.users[u] = IF u = user THEN c ELSE desired.users[u]
      BY <2>2, DesiredType DEF TypeOK
    <3>2. \A u \in Users : scram'[u] = IF u = user THEN c ELSE scram[u]
      BY <2>2 DEF TypeOK
    <3>3. Stored(desired)'
      BY <3>1, <3>2 DEF StoredInv, Stored
    <3>4. pc' \in {"credentials", "password"}
      BY <2>2 DEF Advance
    <3>5. QED
      BY <3>3, <3>4 DEF StoredInv
  <2>3. QED
    BY <1>3, <2>1, <2>2, CredentialsStep
<1>4. ASSUME NEW kind \in AgentKinds, NEW next \in {"keyfile", "publish"},
             EnsureSecretWithKey(kind, next)
      PROVE  StoredInv'
  <2>1. desired'.users = desired.users /\ UNCHANGED scram /\ pc' = next
    BY <1>4 DEF EnsureSecretWithKey, TypeOK, Auth
  <2>2. QED
    BY <2>1 DEF StoredInv, Stored
<1>5. CASE Publish
  BY <1>5, NoAuthUsers DEF Publish, StoredInv, Stored
<1>6. CASE Running
  BY <1>6 DEF Running, StoredInv, Stored, secrets
<1>7. CASE updateConnectionStringSecrets
  BY <1>7, NoAuthUsers DEF updateConnectionStringSecrets, Return, Advance, StoredInv, Stored
<1>8. CASE ApiError \/ NotReady \/ Restart
  BY <1>8, FailStep, NoAuthUsers DEF StoredInv, Stored
<1>9. CASE ConnectionError
  BY <1>9, NoAuthUsers DEF ConnectionError, Return, StoredInv, Stored, secrets
<1>10. ASSUME NEW u \in Users, EditPassword(u) PROVE StoredInv'
  BY <1>10 DEF EditPassword, StoredInv, Stored
<1>11. ASSUME NEW u \in Users, EditCredentials(u) PROVE StoredInv'
  <2>1. \A v \in Users : scram'[v].password = scram[v].password
    BY <1>11 DEF EditCredentials, TypeOK, Credentials, NoCreds
  <2>2. QED
    BY <1>11, <2>1 DEF EditCredentials, StoredInv, Stored
<1>12. ASSUME NEW u \in Users, SecretEvent(u) PROVE StoredInv'
  <2>1. UNCHANGED <<scram, config, desired, pc>> /\ (queued => queued')
    BY <1>12 DEF SecretEvent
  <2>2. QED
    BY <2>1 DEF StoredInv, Stored
<1>13. CASE UNCHANGED vars
  BY <1>13 DEF vars, StoredInv, Stored
<1>14. QED
  BY <1>1, <1>2, <1>3, <1>4, <1>5, <1>6, <1>7, <1>8, <1>9, <1>10, <1>11, <1>12, <1>13, <1>15
  DEF Next, Reconcile, Faults, AgentKinds

\* The agent's secrets are generated once.
LEMMA AgentNext == TypeOK /\ AgentInv /\ [Next]_vars => AgentInv'
<1> SUFFICES ASSUME TypeOK, AgentInv, [Next]_vars PROVE AgentInv'
  OBVIOUS
<1>1. CASE Dequeue \/ Running
  BY <1>1 DEF Dequeue, Running, AgentInv, secrets
<1>2. CASE ensureUserResources \/ LookupError
  BY <1>2 DEF ensureUserResources, LookupError, Fail, Return, Advance, AgentInv, secrets
<1>3. CASE ensureScramCredentials \/ CompareCredentials
  BY <1>3 DEF ensureScramCredentials, CompareCredentials, Fail, Return, AgentInv, secrets
<1>13. CASE ReuseCredentials \/ createScramCredentialsSecret
  BY <1>13 DEF ReuseCredentials, createScramCredentialsSecret, Fail, Return, Advance, AgentInv, secrets
<1>4. CASE EnsureSecretWithKey("password", "keyfile")
  <2>1. \A k \in AgentKinds : agent[k] # None => agent'[k] = agent[k]
    BY <1>4 DEF EnsureSecretWithKey, TypeOK
  <2>2. desired'.agent["password"] = agent'["password"]
    BY <1>4 DEF EnsureSecretWithKey, TypeOK, Auth, AgentKinds
  <2>3. pc' = "keyfile" /\ UNCHANGED config
    BY <1>4 DEF EnsureSecretWithKey
  <2>4. QED
    BY <2>1, <2>2, <2>3 DEF AgentInv
<1>5. CASE EnsureSecretWithKey("keyfile", "publish")
  <2>1. \A k \in AgentKinds : agent[k] # None => agent'[k] = agent[k]
    BY <1>5 DEF EnsureSecretWithKey, TypeOK
  <2>2. desired'.agent["keyfile"] = agent'["keyfile"]
    BY <1>5 DEF EnsureSecretWithKey, TypeOK, Auth, AgentKinds
  <2>3. desired'.agent["password"] = desired.agent["password"] /\ agent'["password"] = agent["password"]
    BY <1>5 DEF EnsureSecretWithKey, TypeOK, Auth, AgentKinds
  <2>4. pc = "keyfile" /\ UNCHANGED config
    BY <1>5 DEF EnsureSecretWithKey
  <2>5. QED
    BY <2>1, <2>2, <2>3, <2>4 DEF AgentInv
<1>6. CASE Publish
  BY <1>6 DEF Publish, AgentInv, AgentKinds
<1>7. CASE updateConnectionStringSecrets
  BY <1>7 DEF updateConnectionStringSecrets, Return, Advance, AgentInv
<1>8. CASE ApiError \/ NotReady \/ Restart
  BY <1>8, FailStep DEF AgentInv
<1>9. CASE ConnectionError
  BY <1>9 DEF ConnectionError, Return, AgentInv, secrets
<1>10. ASSUME NEW u \in Users, EditPassword(u) \/ EditCredentials(u) \/ SecretEvent(u)
       PROVE  AgentInv'
  BY <1>10 DEF EditPassword, EditCredentials, SecretEvent, AgentInv
<1>11. CASE UNCHANGED vars
  BY <1>11 DEF vars, AgentInv
<1>12. QED
  BY <1>1, <1>2, <1>3, <1>4, <1>5, <1>6, <1>7, <1>8, <1>9, <1>10, <1>11, <1>13
  DEF Next, Reconcile, Faults

\* A delivered password that somebody compared with already queues the resource.
LEMMA FollowNext == TypeInv /\ FollowInv /\ [Next]_vars => FollowInv'
<1> SUFFICES ASSUME TypeOK, ReadInv, FollowInv, [Next]_vars PROVE FollowInv'
  BY DEF TypeInv
<1> USE DEF Converted, Fresh
<1>1. CASE Dequeue
  <2>1. user' \in Users /\ pc' = "resources"
    BY <1>1 DEF Dequeue, TypeOK
  <2>2. QED
    BY <2>1 DEF FollowInv
<1>2. CASE ensureUserResources \/ LookupError
  <2>1. CASE Fail
    BY <2>1 DEF Fail, FollowInv
  <2>2. CASE Advance("resources", "credentials") /\ watched' \subseteq Users
    <3>1. pc' = "resources" \/ (pc' = "credentials" /\ user' = 1)
      BY <2>2 DEF Advance
    <3>2. \A u \in watched' : ~(u < 1)
      BY <2>2, UsersAssumption DEF Users
    <3>3. QED
      BY <3>1, <3>2 DEF FollowInv
  <2>3. QED
    BY <1>2, <2>1, <2>2 DEF ensureUserResources, LookupError, TypeOK
<1>14. CASE ensureScramCredentials
  <2>1. CASE Fail
    BY <2>1 DEF Fail, FollowInv
  <2>2. CASE ~Fail
    <3>1. /\ pc = "credentials" /\ UNCHANGED <<passwordCache, scram, watched, queued, user, desired>>
          /\ \/ pc' = "compare" /\ read' = passwordCache[user]
             \/ pc' = "reuse" /\ passwordCache[user] \notin Passwords
      BY <1>14, <2>2, ValuesAssumption DEF ensureScramCredentials, secrets
    <3>2. QED
      BY <3>1 DEF FollowInv
  <2>3. QED
    BY <2>1, <2>2
<1>15. CASE CompareCredentials
  <2>1. CASE Fail
    BY <2>1 DEF Fail, FollowInv
  <2>2. CASE ~Fail
    <3>1. /\ pc = "compare"
          /\ UNCHANGED <<passwordCache, scram, watched, queued, user, read, desired>>
          /\ pc' = IF needToGenerateNewCredentials(scram[user], read) THEN "store" ELSE "reuse"
      BY <1>15, <2>2 DEF CompareCredentials, secrets
    <3>2. pc' = "store" \/ (pc' = "reuse" /\ scram[user].password = read)
      BY <3>1 DEF needToGenerateNewCredentials
    <3>3. QED
      BY <3>1, <3>2 DEF FollowInv
  <2>3. QED
    BY <2>1, <2>2
<1>3. CASE ReuseCredentials \/ createScramCredentialsSecret
  <2>1. CASE Fail
    BY <2>1 DEF Fail, FollowInv
  <2>2. ASSUME NEW c \in Credentials,
               desired' = [desired EXCEPT !.users[user] = c],
               Advance("credentials", "password"), UNCHANGED queued,
               pc = "store" => c.password = read,
               pc = "reuse" => c = scram[user]
        PROVE  FollowInv'
    <3>1. \A u \in Users : desired'.users[u] = IF u = user THEN c ELSE desired.users[u]
      BY <2>2, DesiredType DEF TypeOK
    <3>2. UNCHANGED <<passwordCache, watched>> /\ pc \in {"reuse", "store"}
      BY <1>3 DEF ReuseCredentials, createScramCredentialsSecret, secrets
    <3>3. \/ user' = user + 1 /\ pc' = "credentials"
          \/ user = NumUsers /\ pc' = "password"
      BY <2>2, <3>2, AdvanceType DEF TypeOK
    <3>4. ASSUME NEW u \in watched, Converted(u)' PROVE u = user \/ Converted(u)
      BY <3>2, <3>3, <3>4, UsersAssumption DEF TypeOK, Users
    <3>5. ASSUME NEW u \in watched, Converted(u)', ~queued PROVE Fresh(desired, u)'
      <4>1. CASE u = user
        <5>1. passwordCache[u] \in Passwords => c.password = passwordCache[u]
          BY <2>2, <3>2, <3>5, <4>1 DEF FollowInv
        <5>2. QED
          BY <3>1, <3>2, <4>1, <5>1 DEF TypeOK
      <4>2. CASE u # user
        BY <3>1, <3>2, <3>4, <3>5, <4>2 DEF TypeOK, FollowInv
      <4>3. QED
        BY <4>1, <4>2
    <3>6. pc' \notin {"deployed", "connection", "idle", "compare", "store", "reuse"}
      BY <3>3
    <3>7. QED
      BY <2>2, <3>2, <3>5, <3>6 DEF FollowInv
  <2>3. QED
    BY <1>3, <2>1, <2>2, CredentialsStep
<1>4. ASSUME NEW kind \in AgentKinds, NEW next \in {"keyfile", "publish"},
             EnsureSecretWithKey(kind, next)
      PROVE  FollowInv'
  <2>1. desired'.users = desired.users /\ pc' = next /\ UNCHANGED <<passwordCache, watched, queued>>
    BY <1>4 DEF EnsureSecretWithKey, TypeOK, Auth
  <2>2. pc \in {"password", "keyfile"}
    BY <1>4 DEF EnsureSecretWithKey, AgentKinds
  <2>3. QED
    BY <2>1, <2>2 DEF FollowInv
<1>5. CASE Publish
  BY <1>5 DEF Publish, FollowInv
<1>6. CASE Running
  BY <1>6 DEF Running, FollowInv, secrets
<1>7. CASE updateConnectionStringSecrets
  BY <1>7 DEF updateConnectionStringSecrets, Return, Advance, FollowInv
<1>8. CASE ApiError \/ NotReady \/ Restart
  BY <1>8, FailStep DEF FollowInv
<1>9. CASE ConnectionError
  BY <1>9 DEF ConnectionError, Return, FollowInv, secrets
<1>10. ASSUME NEW u \in Users, EditPassword(u) PROVE FollowInv'
  BY <1>10 DEF EditPassword, FollowInv
<1>16. ASSUME NEW u \in Users, EditCredentials(u) PROVE FollowInv'
  <2>1. \A v \in Users : scram'[v].password = scram[v].password
    BY <1>16 DEF EditCredentials, TypeOK, Credentials, NoCreds
  <2>2. QED
    BY <1>16, <2>1 DEF EditCredentials, FollowInv, TypeOK
<1>11. ASSUME NEW u \in Users, SecretEvent(u) PROVE FollowInv'
  <2>1. /\ UNCHANGED <<config, desired, pc, user, read, scram, watched>>
        /\ ~queued' => ~queued /\ u \notin watched
        /\ \A v \in Users \ {u} : passwordCache'[v] = passwordCache[v]
    BY <1>11 DEF SecretEvent, TypeOK
  <2>2. QED
    BY <2>1 DEF FollowInv, TypeOK
<1>12. CASE UNCHANGED vars
  BY <1>12 DEF vars, FollowInv
<1>13. QED
  BY <1>1, <1>2, <1>3, <1>4, <1>5, <1>6, <1>7, <1>8, <1>9, <1>10, <1>11, <1>12,
     <1>14, <1>15, <1>16
  DEF Next, Reconcile, Faults, AgentKinds

\* So it does after its connection string was written.
LEMMA ConnectionNext ==
  TypeOK /\ UserInv /\ ConnectionInv /\ [Next]_vars => ConnectionInv'
<1> SUFFICES ASSUME TypeOK, UserInv, ConnectionInv, [Next]_vars PROVE ConnectionInv'
  OBVIOUS
<1> USE DEF Connected
<1>1. CASE Dequeue
  BY <1>1 DEF Dequeue, ConnectionInv
<1>2. CASE ensureUserResources \/ LookupError
  BY <1>2 DEF ensureUserResources, LookupError, Fail, Return, Advance, ConnectionInv
<1>3. CASE ensureScramCredentials \/ CompareCredentials
  BY <1>3 DEF ensureScramCredentials, CompareCredentials, Fail, Return, ConnectionInv
<1>14. CASE ReuseCredentials \/ createScramCredentialsSecret
  BY <1>14 DEF ReuseCredentials, createScramCredentialsSecret, Fail, Return, Advance, ConnectionInv
<1>4. CASE EnsureSecretWithKey("password", "keyfile") \/ EnsureSecretWithKey("keyfile", "publish")
  BY <1>4 DEF EnsureSecretWithKey, ConnectionInv
<1>5. CASE Publish
  BY <1>5 DEF Publish, ConnectionInv
<1>6. CASE Running
  <2>1. pc' = "connection" /\ user' = 1 /\ UNCHANGED watched
    BY <1>6 DEF Running, UserInv
  <2>2. \A u \in watched : ~(u < 1)
    BY UsersAssumption DEF TypeOK, Users
  <2>3. QED
    BY <2>1, <2>2 DEF ConnectionInv
<1>7. CASE updateConnectionStringSecrets
  <2>1. CASE passwordCache[user] \in Passwords
    <3>1. /\ pc = "connection" /\ UNCHANGED <<passwordCache, watched, queued>>
          /\ \A u \in Users : connection'[u] = IF u = user THEN passwordCache[u] ELSE connection[u]
      BY <1>7, <2>1 DEF updateConnectionStringSecrets, TypeOK
    <3>2. \/ user' = user + 1 /\ pc' = "connection"
          \/ user = NumUsers /\ pc' = "idle"
      BY <1>7, <2>1, AdvanceType DEF updateConnectionStringSecrets, TypeOK
    <3>3. \A u \in watched : Connected(u)' => u = user \/ u < user
      BY <3>2, UsersAssumption DEF TypeOK, Users
    <3>4. QED
      BY <3>1, <3>3 DEF ConnectionInv, TypeOK
  <2>2. CASE passwordCache[user] \notin Passwords
    <3>1. pc' = "idle" /\ logged' = TRUE
      BY <1>7, <2>2 DEF updateConnectionStringSecrets, Return
    <3>2. QED
      BY <3>1 DEF ConnectionInv
  <2>3. QED
    BY <2>1, <2>2
<1>8. CASE ApiError \/ NotReady \/ Restart
  BY <1>8, FailStep DEF ConnectionInv
<1>9. CASE ConnectionError
  BY <1>9 DEF ConnectionError, Return, ConnectionInv
<1>10. ASSUME NEW u \in Users, EditPassword(u) \/ EditCredentials(u) PROVE ConnectionInv'
  BY <1>10 DEF EditPassword, EditCredentials, ConnectionInv
<1>11. ASSUME NEW u \in Users, SecretEvent(u) PROVE ConnectionInv'
  <2>1. /\ UNCHANGED <<connection, pc, user, watched, logged>>
        /\ ~queued' => ~queued /\ u \notin watched
        /\ \A v \in Users \ {u} : passwordCache'[v] = passwordCache[v]
    BY <1>11 DEF SecretEvent, TypeOK
  <2>2. QED
    BY <2>1 DEF ConnectionInv, TypeOK
<1>12. CASE UNCHANGED vars
  BY <1>12 DEF vars, ConnectionInv
<1>13. QED
  BY <1>1, <1>2, <1>3, <1>4, <1>5, <1>6, <1>7, <1>8, <1>9, <1>10, <1>11, <1>12, <1>14
  DEF Next, Reconcile, Faults

\* Credentials reach the config under construction only after a check of their keys.
LEMMA CheckedNext == TypeInv /\ CheckedInv /\ [Next]_vars => CheckedInv'
<1> SUFFICES ASSUME TypeOK, ReadInv, CheckedInv, [Next]_vars PROVE CheckedInv'
  BY DEF TypeInv
<1> USE DEF Checked
<1>1. CASE Dequeue \/ Running
  BY <1>1 DEF Dequeue, Running, CheckedInv, secrets
<1>2. CASE ensureUserResources \/ LookupError \/ ensureScramCredentials \/ CompareCredentials
  BY <1>2, NoAuthUsers
  DEF ensureUserResources, LookupError, ensureScramCredentials, CompareCredentials, Fail, Return,
      CheckedInv, secrets
<1>3. CASE ReuseCredentials \/ createScramCredentialsSecret
  <2>1. UNCHANGED config
    BY <1>3 DEF ReuseCredentials, createScramCredentialsSecret, secrets
  <2>2. CASE Fail
    BY <2>1, <2>2, NoAuthUsers DEF Fail, Return, CheckedInv
  <2>3. ASSUME NEW c \in Credentials,
               desired' = [desired EXCEPT !.users[user] = c], c.missing # "other"
        PROVE  CheckedInv'
    <3>1. \A u \in Users : desired'.users[u] = IF u = user THEN c ELSE desired.users[u]
      BY <2>3, DesiredType DEF TypeOK
    <3>2. QED
      BY <2>1, <2>3, <3>1 DEF CheckedInv
  <2>4. QED
    BY <1>3, <2>2, <2>3, CredentialsStep
<1>4. ASSUME NEW kind \in AgentKinds, NEW next \in {"keyfile", "publish"},
             EnsureSecretWithKey(kind, next)
      PROVE  CheckedInv'
  <2>1. desired'.users = desired.users /\ UNCHANGED config
    BY <1>4 DEF EnsureSecretWithKey, TypeOK, Auth
  <2>2. QED
    BY <2>1 DEF CheckedInv
<1>5. CASE Publish
  BY <1>5, NoAuthUsers DEF Publish, CheckedInv
<1>6. CASE updateConnectionStringSecrets
  BY <1>6, NoAuthUsers DEF updateConnectionStringSecrets, Return, CheckedInv
<1>7. CASE ApiError \/ NotReady \/ Restart
  BY <1>7, FailStep, NoAuthUsers DEF CheckedInv
<1>8. CASE ConnectionError
  BY <1>8, NoAuthUsers DEF ConnectionError, Return, CheckedInv, secrets
<1>9. ASSUME NEW u \in Users, EditPassword(u) \/ EditCredentials(u) \/ SecretEvent(u)
      PROVE  CheckedInv'
  BY <1>9 DEF EditPassword, EditCredentials, SecretEvent, CheckedInv
<1>10. CASE UNCHANGED vars
  BY <1>10 DEF vars, CheckedInv
<1>11. QED
  BY <1>1, <1>2, <1>3, <1>4, <1>5, <1>6, <1>7, <1>8, <1>9, <1>10
  DEF Next, Reconcile, Faults, AgentKinds

-----------------------------------------------------------------------------
(* The theorems *)

\* Initially nothing is stored, published or watched.
LEMMA InvInit ==
  Init => StoredInv /\ UserInv /\ FollowInv /\ ConnectionInv /\ AgentInv /\ CheckedInv
<1> SUFFICES ASSUME Init
             PROVE  StoredInv /\ UserInv /\ FollowInv /\ ConnectionInv /\ AgentInv /\ CheckedInv
  OBVIOUS
<1>1. StoredInv /\ CheckedInv
  BY NoAuthUsers DEF Init, StoredInv, Stored, CheckedInv, Checked
<1>2. UserInv /\ FollowInv /\ ConnectionInv
  BY DEF Init, UserInv, FollowInv, ConnectionInv
<1>3. AgentInv
  BY DEF Init, AgentInv, NoAuth
<1>4. QED
  BY <1>1, <1>2, <1>3

\* However many users there are and whatever fails: an idle operator has
\* published credentials for the current password of every watched user.
THEOREM WatchedFollow == Spec => []WatchedPasswordsFollow
<1>1. TypeInv /\ FollowInv => WatchedPasswordsFollow
  BY DEF TypeInv, FollowInv, Fresh, WatchedPasswordsFollow, UpToDate, Quiet
<1>2. QED
  BY <1>1, Typed, InvInit, FollowNext, PTL DEF Spec

\* And unless it logged an error, it has written them into the connection strings.
THEOREM ConnectionsFollow == Spec => []ConnectionStringsFollow
<1>3. TypeInv /\ UserInv /\ ConnectionInv /\ [Next]_vars => UserInv' /\ ConnectionInv'
  BY UserNext, ConnectionNext DEF TypeInv
<1>1. TypeInv /\ ConnectionInv => ConnectionStringsFollow
  BY DEF TypeInv, ConnectionInv, Connected, ConnectionStringsFollow, Quiet
<1>2. QED
  BY <1>1, <1>3, Typed, InvInit, PTL DEF Spec

\* The credentials an idle operator has published are the stored ones.
THEOREM PublishedStored == Spec => []PublishedAreStored
<1>1. StoredInv => PublishedAreStored
  BY DEF StoredInv, Published, Stored, PublishedAreStored, Quiet
<1>2. QED
  BY <1>1, Typed, InvInit, StoredNext, PTL DEF Spec

\* Whatever anybody removes from the stored credentials and whenever, none are
\* published that lack a key which readExistingCredentials checks.
THEOREM OnlyCheckedPublished == Spec => []CheckedKeysPublished
<1>1. CheckedInv => CheckedKeysPublished
  BY DEF CheckedInv, Checked, CheckedKeysPublished
<1>2. QED
  BY <1>1, Typed, InvInit, CheckedNext, PTL DEF Spec

\* The agent password and the keyfile never change once they are published.
THEOREM AgentSecretsKept == Spec => AgentSecretsStable
<1>3. TypeInv => TypeOK
  BY DEF TypeInv
<1>1. TypeOK /\ AgentInv /\ [Next]_vars =>
        [\A k \in AgentKinds : config.agent[k] # None => config'.agent[k] = config.agent[k]]_vars
  <2> SUFFICES ASSUME TypeOK, AgentInv, Next, NEW k \in AgentKinds, config.agent[k] # None
               PROVE  config'.agent[k] = config.agent[k]
    OBVIOUS
  <2>1. CASE Publish
    BY <2>1 DEF Publish, AgentInv, AgentKinds
  <2>2. CASE ~Publish
    <3>1. UNCHANGED config
      BY <2>2 DEF Next, Reconcile, Faults, Dequeue, ensureUserResources, ensureScramCredentials,
           CompareCredentials, ReuseCredentials, createScramCredentialsSecret, EnsureSecretWithKey,
           Running, updateConnectionStringSecrets, ApiError, LookupError, ConnectionError, NotReady, Restart, EditPassword, EditCredentials, SecretEvent, secrets
    <3>2. QED
      BY <3>1
  <2>3. QED
    BY <2>1, <2>2
<1>2. QED
  BY <1>1, <1>3, Typed, InvInit, AgentNext, PTL DEF Spec, AgentSecretsStable
=============================================================================
