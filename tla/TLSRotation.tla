----------------------------- MODULE TLSRotation -----------------------------
(***************************************************************************)
(* Rotation of the certificate of running TLS deployments: the user's      *)
(* certificate-key secret, the operator-managed secret that is mounted     *)
(* into the pods, and the file name in the automation config               *)
(* (controllers/mongodb_tls.go), for resources that share the user's       *)
(* secret and are reconciled concurrently (MaxConcurrentReconciles is 3).  *)
(* The reconciliations share the secret watcher (controllers/watch), whose *)
(* map has no lock.                                                        *)
(*                                                                         *)
(* Abstractions: a certificate-key file is the pair of secret revisions    *)
(* its two halves were read from, and so is its name (the name is a hash   *)
(* of the content); a deployment is one pod, ready while its mongod runs.  *)
(* Reads of the user's secret go through the informer's cache; reads of    *)
(* what the operator writes itself are current.                            *)
(***************************************************************************)
EXTENDS Integers, FiniteSets

CONSTANTS
  Resources,             \* the resources that name the secret
  Certs,                 \* revisions of the user's certificate and key
  None,                  \* no secret, nothing read
  MaxEdits,
  FaultKinds, MaxFaults

ASSUME CertsAssumption == None \notin Certs /\ Certs # {}

ASSUME BoundsAssumption ==
  /\ MaxEdits \in Nat /\ MaxFaults \in Nat
  /\ FaultKinds \subseteq {"api", "pod", "restart"}

VARIABLES
  cert,            \* the user's secret
  cache,           \* the informer's view of it
  operatorSecret,  \* the one file in the operator-managed secret
  fileName,        \* certificateKeyFile in the automation config
  mounted,         \* the file in the pod's volume
  mongod,          \* the file the running mongod was started with, or None
  watched,         \* resources the watcher has registered for the secret
  queued, pc,
  existing,        \* Watch: the list it read from the map
  crt,             \* getCertAndKey: the certificate it has read
  edits, faults

cluster == <<operatorSecret, fileName, mounted, mongod>>
vars    == <<cert, cache, operatorSecret, fileName, mounted, mongod, watched, queued,
             pc, existing, crt, edits, faults>>

Files == Certs \X Certs

\* The type invariant of the secrets, the pods and the reconciliations' locals.
TypeOK ==
  /\ cert \in Certs \cup {None} /\ cache \in Certs \cup {None}
  /\ operatorSecret \in [Resources -> Files] /\ fileName \in [Resources -> Files]
  /\ mounted \in [Resources -> Files] /\ mongod \in [Resources -> Files \cup {None}]
  /\ watched \subseteq Resources /\ queued \subseteq Resources
  /\ pc \in [Resources -> {"idle", "validate", "watch", "readSecret", "ensureSecret",
                           "statefulSet", "readConfig", "publish", "agents"}]
  /\ existing \in [Resources -> SUBSET Resources]
  /\ crt \in [Resources -> Certs \cup {None}]
  /\ edits \in Nat /\ faults \in Nat

-----------------------------------------------------------------------------
(* The reconciliation of resource r *)

Goto(r, step) == pc' = [pc EXCEPT ![r] = step]

\* The phase is Pending or Failed and the resource is requeued.
Retry(r) ==
  /\ Goto(r, "idle") /\ crt' = [crt EXCEPT ![r] = None]
  /\ queued' = queued \cup {r}

Dequeue(r) ==
  /\ pc[r] = "idle" /\ r \in queued
  /\ queued' = queued \ {r}
  /\ Goto(r, "validate")
  /\ UNCHANGED <<cert, cache, cluster, watched, existing, crt, edits, faults>>

\* validateTLSConfig up to the call of Watch, which reads the map.
validateTLSConfig(r) ==
  /\ pc[r] = "validate"
  /\ \/ /\ cache = None
        /\ Retry(r) /\ UNCHANGED existing
     \/ /\ cache # None
        /\ existing' = [existing EXCEPT ![r] = watched]
        /\ Goto(r, "watch") /\ UNCHANGED <<crt, queued>>
  /\ UNCHANGED <<cert, cache, cluster, watched, edits, faults>>

\* Watch writes the list it read, with the resource appended.  Registrations
\* made since the read are overwritten.
Watch(r) ==
  /\ pc[r] = "watch"
  /\ watched' = IF r \in existing[r] THEN watched ELSE existing[r] \cup {r}
  /\ existing' = [existing EXCEPT ![r] = {}]
  /\ Goto(r, "readSecret")
  /\ UNCHANGED <<cert, cache, cluster, queued, crt, edits, faults>>

\* getCertAndKey reads the certificate; a second read will fetch the key.
ReadCert(r, step, next) ==
  /\ pc[r] = step
  /\ \/ /\ cache = None /\ Retry(r)
     \/ /\ cache # None
        /\ crt' = [crt EXCEPT ![r] = cache]
        /\ Goto(r, next) /\ UNCHANGED queued
  /\ UNCHANGED <<cert, cache, cluster, watched, existing, edits, faults>>

\* Deliberately wrong: a key that cannot be read is not an error.
Faulty_KeyUnchecked(r) ==
  /\ pc[r] = "ensureSecret"
  /\ operatorSecret' = [operatorSecret EXCEPT ![r] = <<crt[r], cache>>]
  /\ crt' = [crt EXCEPT ![r] = None]
  /\ Goto(r, "statefulSet")
  /\ UNCHANGED <<cert, cache, fileName, mounted, mongod, watched, queued, existing, edits, faults>>

\* ensureTLSSecret: the key is read, and the combined file replaces the content
\* of the operator-managed secret.
ensureTLSSecret(r) ==
  /\ pc[r] = "ensureSecret"
  /\ \/ /\ cache = None /\ Retry(r) /\ UNCHANGED operatorSecret
     \/ /\ cache # None
        /\ operatorSecret' = [operatorSecret EXCEPT ![r] = <<crt[r], cache>>]
        /\ crt' = [crt EXCEPT ![r] = None]
        /\ Goto(r, "statefulSet") /\ UNCHANGED queued
  /\ UNCHANGED <<cert, cache, fileName, mounted, mongod, watched, existing, edits, faults>>

\* Deliberately wrong: waits until mongod uses the file, which the config that
\* would make it do so has not named yet.
Faulty_WaitsForFile(r) ==
  /\ pc[r] = "statefulSet"
  /\ \/ /\ mongod[r] = operatorSecret[r]
        /\ Goto(r, "readConfig") /\ UNCHANGED <<queued, crt>>
     \/ /\ mongod[r] # operatorSecret[r]
        /\ Retry(r)
  /\ UNCHANGED <<cert, cache, cluster, watched, existing, edits, faults>>

\* With TLS the StatefulSet goes first: the config has to wait until it is ready.
deployStatefulSet(r) ==
  /\ pc[r] = "statefulSet"
  /\ \/ /\ mongod[r] # None
        /\ Goto(r, "readConfig") /\ UNCHANGED <<queued, crt>>
     \/ /\ mongod[r] = None
        /\ Retry(r)
  /\ UNCHANGED <<cert, cache, cluster, watched, existing, edits, faults>>

\* getTLSConfigModification: the key is read, and the config names the file.
PublishConfig(r) ==
  /\ pc[r] = "publish"
  /\ \/ /\ cache = None /\ Retry(r) /\ UNCHANGED fileName
     \/ /\ cache # None
        /\ fileName' = [fileName EXCEPT ![r] = <<crt[r], cache>>]
        /\ crt' = [crt EXCEPT ![r] = None]
        /\ Goto(r, "agents") /\ UNCHANGED queued
  /\ UNCHANGED <<cert, cache, operatorSecret, mounted, mongod, watched, existing, edits, faults>>

\* The resource is Running once the agents have applied the config.
WaitForAgents(r) ==
  /\ pc[r] = "agents"
  /\ \/ /\ mongod[r] = fileName[r]
        /\ Goto(r, "idle") /\ UNCHANGED <<queued, crt>>
     \/ /\ mongod[r] # fileName[r]
        /\ Retry(r)
  /\ UNCHANGED <<cert, cache, cluster, watched, existing, edits, faults>>

Reconcile(r) ==
  \/ Dequeue(r) \/ validateTLSConfig(r) \/ Watch(r)
  \/ ReadCert(r, "readSecret", "ensureSecret") \/ ensureTLSSecret(r)
  \/ deployStatefulSet(r)
  \/ ReadCert(r, "readConfig", "publish") \/ PublishConfig(r)
  \/ WaitForAgents(r)

-----------------------------------------------------------------------------
(* Faults *)

Fault(kind) == kind \in FaultKinds /\ faults < MaxFaults /\ faults' = faults + 1

ApiError(r) ==
  /\ Fault("api")
  /\ pc[r] \notin {"idle", "watch"}
  /\ Retry(r)
  /\ UNCHANGED <<cert, cache, cluster, watched, existing, edits>>

\* The operator restarts: the watcher's map is lost and every resource is
\* reconciled.  A concurrent map write that the Go runtime detects ends here too.
Restart ==
  /\ Fault("restart")
  /\ pc' = [r \in Resources |-> "idle"] /\ queued' = Resources /\ watched' = {}
  /\ existing' = [r \in Resources |-> {}] /\ crt' = [r \in Resources |-> None]
  /\ cache' = cert
  /\ UNCHANGED <<cert, cluster, edits>>

\* A pod is replaced: the new one mounts the secret as it is now.
PodRestart(r) ==
  /\ Fault("pod")
  /\ mounted' = [mounted EXCEPT ![r] = operatorSecret[r]]
  /\ mongod' = [mongod EXCEPT ![r] = None]
  /\ UNCHANGED <<cert, cache, operatorSecret, fileName, watched, queued, pc, existing, crt, edits>>

-----------------------------------------------------------------------------
(* The user, the informer, the kubelet and the agents *)

EditSecret ==
  /\ edits < MaxEdits /\ edits' = edits + 1
  /\ cert' \in (Certs \cup {None}) \ {cert}
  /\ UNCHANGED <<cache, cluster, watched, queued, pc, existing, crt, faults>>

\* Deliberately wrong: only resources that are not being reconciled are enqueued.
Faulty_EventSkipsBusy ==
  /\ cache # cert /\ cache' = cert
  /\ queued' = queued \cup {r \in watched : pc[r] = "idle"}
  /\ UNCHANGED <<cert, cluster, watched, pc, existing, crt, edits, faults>>

\* handleEvent enqueues every resource registered for the secret.
handleEvent ==
  /\ cache # cert /\ cache' = cert
  /\ queued' = queued \cup watched
  /\ UNCHANGED <<cert, cluster, watched, pc, existing, crt, edits, faults>>

podEnv == <<cert, cache, operatorSecret, fileName, watched, queued, pc, existing, crt,
            edits, faults>>

\* The kubelet refreshes the volume.
SyncVolume(r) ==
  /\ mounted[r] # operatorSecret[r]
  /\ mounted' = [mounted EXCEPT ![r] = operatorSecret[r]]
  /\ UNCHANGED <<podEnv, mongod>>

\* The agent starts mongod, or restarts it because the file name has changed,
\* once the file it has to use is there.
StartMongod(r) ==
  /\ mongod[r] # fileName[r] /\ mounted[r] = fileName[r]
  /\ mongod' = [mongod EXCEPT ![r] = fileName[r]]
  /\ UNCHANGED <<podEnv, mounted>>

-----------------------------------------------------------------------------
\* The deployments run with one certificate; the operator has just started.
Init ==
  /\ cert \in Certs /\ cache = cert
  /\ operatorSecret = [r \in Resources |-> <<cert, cert>>]
  /\ fileName = operatorSecret /\ mounted = operatorSecret /\ mongod = operatorSecret
  /\ watched = {} /\ queued = Resources
  /\ pc = [r \in Resources |-> "idle"]
  /\ existing = [r \in Resources |-> {}] /\ crt = [r \in Resources |-> None]
  /\ edits = 0 /\ faults = 0

Next ==
  \/ EditSecret \/ handleEvent \/ Restart
  \/ \E r \in Resources :
       Reconcile(r) \/ ApiError(r) \/ PodRestart(r) \/ SyncVolume(r) \/ StartMongod(r)

Spec == Init /\ [][Next]_vars

\* Workers, informer, kubelet and agents keep running.
FairSpec ==
  /\ Spec /\ WF_vars(handleEvent)
  /\ \A r \in Resources :
       WF_vars(Reconcile(r)) /\ WF_vars(SyncVolume(r)) /\ WF_vars(StartMongod(r))

-----------------------------------------------------------------------------
(* Properties *)

Quiet(r) == pc[r] = "idle" /\ r \notin queued /\ cache = cert

Rotated(r) == operatorSecret[r] = <<cert, cert>> /\ fileName[r] = <<cert, cert>>

\* However the two halves of a file, the mounted secret and the config were read,
\* an idle operator has deployed the current certificate and key, unmixed, to
\* every resource registered for the secret.  This is so for up to two resources;
\* with three, a registration that one Watch has overwritten can come back with
\* another's stale list, after an event was missed in between.
RegisteredAreRotated ==
  \A r \in watched : Quiet(r) /\ cert # None => Rotated(r)

Serving(r) == mongod[r] = <<cert, cert>> /\ Rotated(r)

\* A mongod that has to start with a file that has been replaced.
FileGone(r) == mongod[r] = None /\ fileName[r] # operatorSecret[r]

\* Once the certificate stays, every registered deployment serves it, unless a
\* pod was lost while the file its config names was being replaced (again for up
\* to two resources).
RegisteredServe ==
  <>[](cert = None \/ \A r \in watched : Serving(r) \/ FileGone(r))

\* Once the certificate stays, every deployment serves it.
AllServe == <>[](cert = None \/ \A r \in Resources : Serving(r))
=============================================================================
