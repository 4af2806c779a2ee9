-------------------------- MODULE TLSRotation_proofs --------------------------
(* Proofs about TLSRotation, for any revisions, edits and faults: the types   *)
(* for any number of resources, and the rotation for up to two that share the *)
(* secret.                                                                    *)
EXTENDS TLSRotation, TLAPS

\* The rotation is guaranteed for at most two resources on one secret.
AtMostTwo == \E a, b : Resources \subseteq {a, b}

\* A file is only put together from a certificate that was read.
CrtInv == \A r \in Resources : pc[r] \in {"ensureSecret", "publish"} => crt[r] # None

\* A list that a Watch is about to write back names no other resource that has
\* lost its registration meanwhile.
ListInv ==
  \A r, s \in Resources : r # s /\ pc[s] = "watch" /\ r \in existing[s] => r \in watched

\* What a registered resource has read or written in this or the last
\* reconciliation is what the cache holds: a newer revision would have queued it.
FreshInv ==
  \A r \in watched : r \notin queued =>
    /\ pc[r] \in {"ensureSecret", "publish"} => crt[r] = cache
    /\ pc[r] \in {"statefulSet", "readConfig", "publish", "agents", "idle"} =>
         operatorSecret[r] = <<cache, cache>>
    /\ pc[r] \in {"agents", "idle"} => fileName[r] = <<cache, cache>>

IInv == TypeOK /\ CrtInv

-----------------------------------------------------------------------------
\* What every retry does.
LEMMA RetryStep ==
  ASSUME TypeOK, NEW r \in Resources, Retry(r)
  PROVE  /\ pc' \in [Resources -> {"idle", "validate", "watch", "readSecret", "ensureSecret",
                           "statefulSet", "readConfig", "publish", "agents"}]
         /\ crt' \in [Resources -> Certs \cup {None}]
         /\ queued' \subseteq Resources /\ queued' = queued \cup {r}
         /\ pc'[r] = "idle"
         /\ \A s \in Resources \ {r} : pc'[s] = pc[s] /\ crt'[s] = crt[s]
BY DEF Retry, Goto, TypeOK

\* Initially the types are right and nothing has been read.
LEMMA TypeInit == Init => IInv
BY CertsAssumption DEF Init, IInv, TypeOK, CrtInv, Files

\* Every step keeps the types, and a certificate that was read until it is used.
LEMMA TypeNext == IInv /\ [Next]_vars => IInv'
<1> SUFFICES ASSUME TypeOK, CrtInv, [Next]_vars PROVE TypeOK' /\ CrtInv'
  BY DEF IInv
<1>1. ASSUME NEW r \in Resources, Dequeue(r) PROVE TypeOK' /\ CrtInv'
  BY <1>1 DEF Dequeue, Goto, TypeOK, CrtInv, cluster
<1>2. ASSUME NEW r \in Resources, validateTLSConfig(r) PROVE TypeOK' /\ CrtInv'
  <2>1. CASE Retry(r) /\ UNCHANGED existing
    BY <1>2, <2>1, RetryStep DEF validateTLSConfig, TypeOK, CrtInv, cluster
  <2>2. CASE Goto(r, "watch") /\ existing' = [existing EXCEPT ![r] = watched] /\ UNCHANGED <<crt, queued>>
    BY <1>2, <2>2 DEF validateTLSConfig, Goto, TypeOK, CrtInv, cluster
  <2>3. QED
    BY <1>2, <2>1, <2>2 DEF validateTLSConfig
<1>3. ASSUME NEW r \in Resources, Watch(r) PROVE TypeOK' /\ CrtInv'
  BY <1>3 DEF Watch, Goto, TypeOK, CrtInv, cluster
<1>4. ASSUME NEW r \in Resources, NEW step, NEW next \in {"ensureSecret", "publish"},
             ReadCert(r, step, next)
      PROVE  TypeOK' /\ CrtInv'
  <2>1. CASE Retry(r)
    BY <1>4, <2>1, RetryStep DEF ReadCert, TypeOK, CrtInv, cluster
  <2>2. CASE cache # None /\ crt' = [crt EXCEPT ![r] = cache] /\ Goto(r, next) /\ UNCHANGED queued
    BY <1>4, <2>2 DEF ReadCert, Goto, TypeOK, CrtInv, cluster
  <2>3. QED
    BY <1>4, <2>1, <2>2 DEF ReadCert
<1>5. ASSUME NEW r \in Resources, ensureTLSSecret(r) PROVE TypeOK' /\ CrtInv'
  <2>1. CASE Retry(r) /\ UNCHANGED operatorSecret
    BY <1>5, <2>1, RetryStep DEF ensureTLSSecret, TypeOK, CrtInv
  <2>2. CASE /\ cache # None
             /\ operatorSecret' = [operatorSecret EXCEPT ![r] = <<crt[r], cache>>]
             /\ crt' = [crt EXCEPT ![r] = None]
             /\ Goto(r, "statefulSet") /\ UNCHANGED queued
    <3>1. <<crt[r], cache>> \in Files
      BY <1>5, <2>2 DEF ensureTLSSecret, TypeOK, CrtInv, Files
    <3>2. operatorSecret' \in [Resources -> Files]
      BY <1>5, <2>2, <3>1 DEF ensureTLSSecret, TypeOK
    <3>3. QED
      BY <1>5, <2>2, <3>2 DEF ensureTLSSecret, Goto, TypeOK, CrtInv
  <2>3. QED
    BY <1>5, <2>1, <2>2 DEF ensureTLSSecret
<1>6. ASSUME NEW r \in Resources, deployStatefulSet(r) \/ WaitForAgents(r)
      PROVE  TypeOK' /\ CrtInv'
  <2>1. CASE Retry(r)
    BY <1>6, <2>1, RetryStep DEF deployStatefulSet, WaitForAgents, TypeOK, CrtInv, cluster
  <2>2. ASSUME NEW step \in {"readConfig", "idle"}, Goto(r, step), UNCHANGED <<queued, crt>>
        PROVE  TypeOK' /\ CrtInv'
    BY <1>6, <2>2 DEF deployStatefulSet, WaitForAgents, Goto, TypeOK, CrtInv, cluster
  <2>3. QED
    BY <1>6, <2>1, <2>2 DEF deployStatefulSet, WaitForAgents
<1>7. ASSUME NEW r \in Resources, PublishConfig(r) PROVE TypeOK' /\ CrtInv'
  <2>1. CASE Retry(r) /\ UNCHANGED fileName
    BY <1>7, <2>1, RetryStep DEF PublishConfig, TypeOK, CrtInv
  <2>2. CASE /\ cache # None
             /\ fileName' = [fileName EXCEPT ![r] = <<crt[r], cache>>]
             /\ crt' = [crt EXCEPT ![r] = None]
             /\ Goto(r, "agents") /\ UNCHANGED queued
    <3>1. <<crt[r], cache>> \in Files
      BY <1>7, <2>2 DEF PublishConfig, TypeOK, CrtInv, Files
    <3>2. fileName' \in [Resources -> Files]
      BY <1>7, <2>2, <3>1 DEF PublishConfig, TypeOK
    <3>3. QED
      BY <1>7, <2>2, <3>2 DEF PublishConfig, Goto, TypeOK, CrtInv
  <2>3. QED
    BY <1>7, <2>1, <2>2 DEF PublishConfig
<1>8. ASSUME NEW r \in Resources, ApiError(r) PROVE TypeOK' /\ CrtInv'
  <2>1. Retry(r) /\ faults' = faults + 1 /\ UNCHANGED <<cert, cache, cluster, watched, existing, edits>>
    BY <1>8 DEF ApiError, Fault
  <2>2. QED
    BY <2>1, RetryStep DEF TypeOK, CrtInv, cluster
<1>9. CASE Restart
  BY <1>9 DEF Restart, Fault, TypeOK, CrtInv, cluster
<1>10. ASSUME NEW r \in Resources, PodRestart(r) PROVE TypeOK' /\ CrtInv'
  BY <1>10 DEF PodRestart, Fault, TypeOK, CrtInv
<1>11. ASSUME NEW r \in Resources, SyncVolume(r) \/ StartMongod(r) PROVE TypeOK' /\ CrtInv'
  BY <1>11 DEF SyncVolume, StartMongod, podEnv, TypeOK, CrtInv
<1>12. CASE EditSecret
  BY <1>12 DEF EditSecret, TypeOK, CrtInv, cluster
<1>13. CASE handleEvent
  BY <1>13 DEF handleEvent, TypeOK, CrtInv, cluster
<1>14. CASE UNCHANGED vars
  BY <1>14 DEF vars, TypeOK, CrtInv
<1>15. QED
  BY <1>1, <1>2, <1>3, <1>4, <1>5, <1>6, <1>7, <1>8, <1>9, <1>10, <1>11, <1>12, <1>13, <1>14
  DEF Next, Reconcile

\* The secrets, the pods and the locals of the reconciliations always have their
\* types, for any number of resources: no file is put together from a missing half.
THEOREM TypeCorrect == Spec => []TypeOK
<1>1. IInv => TypeOK
  BY DEF IInv
<1>2. QED
  BY <1>1, TypeInit, TypeNext, PTL DEF Spec

-----------------------------------------------------------------------------
\* With two resources the only Watch that could drop a resource from the list
\* another one is about to write is that resource's own, which adds it.
LEMMA ListNext ==
  ASSUME AtMostTwo
  PROVE  TypeOK /\ ListInv /\ [Next]_vars => ListInv'
<1> SUFFICES ASSUME TypeOK, ListInv, [Next]_vars PROVE ListInv'
  OBVIOUS
<1>1. ASSUME NEW q \in Resources, Watch(q) PROVE ListInv'
  <2> SUFFICES ASSUME NEW r \in Resources, NEW s \in Resources,
                      r # s, pc'[s] = "watch", r \in existing'[s]
               PROVE  r \in watched'
    BY DEF ListInv
  <2>1. s # q /\ pc[s] = "watch" /\ existing'[s] = existing[s]
    BY <1>1 DEF Watch, Goto, TypeOK
  <2>2. q = r
    BY <2>1 DEF AtMostTwo
  <2>3. r \in watched
    BY <2>1 DEF ListInv
  <2>4. QED
    BY <1>1, <2>2, <2>3 DEF Watch
<1>2. ASSUME NEW q \in Resources, validateTLSConfig(q) PROVE ListInv'
  <2>1. CASE Retry(q) /\ UNCHANGED existing
    BY <1>2, <2>1, RetryStep DEF validateTLSConfig, ListInv
  <2>2. CASE Goto(q, "watch") /\ existing' = [existing EXCEPT ![q] = watched]
    BY <1>2, <2>2 DEF validateTLSConfig, Goto, TypeOK, ListInv
  <2>3. QED
    BY <1>2, <2>1, <2>2 DEF validateTLSConfig
<1>3. ASSUME NEW q \in Resources, UNCHANGED <<watched, existing>>,
             pc'[q] # "watch", \A s \in Resources \ {q} : pc'[s] = pc[s]
      PROVE  ListInv'
  BY <1>3 DEF ListInv
<1>4. ASSUME NEW q \in Resources,
             \/ Dequeue(q) \/ ReadCert(q, "readSecret", "ensureSecret") \/ ensureTLSSecret(q)
             \/ deployStatefulSet(q) \/ ReadCert(q, "readConfig", "publish")
             \/ PublishConfig(q) \/ WaitForAgents(q) \/ ApiError(q)
      PROVE  ListInv'
  <2>1. UNCHANGED <<watched, existing>>
    BY <1>4 DEF Dequeue, ReadCert, ensureTLSSecret, deployStatefulSet, PublishConfig,
                WaitForAgents, ApiError
  <2>2. PICK step \in {"validate", "ensureSecret", "statefulSet", "readConfig", "publish",
                       "agents", "idle"} : pc' = [pc EXCEPT ![q] = step]
    BY <1>4 DEF Dequeue, ReadCert, ensureTLSSecret, deployStatefulSet, PublishConfig,
                WaitForAgents, ApiError, Retry, Goto
  <2>3. pc'[q] # "watch" /\ \A s \in Resources \ {q} : pc'[s] = pc[s]
    BY <2>2 DEF TypeOK
  <2>4. QED
    BY <1>3, <2>1, <2>3
<1>5. CASE Restart
  BY <1>5 DEF Restart, ListInv
<1>6. ASSUME NEW q \in Resources, PodRestart(q) \/ SyncVolume(q) \/ StartMongod(q) PROVE ListInv'
  BY <1>6 DEF PodRestart, SyncVolume, StartMongod, podEnv, ListInv
<1>7. CASE EditSecret \/ handleEvent \/ UNCHANGED vars
  BY <1>7 DEF EditSecret, handleEvent, vars, ListInv
<1>8. QED
  BY <1>1, <1>2, <1>4, <1>5, <1>6, <1>7 DEF Next, Reconcile

\* A resource's own steps keep what it has read equal to the cache, no other
\* resource's step registers it, and a delivered revision queues it.
LEMMA FreshNext == IInv /\ ListInv /\ FreshInv /\ [Next]_vars => FreshInv'
<1> SUFFICES ASSUME TypeOK, ListInv, FreshInv, [Next]_vars, NEW r \in watched', r \notin queued'
             PROVE  /\ pc'[r] \in {"ensureSecret", "publish"} => crt'[r] = cache'
                    /\ pc'[r] \in {"statefulSet", "readConfig", "publish", "agents", "idle"} =>
                         operatorSecret'[r] = <<cache', cache'>>
                    /\ pc'[r] \in {"agents", "idle"} => fileName'[r] = <<cache', cache'>>
  BY DEF FreshInv, IInv
<1> DEFINE Goal == /\ pc'[r] \in {"ensureSecret", "publish"} => crt'[r] = cache'
                   /\ pc'[r] \in {"statefulSet", "readConfig", "publish", "agents", "idle"} =>
                        operatorSecret'[r] = <<cache', cache'>>
                   /\ pc'[r] \in {"agents", "idle"} => fileName'[r] = <<cache', cache'>>
<1> USE DEF TypeOK
<1>1. ASSUME NEW q \in Resources, Watch(q) PROVE Goal
  <2>1. CASE q = r
    BY <1>1, <2>1 DEF Watch, Goto
  <2>2. CASE q # r
    <3>1. r \in watched
      BY <1>1, <2>2 DEF Watch, ListInv
    <3>2. /\ pc'[r] = pc[r]
          /\ UNCHANGED <<cache, queued, crt, operatorSecret, fileName>>
      BY <1>1, <2>2 DEF Watch, Goto, cluster
    <3>3. QED
      BY <3>1, <3>2 DEF FreshInv
  <2>3. QED
    BY <2>1, <2>2
<1>2. ASSUME NEW q \in Resources, Dequeue(q) PROVE Goal
  BY <1>2 DEF Dequeue, Goto, FreshInv, cluster
<1>3. ASSUME NEW q \in Resources, validateTLSConfig(q) PROVE Goal
  BY <1>3 DEF validateTLSConfig, Retry, Goto, FreshInv, cluster
<1>4. ASSUME NEW q \in Resources, ReadCert(q, "readSecret", "ensureSecret") PROVE Goal
  BY <1>4 DEF ReadCert, Retry, Goto, FreshInv, cluster
<1>5. ASSUME NEW q \in Resources, ReadCert(q, "readConfig", "publish") PROVE Goal
  BY <1>5 DEF ReadCert, Retry, Goto, FreshInv, cluster
<1>6. ASSUME NEW q \in Resources, ensureTLSSecret(q) PROVE Goal
  BY <1>6 DEF ensureTLSSecret, Retry, Goto, FreshInv
<1>7. ASSUME NEW q \in Resources, PublishConfig(q) PROVE Goal
  BY <1>7 DEF PublishConfig, Retry, Goto, FreshInv
<1>8. ASSUME NEW q \in Resources, deployStatefulSet(q) \/ WaitForAgents(q) PROVE Goal
  BY <1>8 DEF deployStatefulSet, WaitForAgents, Retry, Goto, FreshInv, cluster
<1>9. ASSUME NEW q \in Resources, ApiError(q) PROVE Goal
  BY <1>9 DEF ApiError, Retry, Goto, FreshInv, cluster
<1>10. CASE Restart
  BY <1>10 DEF Restart
<1>11. ASSUME NEW q \in Resources, PodRestart(q) \/ SyncVolume(q) \/ StartMongod(q) PROVE Goal
  BY <1>11 DEF PodRestart, SyncVolume, StartMongod, podEnv, FreshInv
<1>12. CASE EditSecret \/ UNCHANGED vars
  BY <1>12 DEF EditSecret, vars, FreshInv, cluster
<1>13. CASE handleEvent
  BY <1>13 DEF handleEvent
<1>14. QED
  BY <1>1, <1>2, <1>3, <1>4, <1>5, <1>6, <1>7, <1>8, <1>9, <1>10, <1>11, <1>12, <1>13
  DEF Next, Reconcile

\* With up to two resources on a secret, whatever they interleave and whatever
\* fails: a registered resource that has nothing to do has deployed the current
\* certificate and key.
THEOREM RegisteredRotated ==
  ASSUME AtMostTwo
  PROVE  Spec => []RegisteredAreRotated
<1>1. Init => ListInv /\ FreshInv
  BY DEF Init, ListInv, FreshInv
<1>2. IInv /\ ListInv /\ [Next]_vars => ListInv'
  BY ListNext DEF IInv
<1>3. IInv /\ FreshInv => RegisteredAreRotated
  BY DEF FreshInv, RegisteredAreRotated, Quiet, Rotated
<1>4. QED
  BY <1>1, <1>2, <1>3, TypeInit, TypeNext, FreshNext, PTL DEF Spec
=============================================================================
