-------------------- MODULE AutomationConfigBuilder_proofs --------------------
(* Proofs about AutomationConfigBuilder, for any number of members, releases *)
(* and edits.                                                                *)
EXTENDS AutomationConfigBuilder, FiniteSetTheorems, WellFoundedInduction, TLAPS

-----------------------------------------------------------------------------
(* Types *)

\* A config is built before a size is recorded, and what was recorded last is
\* all that runs.
OutcomeInv ==
  /\ outcome \in {"built", "recorded"} => config.members # <<>>
  /\ outcome = "recorded" => running = {config.version}
  /\ IF config.members = <<>> THEN running = {} ELSE config.version \in running

\* The size of this reconciliation is a size.
LEMMA SizeType ==
  ASSUME TypeOK
  PROVE  membersThisReconciliation \in 1..MaxMembers
<1>1. spec.members \in 1..MaxMembers /\ current \in 0..MaxMembers
  BY DEF TypeOK
<1>2. QED
  BY <1>1, MembersAssumption
  DEF membersThisReconciliation, ReplicasThisReconciliation, IsScalingDown

\* The members of a built config, however the votes were counted.
LEMMA BuiltMembers ==
  ASSUME NEW n \in 1..MaxMembers, NEW a
  PROVE  LET ms == [i \in 1..n |-> newReplicaSetMember(totalVotes(i), a)]
         IN  /\ DOMAIN ms \in {1..k : k \in 0..MaxMembers}
             /\ ms # <<>>
             /\ \A i \in DOMAIN ms : ms[i] \in Member
<1> DEFINE ms == [i \in 1..n |-> newReplicaSetMember(totalVotes(i), a)]
<1>1. \A v : newReplicaSetMember(v, a) \in Member
  BY DEF newReplicaSetMember, Member
<1>2. DOMAIN ms = 1..n
  OBVIOUS
<1>3. \A i \in DOMAIN ms : ms[i] \in Member
  BY <1>1
<1>4. ms # <<>>
  <2>1. 1 \in DOMAIN ms
    BY MembersAssumption
  <2>2. QED
    BY <2>1
<1>5. n \in 0..MaxMembers
  BY MembersAssumption
<1>6. QED
  BY <1>2, <1>3, <1>4, <1>5

\* Initially there is no config and nothing runs.
LEMMA TypeInit == Init => TypeOK /\ OutcomeInv
<1> SUFFICES ASSUME Init PROVE TypeOK /\ OutcomeInv
  OBVIOUS
<1>1. spec \in [members : 1..MaxMembers, arbiters : 0..MaxMembers, version : Version,
                fcv : Releases \cup {Unset}, horizons : BOOLEAN]
  BY ReleasesAssumption DEF Init, Version
<1>2. /\ DOMAIN config.members \in {1..n : n \in 0..MaxMembers}
      /\ \A i \in DOMAIN config.members : config.members[i] \in Member
  <2>1. DOMAIN config.members = 1..0
    BY DEF Init, NoConfig
  <2>2. 0 \in 0..MaxMembers
    BY MembersAssumption
  <2>3. QED
    BY <2>1, <2>2
<1>3. edited \in BOOLEAN
  BY Zenon DEF Init
<1>4. /\ current = 0 /\ config = NoConfig /\ outcome = "none"
      /\ running = {} /\ edits = 0
  BY DEF Init
<1>5. QED
  BY <1>1, <1>2, <1>3, <1>4, MembersAssumption, ReleasesAssumption
  DEF TypeOK, OutcomeInv, NoConfig, Version, Unset

\* What a build that goes through publishes.
Built ==
  /\ config' = [members |-> [i \in 1..membersThisReconciliation |->
                               newReplicaSetMember(totalVotes(i), spec.arbiters)],
                version |-> spec.version,
                fcv |-> featureCompatibilityVersion(spec.version, spec.fcv, config)]
  /\ outcome' = "built"
  /\ running' = running \cup {spec.version}
  /\ validateArbiterSpec /\ ~cannotCompareFCV
  /\ edited' = FALSE /\ UNCHANGED <<spec, current, edits>>

\* And what one that does not leaves behind.
NotBuilt ==
  /\ outcome' \in {"invalid", "failed", "panic"}
  /\ edited' = FALSE /\ UNCHANGED <<spec, current, config, running, edits>>

\* A reconciliation publishes a config or leaves the last one in place.
LEMMA BuildOutcomes == Build => Built \/ NotBuilt
BY DEF Build, Built, NotBuilt

\* An edit changes the spec alone, to another spec.
LEMMA EditType ==
  ASSUME TypeOK, EditSpec
  PROVE  /\ spec' \in [members : 1..MaxMembers, arbiters : 0..MaxMembers, version : Version,
                        fcv : Releases \cup {Unset}, horizons : BOOLEAN]
         /\ UNCHANGED <<current, config, outcome, running>>
         /\ edited' = TRUE /\ edits' \in Nat
<1> DEFINE Specs == [members : 1..MaxMembers, arbiters : 0..MaxMembers, version : Version,
                     fcv : Releases \cup {Unset}, horizons : BOOLEAN]
<1>1. ASSUME NEW n \in 1..MaxMembers, NEW a \in 0..MaxMembers
      PROVE  [spec EXCEPT !.members = n, !.arbiters = a] \in Specs
  BY DEF TypeOK
<1>2. ASSUME NEW v \in Version PROVE [spec EXCEPT !.version = v] \in Specs
  BY DEF TypeOK
<1>3. ASSUME NEW f \in Releases \cup {Unset} PROVE [spec EXCEPT !.fcv = f] \in Specs
  BY DEF TypeOK
<1>4. UNCHANGED <<current, config, outcome, running>> /\ edits' = edits + 1 /\ edited' = TRUE
  BY Zenon DEF EditSpec
<1>5. \/ \E n \in 1..MaxMembers, a \in 0..MaxMembers :
           spec' = [spec EXCEPT !.members = n, !.arbiters = a]
      \/ \E v \in Version : spec' = [spec EXCEPT !.version = v]
      \/ \E f \in Releases \cup {Unset} : spec' = [spec EXCEPT !.fcv = f]
  BY Zenon DEF EditSpec
<1>6. spec' \in Specs
  BY <1>1, <1>2, <1>3, <1>5, Zenon
<1>7. edits' \in Nat
  BY <1>4 DEF TypeOK
<1>8. QED
  BY <1>4, <1>6, <1>7, Zenon

\* The FCV of a config is a release, or unset.
LEMMA FCVType ==
  ASSUME TypeOK
  PROVE  featureCompatibilityVersion(spec.version, spec.fcv, config) \in Releases \cup {Unset}
BY ReleasesAssumption DEF featureCompatibilityVersion, TypeOK, Version, Unset

\* Every step keeps the types.
LEMMA TypeNext == TypeOK /\ OutcomeInv /\ [Next]_vars => TypeOK' /\ OutcomeInv'
<1> SUFFICES ASSUME TypeOK, OutcomeInv, [Next]_vars PROVE TypeOK' /\ OutcomeInv'
  OBVIOUS
<1>1. CASE Built
  <2> DEFINE ms == [i \in 1..membersThisReconciliation |->
                      newReplicaSetMember(totalVotes(i), spec.arbiters)]
  <2>1. /\ DOMAIN ms \in {1..k : k \in 0..MaxMembers}
        /\ ms # <<>>
        /\ \A i \in DOMAIN ms : ms[i] \in Member
    BY SizeType, BuiltMembers
  <2>2. /\ config'.members = ms /\ config'.version = spec.version
        /\ config'.fcv \in Releases \cup {Unset}
    BY <1>1, FCVType DEF Built
  <2> HIDE DEF ms
  <2>3. spec.version \in Version /\ running' \subseteq Version
    BY <1>1 DEF Built, TypeOK
  <2>4. TypeOK'
    BY <1>1, <2>1, <2>2, <2>3 DEF Built, TypeOK
  <2>5. OutcomeInv'
    BY <1>1, <2>1, <2>2 DEF Built, OutcomeInv
  <2>6. QED
    BY <2>4, <2>5
<1>2. CASE NotBuilt
  BY <1>2 DEF NotBuilt, TypeOK, OutcomeInv
<1>3. CASE Record
  <2>1. PICK k \in 0..MaxMembers : DOMAIN config.members = 1..k
    BY DEF TypeOK
  <2>2. Cardinality(DOMAIN config.members) \in 0..MaxMembers
    <3>1. Cardinality(1..k) = IF 1 > k THEN 0 ELSE k - 1 + 1
      BY <2>1, MembersAssumption, FS_Interval
    <3>2. QED
      BY <2>1, <3>1, MembersAssumption
  <2>3. config.members # <<>>
    BY <1>3 DEF Record, OutcomeInv
  <2>4. TypeOK'
    BY <1>3, <2>2, <2>3 DEF Record, TypeOK
  <2>5. OutcomeInv'
    BY <1>3, <2>3 DEF Record, OutcomeInv
  <2>6. QED
    BY <2>4, <2>5
<1>4. CASE EditSpec
  BY <1>4, EditType DEF TypeOK, OutcomeInv
<1>5. CASE UNCHANGED vars
  BY <1>5 DEF vars, TypeOK, OutcomeInv
<1>6. QED
  BY <1>1, <1>2, <1>3, <1>4, <1>5, BuildOutcomes DEF Next

-----------------------------------------------------------------------------
(* The feature compatibility version *)

\* An FCV in the spec is supported by the version in the spec and by all that
\* runs, whichever of them is published next; so is the FCV in the config.
FCVInv ==
  /\ spec.fcv <= spec.version
  /\ \A v \in running : v # Unparsable => spec.fcv <= v
  /\ FCVSupported

\* Versions and FCVs are numbers, and unset or unparsable ones are 0.
LEMMA Ranks ==
  ASSUME TypeOK
  PROVE  /\ spec.version \in Nat /\ spec.fcv \in Nat /\ config.fcv \in Nat
         /\ running \subseteq Nat /\ Unparsable = 0 /\ Unset = 0
<1>1. Version \subseteq Nat /\ Releases \cup {Unset} \subseteq Nat
  BY ReleasesAssumption DEF Version, Unset
<1>2. QED
  BY <1>1, ReleasesAssumption DEF TypeOK, Unset

\* A reconciliation or an edit at any time keeps the FCV supported.
LEMMA FCVNext == TypeOK /\ OutcomeInv /\ FCVInv /\ [Next]_vars => FCVInv'
<1> SUFFICES ASSUME TypeOK, OutcomeInv, FCVInv, [Next]_vars PROVE FCVInv'
  OBVIOUS
<1>1. CASE Built
  <2> DEFINE fcv == featureCompatibilityVersion(spec.version, spec.fcv, config)
  <2>1. \A v \in running \cup {spec.version} : v # Unparsable => fcv <= v
    <3>1. CASE spec.fcv # Unset
      BY <3>1, Ranks DEF FCVInv, featureCompatibilityVersion
    <3>2. CASE spec.fcv = Unset /\ config.members # <<>> /\ spec.version > config.fcv
      BY <3>2, Ranks DEF FCVInv, FCVSupported, featureCompatibilityVersion
    <3>3. CASE spec.fcv = Unset /\ config.members # <<>> /\ ~(spec.version > config.fcv)
      <4>1. fcv = spec.version
        BY <3>3 DEF featureCompatibilityVersion
      <4>2. spec.version <= config.fcv
        BY <3>3, Ranks
      <4>3. QED
        BY <4>1, <4>2, Ranks DEF FCVInv, FCVSupported
    <3>4. CASE spec.fcv = Unset /\ config.members = <<>>
      BY <3>4, Ranks DEF OutcomeInv, featureCompatibilityVersion
    <3>5. QED
      BY <3>1, <3>2, <3>3, <3>4
  <2>2. config'.fcv = fcv /\ running' = running \cup {spec.version} /\ UNCHANGED spec
    BY <1>1 DEF Built
  <2> HIDE DEF fcv
  <2>3. QED
    BY <2>1, <2>2 DEF FCVInv, FCVSupported
<1>2. CASE NotBuilt
  BY <1>2 DEF NotBuilt, FCVInv, FCVSupported
<1>3. CASE Record
  <2>1. config.version \in running
    BY <1>3 DEF Record, OutcomeInv
  <2>2. QED
    BY <1>3, <2>1 DEF Record, FCVInv, FCVSupported
<1>4. CASE EditSpec
  <2>1. UNCHANGED <<config, running>>
    BY <1>4 DEF EditSpec
  <2>2. CASE \E n \in 1..MaxMembers, a \in 0..MaxMembers :
               spec' = [spec EXCEPT !.members = n, !.arbiters = a]
    <3>1. spec'.version = spec.version /\ spec'.fcv = spec.fcv
      BY <2>2 DEF TypeOK
    <3>2. QED
      BY <2>1, <3>1 DEF FCVInv, FCVSupported
  <2>3. CASE \E v \in Version : v >= spec.fcv /\ spec' = [spec EXCEPT !.version = v]
    <3>1. PICK v \in Version : v >= spec.fcv /\ spec' = [spec EXCEPT !.version = v]
      BY <2>3
    <3>2. spec'.version = v /\ spec'.fcv = spec.fcv /\ v \in Nat
      BY <3>1, ReleasesAssumption DEF TypeOK, Version
    <3>3. QED
      BY <2>1, <3>1, <3>2, Ranks DEF FCVInv, FCVSupported
  <2>4. CASE \E f \in Releases \cup {Unset} :
               /\ f <= spec.version /\ (f # Unset => Settled)
               /\ spec' = [spec EXCEPT !.fcv = f]
    <3> PICK f \in Releases \cup {Unset} :
          /\ f <= spec.version /\ (f # Unset => Settled)
          /\ spec' = [spec EXCEPT !.fcv = f]
      BY <2>4
    <3>1. spec'.version = spec.version /\ spec'.fcv = f
      BY DEF TypeOK
    <3>2. \A w \in running : w # Unparsable => f <= w
      <4>1. CASE f = Unset
        BY <4>1, Ranks
      <4>2. CASE f # Unset
        <5>1. running = {spec.version}
          BY <4>2 DEF Settled, OutcomeInv
        <5>2. QED
          BY <5>1
      <4>3. QED
        BY <4>1, <4>2
    <3>3. QED
      BY <2>1, <3>1, <3>2 DEF FCVInv, FCVSupported
  <2>5. QED
    BY <1>4, <2>2, <2>3, <2>4 DEF EditSpec
<1>5. CASE UNCHANGED vars
  BY <1>5 DEF vars, FCVInv, FCVSupported
<1>6. QED
  BY <1>1, <1>2, <1>3, <1>4, <1>5, BuildOutcomes DEF Next

\* The invariant holds initially and in every step, for any bound.
LEMMA Inductive == Spec => [](TypeOK /\ OutcomeInv /\ FCVInv)
<1>1. Init => TypeOK /\ OutcomeInv /\ FCVInv
  <2> SUFFICES ASSUME Init PROVE FCVInv
    BY TypeInit
  <2>1. running = {} /\ spec.fcv = 0
    BY DEF Init, Unset
  <2>2. spec.version \in Nat
    BY TypeInit, Ranks
  <2>3. QED
    BY <2>1, <2>2 DEF FCVInv, FCVSupported
<1>2. QED
  BY <1>1, TypeNext, FCVNext, PTL DEF Spec

\* Every config the builder publishes and every size the status records has its
\* type: members are numbered without a gap, up to the largest size.
THEOREM TypeCorrect == Spec => []TypeOK
<1>1. QED
  BY Inductive, PTL

\* The FCV of the published config is one that all running versions support,
\* after any upgrades, downgrades and settings (featureCompatibilityVersion).
THEOREM FCVAlwaysSupported == Spec => []FCVSupported
<1>1. FCVInv => FCVSupported
  BY DEF FCVInv
<1>2. QED
  BY <1>1, Inductive, PTL

-----------------------------------------------------------------------------
(* Votes and arbiters.  What the recursive count of the votes computes is    *)
(* shown by induction: a set of positions where it is wrong has a least one. *)

\* The votes before member i, in closed form.
votesBefore(i) == IF i <= maxVotingMembers + 1 THEN i - 1 ELSE maxVotingMembers + 1

\* The recursion in totalVotes has a solution, so the count satisfies it.
LEMMA VotesEquation ==
  ASSUME NEW i \in Nat \ {0}
  PROVE  \E sum : /\ totalVotes(i) = sum[i]
                  /\ sum = [j \in 1..i |->
                             IF j = 1 THEN 0
                             ELSE sum[j - 1] + newReplicaSetMember(sum[j - 1], 0).votes]
<1> DEFINE Eq(g) == g = [j \in 1..i |->
                           IF j = 1 THEN 0
                           ELSE g[j - 1] + newReplicaSetMember(g[j - 1], 0).votes]
           count == [j \in 1..i |-> votesBefore(j)]
           sum == CHOOSE g : Eq(g)
<1>1. Eq(count)
  BY DEF newReplicaSetMember, maxVotingMembers, votesBefore
<1>2. Eq(sum)
  BY <1>1
<1>3. totalVotes(i) = sum[i]
  BY DEF totalVotes
<1>4. QED
  BY <1>2, <1>3

\* A non-empty set of numbers has a least element.
LEMMA LeastElement ==
  ASSUME NEW S \in SUBSET Nat, S # {}
  PROVE  \E x \in S : \A y \in S : ~(y < x)
<1>1. IsWellFoundedOn(OpToRel(<, Nat), Nat)
  BY NatLessThanWellFounded
<1>2. PICK x \in S : \A y \in S : <<y, x>> \notin OpToRel(<, Nat)
  BY <1>1, WFMin
<1>3. QED
  BY <1>2 DEF OpToRel

\* The first eight members find as many votes before them as there are members;
\* the others find eight.
LEMMA VotesCounted ==
  ASSUME NEW i \in Nat \ {0}
  PROVE  totalVotes(i) = votesBefore(i)
<1>1. PICK sum : /\ totalVotes(i) = sum[i]
                 /\ sum = [j \in 1..i |->
                            IF j = 1 THEN 0
                            ELSE sum[j - 1] + newReplicaSetMember(sum[j - 1], 0).votes]
  BY VotesEquation
<1> DEFINE wrong == {j \in 1..i : sum[j] # votesBefore(j)}
<1>2. ASSUME wrong # {} PROVE FALSE
  <2>1. PICK x \in wrong : \A y \in wrong : ~(y < x)
    <3>1. wrong \in SUBSET Nat
      OBVIOUS
    <3> HIDE DEF wrong
    <3>2. QED
      BY <1>2, <3>1, LeastElement
  <2>2. x \in 1..i /\ sum[x] # votesBefore(x)
    OBVIOUS
  <2>3. x # 1
    <3>1. 1 \in 1..i => sum[1] = 0
      BY <1>1
    <3>2. QED
      BY <2>2, <3>1 DEF votesBefore, maxVotingMembers
  <2>4. x - 1 \in 1..i /\ x - 1 \notin wrong
    BY <2>1, <2>2, <2>3
  <2>5. sum[x - 1] = votesBefore(x - 1)
    BY <2>4
  <2>6. sum[x] = sum[x - 1] + newReplicaSetMember(sum[x - 1], 0).votes
    BY <1>1, <2>2, <2>3
  <2>7. newReplicaSetMember(sum[x - 1], 0).votes
          = IF sum[x - 1] > maxVotingMembers THEN 0 ELSE 1
    BY DEF newReplicaSetMember
  <2> HIDE DEF wrong
  <2>8. QED
    BY <2>2, <2>3, <2>5, <2>6, <2>7 DEF votesBefore, maxVotingMembers
<1>3. i \notin wrong /\ i \in 1..i
  BY <1>2
<1>4. QED
  BY <1>1, <1>3

\* The votes and arbiters of the members of a config.
LEMMA MembersBuilt ==
  ASSUME NEW n \in Nat, NEW a \in Nat, NEW i \in 1..n
  PROVE  LET m == newReplicaSetMember(totalVotes(i), a)
         IN  /\ m.votes = IF i <= maxVotingMembers + 1 THEN 1 ELSE 0
             /\ m.arbiterOnly = (votesBefore(i) < a)
<1> DEFINE m == newReplicaSetMember(totalVotes(i), a)
<1>1. totalVotes(i) = votesBefore(i)
  BY VotesCounted
<1>2. m.votes = IF votesBefore(i) > maxVotingMembers THEN 0 ELSE 1
  BY <1>1 DEF newReplicaSetMember
<1>3. m.votes = IF i <= maxVotingMembers + 1 THEN 1 ELSE 0
  BY <1>2 DEF votesBefore, maxVotingMembers
<1>4. m.arbiterOnly = (votesBefore(i) < a)
  BY <1>1 DEF newReplicaSetMember
<1>5. QED
  BY <1>3, <1>4

\* A config has at most one member more than are recorded, once some are.
SizeInv ==
  current # 0 => \E n \in Nat : DOMAIN config.members = 1..n /\ n <= current + 1

\* Every step keeps the size of the config near the recorded one.
LEMMA SizeNext == TypeOK /\ SizeInv /\ [Next]_vars => SizeInv'
<1> SUFFICES ASSUME TypeOK, SizeInv, [Next]_vars PROVE SizeInv'
  OBVIOUS
<1>1. CASE Built
  <2>1. DOMAIN config'.members = 1..membersThisReconciliation /\ UNCHANGED current
    BY <1>1 DEF Built
  <2>2. /\ membersThisReconciliation \in Nat
        /\ current # 0 => membersThisReconciliation <= current + 1
    <3>1. spec.members \in 1..MaxMembers /\ current \in 0..MaxMembers
      BY DEF TypeOK
    <3>2. QED
      BY <3>1, MembersAssumption
      DEF membersThisReconciliation, ReplicasThisReconciliation, IsScalingDown
  <2>3. QED
    BY <2>1, <2>2 DEF SizeInv
<1>2. CASE Record
  <2>1. PICK n \in 0..MaxMembers : DOMAIN config.members = 1..n
    BY DEF TypeOK
  <2>2. Cardinality(1..n) = n
    BY <2>1, MembersAssumption, FS_Interval
  <2>3. UNCHANGED config /\ (current' = n \/ UNCHANGED current)
    BY <1>2, <2>1, <2>2 DEF Record
  <2>4. QED
    BY <2>1, <2>3, MembersAssumption DEF SizeInv
<1>3. CASE UNCHANGED <<config, current>>
  BY <1>3 DEF SizeInv
<1>4. QED
  BY <1>1, <1>2, <1>3, BuildOutcomes DEF Next, NotBuilt, EditSpec, vars

\* A validated spec with fewer arbiters than the config before has members, or
\* without one, has fewer than this reconciliation has members.  Only a size that
\* grows could be too small, and it is that of the last config at least.
LEMMA ArbitersFit ==
  ASSUME TypeOK, SizeInv, validateArbiterSpec,
         config.members = <<>> \/ spec.arbiters < Cardinality(DOMAIN config.members)
  PROVE  spec.arbiters < membersThisReconciliation
<1>1. /\ spec.members \in 1..MaxMembers /\ current \in 0..MaxMembers
      /\ spec.arbiters \in 0..MaxMembers
  BY DEF TypeOK
<1>2. CASE current = 0
  BY <1>1, <1>2, MembersAssumption
  DEF validateArbiterSpec, membersThisReconciliation, ReplicasThisReconciliation, IsScalingDown
<1>3. CASE current # 0
  <2>1. PICK n \in Nat : DOMAIN config.members = 1..n /\ n <= current + 1
    BY <1>3 DEF SizeInv
  <2>2. Cardinality(1..n) = n
    BY <2>1, FS_Interval
  <2>3. config.members # <<>>
    BY <1>3 DEF TypeOK
  <2>4. spec.arbiters < n
    BY <2>1, <2>2, <2>3
  <2>5. QED
    BY <1>1, <1>3, <2>1, <2>4, MembersAssumption
    DEF validateArbiterSpec, membersThisReconciliation, ReplicasThisReconciliation, IsScalingDown
<1>4. QED
  BY <1>2, <1>3

\* Such a config has a voter that is no arbiter: the first member after them.
LEMMA DataBearingBuilt ==
  ASSUME TypeOK, Built, spec.arbiters <= maxVotingMembers,
         spec.arbiters < membersThisReconciliation
  PROVE  DataBearingVoter'
<1> DEFINE n == membersThisReconciliation
           i == spec.arbiters + 1
<1>1. n \in 1..MaxMembers /\ spec.arbiters \in Nat /\ spec.arbiters < n
  BY SizeType DEF TypeOK
<1>2. n \in Nat /\ i \in 1..n /\ i <= maxVotingMembers + 1
  BY <1>1, MembersAssumption DEF maxVotingMembers
<1>3. config'.members = [j \in 1..n |-> newReplicaSetMember(totalVotes(j), spec.arbiters)]
  BY DEF Built
<1> HIDE DEF n
<1>4. config'.members[i] = newReplicaSetMember(totalVotes(i), spec.arbiters)
  BY <1>2, <1>3
<1>5. config'.members[i].votes = 1 /\ ~config'.members[i].arbiterOnly
  <2>1. votesBefore(i) = spec.arbiters
    BY <1>1, <1>2 DEF votesBefore, maxVotingMembers
  <2>2. /\ newReplicaSetMember(totalVotes(i), spec.arbiters).votes = 1
        /\ newReplicaSetMember(totalVotes(i), spec.arbiters).arbiterOnly
             = (votesBefore(i) < spec.arbiters)
    BY <1>1, <1>2, MembersBuilt
  <2>3. ~(votesBefore(i) < spec.arbiters)
    BY <1>1, <2>1
  <2>4. QED
    BY <1>4, <2>2, <2>3
<1>6. i \in Voters'
  BY <1>2, <1>3, <1>5 DEF Voters
<1>7. QED
  BY <1>5, <1>6 DEF DataBearingVoter

\* For any numbers of members and arbiters and any edits: a config without a
\* voting member that bears data is built only for as many arbiters as the config
\* before has members, or for more than maxVotingMembers (validateArbiterSpec,
\* newReplicaSetMember).
THEOREM DataBearingAlways == Spec => DataBearingKept
<1> DEFINE A == /\ config' # config /\ spec.arbiters <= maxVotingMembers
                /\ config.members = <<>> \/ spec.arbiters < Cardinality(DOMAIN config.members)
                => DataBearingVoter'
<1>1. Init => SizeInv
  BY DEF Init, SizeInv
<1>2. TypeOK /\ SizeInv /\ [Next]_vars => [A]_vars
  <2> SUFFICES ASSUME TypeOK, SizeInv, Next, config' # config,
                      spec.arbiters <= maxVotingMembers,
                      config.members = <<>> \/ spec.arbiters < Cardinality(DOMAIN config.members)
               PROVE  DataBearingVoter'
    BY DEF vars
  <2>1. Built
    BY BuildOutcomes DEF Next, NotBuilt, Record, EditSpec
  <2>2. spec.arbiters < membersThisReconciliation
    BY <2>1, ArbitersFit DEF Built
  <2>3. QED
    BY <2>1, <2>2, DataBearingBuilt
<1>3. QED
  BY <1>1, <1>2, Inductive, SizeNext, PTL DEF Spec, DataBearingKept

\* The voters of a config are its first eight members.
FirstVote == Voters = {i \in DOMAIN config.members : i <= maxVotingMembers + 1}

\* Of however many members, the first eight vote and the others do not: one more
\* than maxVotingMembers (newReplicaSetMember compares the votes so far with >).
THEOREM FirstEightVote == Spec => []FirstVote
<1>1. Init => FirstVote
  <2> SUFFICES ASSUME Init PROVE DOMAIN config.members = {}
    BY DEF FirstVote, Voters
  <2>1. config.members = <<>>
    BY DEF Init, NoConfig
  <2>2. QED
    BY <2>1
<1>2. TypeOK /\ FirstVote /\ [Next]_vars => FirstVote'
  <2> SUFFICES ASSUME TypeOK, FirstVote, [Next]_vars PROVE FirstVote'
    OBVIOUS
  <2>1. CASE Built
    <3> DEFINE n == membersThisReconciliation
               ms == [j \in 1..n |-> newReplicaSetMember(totalVotes(j), spec.arbiters)]
    <3>1. n \in Nat /\ spec.arbiters \in Nat
      BY SizeType, MembersAssumption DEF TypeOK
    <3>2. \A j \in 1..n : ms[j].votes = IF j <= maxVotingMembers + 1 THEN 1 ELSE 0
      BY <3>1, MembersBuilt
    <3>3. config'.members = ms /\ DOMAIN ms = 1..n
      BY <2>1 DEF Built
    <3> HIDE DEF n, ms
    <3>4. QED
      BY <3>2, <3>3 DEF FirstVote, Voters
  <2>2. CASE UNCHANGED config
    BY <2>2 DEF FirstVote, Voters
  <2>3. QED
    BY <2>1, <2>2, BuildOutcomes DEF Next, NotBuilt, Record, EditSpec, vars
<1>3. QED
  BY <1>1, <1>2, Inductive, PTL DEF Spec
=============================================================================
