----------------------- MODULE AutomationConfigBuilder -----------------------
(***************************************************************************)
(* What Builder.Build (pkg/automationconfig/automation_config_builder.go)  *)
(* puts into the automation config, reconciliation after reconciliation:   *)
(* the members with their votes and arbiters, the feature compatibility    *)
(* version (FCV) and the horizons.  Each config is built from the spec,    *)
(* the number of members of this reconciliation and the previous config,   *)
(* while the user goes on editing the spec.                                *)
(*                                                                         *)
(* Abstractions: a MongoDB version is the rank of its release (major and   *)
(* minor number), because patch numbers never change the FCV; Unparsable   *)
(* is a version that has no FCV.  One step publishes a config, another     *)
(* records its size once the deployment has reached it: the steps in       *)
(* between are those of ReplicaSetController.                              *)
(***************************************************************************)
EXTENDS Scale, FiniteSets

CONSTANTS
  MaxMembers,
  Releases,       \* ranks of the releases the user runs
  Unparsable,     \* rank of a version that has no FCV
  InitVersions,   \* versions at creation
  EditKinds, MaxEdits

ASSUME MembersAssumption == MaxMembers \in Nat \ {0}

ASSUME ReleasesAssumption ==
  /\ Releases \subseteq Nat \ {0} /\ Unparsable = 0
  /\ InitVersions \subseteq Releases \cup {Unparsable}
  /\ EditKinds \subseteq {"members", "version", "fcv"}
  /\ MaxEdits \in Nat

VARIABLES
  spec,      \* members, arbiters, version, FCV and horizons of the resource
  current,   \* status.currentMongoDBMembers
  config,    \* the last automation config
  outcome,   \* how the last reconciliation ended
  running,   \* versions that some member may still be running
  edited,    \* has the spec changed since the last reconciliation read it?
  edits

vars == <<spec, current, config, outcome, running, edited, edits>>

maxVotingMembers == 7
Unset == 0

Version == Releases \cup {Unparsable}
Member  == [votes : {0, 1}, arbiterOnly : BOOLEAN]
NoConfig == [members |-> <<>>, version |-> Unparsable, fcv |-> Unset]

\* The type invariant; members are numbered without a gap, and no size is
\* recorded before there is a config.
TypeOK ==
  /\ spec \in [members : 1..MaxMembers, arbiters : 0..MaxMembers, version : Version,
               fcv : Releases \cup {Unset}, horizons : BOOLEAN]
  /\ current \in 0..MaxMembers
  /\ DOMAIN config.members \in {1..n : n \in 0..MaxMembers}
  /\ \A i \in DOMAIN config.members : config.members[i] \in Member
  /\ config.members = <<>> => current = 0
  /\ config.version \in Version /\ config.fcv \in Releases \cup {Unset}
  /\ outcome \in {"none", "built", "recorded", "invalid", "failed", "panic"}
  /\ running \subseteq Version /\ edited \in BOOLEAN
  /\ edits \in Nat

-----------------------------------------------------------------------------
(* Build *)

\* A member with so many votes before it.
newReplicaSetMember(totalVotesSoFar, numberArbiters) ==
  [votes |-> IF totalVotesSoFar > maxVotingMembers THEN 0 ELSE 1,
   arbiterOnly |-> totalVotesSoFar < numberArbiters]

\* The votes of the members before member i.
totalVotes(i) ==
  LET sum[j \in 1..i] ==
        IF j = 1 THEN 0 ELSE sum[j - 1] + newReplicaSetMember(sum[j - 1], 0).votes
  IN  sum[i]

membersThisReconciliation == ReplicasThisReconciliation(current, spec.members)

\* Deliberately wrong: keeps the FCV whatever the new version is.
Faulty_FCVKept(version, fcv, prev) ==
  IF fcv # Unset THEN fcv ELSE IF prev.members # <<>> THEN prev.fcv ELSE version

\* The FCV of the processes: the one the spec sets, or else the previous one if
\* the version would raise it, or else the version's own
\* (setFeatureCompatibilityVersionIfUpgradeIsHappening and Build).
featureCompatibilityVersion(version, fcv, prev) ==
  IF fcv # Unset THEN fcv
  ELSE IF prev.members # <<>> /\ version > prev.fcv THEN prev.fcv
  ELSE version

\* The previous FCV or the version cannot be compared.
cannotCompareFCV ==
  /\ config.members # <<>> /\ spec.fcv = Unset
  /\ config.fcv = Unset \/ spec.version = Unparsable

\* Deliberately wrong: off by one.
Faulty_ArbitersUpTo == spec.arbiters <= spec.members

\* At least one member must not be an arbiter.
validateArbiterSpec == spec.arbiters < spec.members

\* The loop of Build indexes the horizons, of which the spec has one for each
\* of its members, by the members of this reconciliation.
horizonsTooShort == spec.horizons /\ spec.members < membersThisReconciliation

\* validateSpec, then Build and the update of the secret with its result.
Build ==
  /\ \/ /\ ~validateArbiterSpec
        /\ outcome' = "invalid" /\ UNCHANGED <<config, running>>
     \/ /\ validateArbiterSpec /\ cannotCompareFCV
        /\ outcome' = "failed" /\ UNCHANGED <<config, running>>
     \/ /\ validateArbiterSpec /\ ~cannotCompareFCV /\ horizonsTooShort
        /\ outcome' = "panic" /\ UNCHANGED <<config, running>>
     \/ /\ validateArbiterSpec /\ ~cannotCompareFCV /\ ~horizonsTooShort
        /\ config' = [members |-> [i \in 1..membersThisReconciliation |->
                                     newReplicaSetMember(totalVotes(i), spec.arbiters)],
                      version |-> spec.version,
                      fcv |-> featureCompatibilityVersion(spec.version, spec.fcv, config)]
        /\ outcome' = "built"
        /\ running' = running \cup {spec.version}
  /\ edited' = FALSE
  /\ UNCHANGED <<spec, current, edits>>

\* Deliberately wrong: records the desired size, whatever was published.
Faulty_RecordDesired ==
  /\ current' = spec.members /\ outcome' = "recorded"
  /\ running' = {config.version}
  /\ UNCHANGED <<spec, config, edited, edits>>

\* The end of a reconciliation: every member has reached the config and the size
\* is recorded in the status, unless this write conflicts with an edit.
Record ==
  /\ outcome = "built"
  /\ \/ ~edited /\ current' = Cardinality(DOMAIN config.members) /\ outcome' = "recorded"
     \/ edited /\ outcome' = "failed" /\ UNCHANGED current
  /\ running' = {config.version}
  /\ UNCHANGED <<spec, config, edited, edits>>

-----------------------------------------------------------------------------
(* The user *)

Settled ==
  /\ current = spec.members /\ config.version = spec.version /\ outcome = "recorded"

\* The members, of which the horizons are one each, and the arbiters change at any
\* time, alone or together, and so does the version; an FCV is set when every
\* member runs a version that has it.
EditSpec ==
  /\ edits < MaxEdits /\ edits' = edits + 1
  /\ \/ /\ "members" \in EditKinds
        /\ \E n \in 1..MaxMembers, a \in 0..MaxMembers :
             /\ <<n, a>> # <<spec.members, spec.arbiters>>
             /\ spec' = [spec EXCEPT !.members = n, !.arbiters = a]
     \/ /\ "version" \in EditKinds
        /\ \E v \in Version \ {spec.version} :
             v >= spec.fcv /\ spec' = [spec EXCEPT !.version = v]
     \/ /\ "fcv" \in EditKinds
        /\ \E f \in (Releases \cup {Unset}) \ {spec.fcv} :
             /\ f <= spec.version /\ (f # Unset => Settled)
             /\ spec' = [spec EXCEPT !.fcv = f]
  /\ edited' = TRUE
  /\ UNCHANGED <<current, config, outcome, running>>

Init ==
  /\ spec \in [members : 1..MaxMembers, arbiters : 0..MaxMembers, version : InitVersions,
               fcv : {Unset}, horizons : BOOLEAN]
  /\ current = 0 /\ config = NoConfig /\ outcome = "none"
  /\ running = {} /\ edited = FALSE /\ edits = 0

Next == Build \/ Record \/ EditSpec

Spec == Init /\ [][Next]_vars

-----------------------------------------------------------------------------
(* Properties *)

Voters == {i \in DOMAIN config.members : config.members[i].votes = 1}
DataBearingVoter == \E i \in Voters : ~config.members[i].arbiterOnly

\* The arbiters are validated against the desired size, and configs are built for
\* every size on the way.  They have a voting member that is no arbiter, whatever
\* is edited meanwhile, as long as there are fewer arbiters than the config before
\* has members, and than votes; a resource that gets as many arbiters at once as
\* it has members, together with more members, is not covered.
DataBearingKept ==
  [][/\ config' # config /\ spec.arbiters <= maxVotingMembers
     /\ config.members = <<>> \/ spec.arbiters < Cardinality(DOMAIN config.members)
     => DataBearingVoter']_vars

\* A replica set has at most seven voting members.
VoteLimit == Cardinality(Voters) <= maxVotingMembers

\* The FCV of the config is one that every binary still running supports, after
\* any sequence of upgrades, downgrades and explicit settings, also when a
\* version is replaced before it was rolled out.
FCVSupported == \A v \in running : v # Unparsable => config.fcv <= v

\* Building a config never reads past the end of the list of horizons.
NoPanic == outcome # "panic"
=============================================================================
