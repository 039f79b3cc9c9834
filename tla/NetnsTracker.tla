---------------------------- MODULE NetnsTracker ----------------------------
(***************************************************************************)
(* The process-wide netnsAttackTracker of extcontainer/netns_dedup.go: for *)
(* every network namespace under attack, how many executions claim it and  *)
(* with which (normalized) options.  The containers of a Kubernetes pod    *)
(* share one network namespace, so several executions meet in one entry.   *)
(*                                                                         *)
(* The module has the tracker's state, its initial value and one action    *)
(* per outcome of claimNetnsForAttack and of releaseNetnsForAttack.  Each  *)
(* action is atomic: the code holds the tracker's mutex for all of it.     *)
(***************************************************************************)
EXTENDS Naturals

CONSTANTS
  Netns,        \* the network namespaces, identified by inode or path
  NoNetns,      \* the empty id: the target reported no network namespace
  Attacks,      \* what the options ask netfault to install
  Experiments,  \* values of ExperimentExecutionId
  Exec,         \* values of TargetExecutionId, one per container attacked
  NoEntry       \* "the map has no such key"

VARIABLE active \* netnsAttackTracker.active

-----------------------------------------------------------------------------
(***************************************************************************)
(* state.NetworkOpts, the serialized options: the attack and the execution *)
(* context that mapToExecutionContext puts next to it.                     *)
(***************************************************************************)
RawOpts == [attack : Attacks, experiment : Experiments, target : Exec]

NormalizedOpts == [attack : Attacks, experiment : Experiments]

\* A bug: the experiment is stripped, too.
stripsTheExperiment(raw) ==
  [attack |-> raw.attack, experiment |-> CHOOSE x \in Experiments : TRUE]

\* normalizeOptsForDedup drops the per-target nonce and nothing else.
normalizeOptsForDedup(raw) ==
  [attack |-> raw.attack, experiment |-> raw.experiment]

Entry == [count : Nat \ {0}, opts : NormalizedOpts]

ASSUME TrackerAssumption ==
  /\ NoNetns \notin Netns
  /\ NoEntry \notin Entry \cup NormalizedOpts

TrackerTypeOK == active \in [Netns -> Entry \cup {NoEntry}]

TrackerInit == active = [n \in Netns |-> NoEntry]

\* The map lookup; the empty id is never a key.
Claimed(id) == id \in Netns /\ active[id] # NoEntry

-----------------------------------------------------------------------------
(***************************************************************************)
(* The outcomes of claimNetnsForAttack(id, opts).  The empty id is always  *)
(* primary and never enters the map.                                       *)
(***************************************************************************)
ClaimPrimary(id, opts) ==
  /\ ~Claimed(id)
  /\ active' = [n \in Netns |->
                  IF n = id
                  THEN [count |-> 1, opts |-> normalizeOptsForDedup(opts)]
                  ELSE active[n]]

\* A bug: whatever attacks the namespace already, the newcomer is a shadow.
ShadowOfAnything(id, opts) ==
  /\ Claimed(id)
  /\ active' = [active EXCEPT ![id].count = @ + 1]

ClaimShadow(id, opts) ==
  /\ Claimed(id)
  /\ active[id].opts = normalizeOptsForDedup(opts)
  /\ active' = [active EXCEPT ![id].count = @ + 1]

ClaimPassthrough(id, opts) ==
  /\ Claimed(id)
  /\ active[id].opts # normalizeOptsForDedup(opts)
  /\ UNCHANGED active

(***************************************************************************)
(* releaseNetnsForAttack(id): no effect on the empty id or an absent key;  *)
(* the last claim deletes the key, any other decrements its count.         *)
(***************************************************************************)
\* Bugs: off by one, and a key deleted with the first release.
LastClaimOffByOne(id) == active[id].count < 1

AnyClaimIsLast(id) == TRUE

LastClaim(id) == active[id].count <= 1

releaseNetnsForAttack(id) ==
  \/ /\ ~Claimed(id)
     /\ UNCHANGED active
  \/ /\ Claimed(id)
     /\ LastClaim(id)
     /\ active' = [active EXCEPT ![id] = NoEntry]
  \/ /\ Claimed(id)
     /\ ~LastClaim(id)
     /\ active' = [active EXCEPT ![id].count = @ - 1]
=============================================================================
