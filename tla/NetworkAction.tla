---------------------------- MODULE NetworkAction ---------------------------
(***************************************************************************)
(* The network attacks of extcontainer/action_network.go: Prepare, Start   *)
(* and Stop of one execution per targeted container, running against the   *)
(* shared NetnsTracker and the shared network namespaces.                  *)
(*                                                                         *)
(* The SDK runs every call in a goroutine of its own, so the calls of      *)
(* different executions interleave.  Inside a call the shared state is     *)
(* touched at three places only: the claim, netfault.Apply/Revert, and the *)
(* release.  Each is a step of its own here; pc tells between which two of *)
(* them an execution is.  The calls of ONE execution come one after the    *)
(* other; the platform calls Stop for everything it has prepared, also     *)
(* when Start answered with an error.                                      *)
(*                                                                         *)
(* netfault is external.  It is modelled by what the code says of it: it   *)
(* installs an attack in a namespace, fails when the same attack is there  *)
(* already, may fail for reasons of its own (among them a conflict with a  *)
(* different attack), and reverts an attack whoever installed it.          *)
(***************************************************************************)
EXTENDS NetnsTracker, FiniteSets

CONSTANTS
  HostNetns,            \* the namespace behind /proc/1/ns/net
  DisallowHostNetwork   \* config.Config.DisallowHostNetwork

ASSUME NetworkAssumption ==
  /\ HostNetns \in Netns
  /\ DisallowHostNetwork \in BOOLEAN
  /\ IsFiniteSet(Exec)

VARIABLES
  request,      \* what each execution will be asked to do, and where
  pc,           \* where each execution is
  isShadow,     \* NetworkActionState.IsShadow
  netnsClaimed, \* NetworkActionState.NetnsClaimed
  stopError,    \* Stop answered with an error
  rules,        \* the attacks installed in each namespace
  alive         \* the namespaces that still exist

flags == <<isShadow, netnsClaimed, stopError>>
vars == <<active, request, pc, flags, rules, alive>>

-----------------------------------------------------------------------------
\* What netNsID may return for a target.
Targets == Netns \cup {NoNetns}

Request == [netns : Targets, attack : Attacks, experiment : Experiments,
            failOnHostNetwork : BOOLEAN]

PC == {"idle",      \* nothing was called yet
       "refused",   \* Prepare answered with an error
       "prepared",
       "applying",  \* in Start, between the claim and netfault's answer
       "started",
       "failed",    \* Start answered without having applied the attack
       "reverting", \* in Stop, before netfault.Revert
       "releasing", \* in Stop, before the deferred release
       "stopped"}

TypeOK ==
  /\ TrackerTypeOK
  /\ request \in [Exec -> Request]
  /\ pc \in [Exec -> PC]
  /\ isShadow \in [Exec -> BOOLEAN]
  /\ netnsClaimed \in [Exec -> BOOLEAN]
  /\ stopError \in [Exec -> BOOLEAN]
  /\ rules \in [Targets -> SUBSET Attacks]
  /\ alive \in [Targets -> BOOLEAN]

Init ==
  /\ TrackerInit
  /\ request \in [Exec -> Request]
  /\ pc = [e \in Exec |-> "idle"]
  /\ isShadow = [e \in Exec |-> FALSE]
  /\ netnsClaimed = [e \in Exec |-> FALSE]
  /\ stopError = [e \in Exec |-> FALSE]
  /\ rules = [t \in Targets |-> {}]
  /\ alive = [t \in Targets |-> TRUE]

-----------------------------------------------------------------------------
target(e) == request[e].netns

attack(e) == request[e].attack

\* state.NetworkOpts, with the nonce of mapToExecutionContext.
NetworkOpts(e) == [attack |-> attack(e), experiment |-> request[e].experiment,
                   target |-> e]

\* A target without a network namespace of its own counts as host network.
isUsingHostNetwork(t) == t = HostNetns \/ t = NoNetns

Installed(e) == attack(e) \in rules[target(e)]

Goto(e, from, to) == pc[e] = from /\ pc' = [pc EXCEPT ![e] = to]

-----------------------------------------------------------------------------
(***************************************************************************)
(* Prepare changes nothing but the execution's own state.  Besides the     *)
(* host network it refuses for many reasons: no such container, options    *)
(* that do not parse, netfault's preflight check.                          *)
(***************************************************************************)
\* A bug: only the administrator's setting is looked at.
IgnoresFailOnHostNetwork(e) ==
  isUsingHostNetwork(target(e)) => ~DisallowHostNetwork

MayAttack(e) ==
  isUsingHostNetwork(target(e)) =>
    ~DisallowHostNetwork /\ ~request[e].failOnHostNetwork

Prepare(e) ==
  /\ Goto(e, "idle", "prepared")
  /\ alive[target(e)]
  /\ MayAttack(e)
  /\ UNCHANGED <<active, request, flags, rules, alive>>

PrepareRefused(e) ==
  /\ Goto(e, "idle", "refused")
  /\ UNCHANGED <<active, request, flags, rules, alive>>

-----------------------------------------------------------------------------
(***************************************************************************)
(* Start: decode the options, claim the namespace, apply.                  *)
(***************************************************************************)
StartUndecodable(e) ==
  /\ Goto(e, "prepared", "failed")
  /\ UNCHANGED <<active, request, flags, rules, alive>>

StartAsShadow(e) ==
  /\ Goto(e, "prepared", "started")
  /\ ClaimShadow(target(e), NetworkOpts(e))
  /\ isShadow' = [isShadow EXCEPT ![e] = TRUE]
  /\ netnsClaimed' = [netnsClaimed EXCEPT ![e] = TRUE]
  /\ UNCHANGED <<request, stopError, rules, alive>>

StartAsPrimary(e) ==
  /\ Goto(e, "prepared", "applying")
  /\ ClaimPrimary(target(e), NetworkOpts(e))
  /\ netnsClaimed' = [netnsClaimed EXCEPT ![e] = TRUE]
  /\ UNCHANGED <<request, isShadow, stopError, rules, alive>>

StartAsPassthrough(e) ==
  /\ Goto(e, "prepared", "applying")
  /\ ClaimPassthrough(target(e), NetworkOpts(e))
  /\ UNCHANGED <<request, flags, rules, alive>>

\* external: the same attack cannot be installed twice in a namespace
NetfaultAccepts(e) == alive[target(e)] /\ ~Installed(e)

ApplySucceeds(e) ==
  /\ Goto(e, "applying", "started")
  /\ NetfaultAccepts(e)
  /\ rules' = [rules EXCEPT ![target(e)] = @ \cup {attack(e)}]
  /\ UNCHANGED <<active, request, flags, alive>>

\* Bugs: no release after an error, and a release of a claim never taken.
ReleaseUnlessError(e) ==
  \/ netnsClaimed[e] /\ ~stopError[e] /\ releaseNetnsForAttack(target(e))
  \/ (netnsClaimed[e] => stopError[e]) /\ UNCHANGED active

ReleaseAlways(e) == releaseNetnsForAttack(target(e))

\* The release of e's claim, when e has one.
ReleaseClaim(e) ==
  \/ netnsClaimed[e] /\ releaseNetnsForAttack(target(e))
  \/ ~netnsClaimed[e] /\ UNCHANGED active

(***************************************************************************)
(* Also the "too many tc commands" case, which answers with a message in   *)
(* place of an error.  The failed Apply changed nothing another execution  *)
(* can see, so it is one step with the release after it.                   *)
(***************************************************************************)
ApplyFails(e) ==
  /\ Goto(e, "applying", "failed")
  /\ ReleaseClaim(e)
  /\ netnsClaimed' = [netnsClaimed EXCEPT ![e] = FALSE]
  /\ UNCHANGED <<request, isShadow, stopError, rules, alive>>

-----------------------------------------------------------------------------
(***************************************************************************)
(* Stop, with the return values of its early exits.  Every exit runs the   *)
(* deferred release.                                                       *)
(***************************************************************************)
Stoppable == {"prepared", "started", "failed"}

BeginStop(e, to) ==
  /\ pc[e] \in Stoppable
  /\ pc' = [pc EXCEPT ![e] = to]

\* Bugs: a shadow reverts, too; only the last to leave reverts; the decision
\* is left to the tracker.
AlwaysRevert(e) == TRUE

LastReverts(e) == ~isShadow[e] /\ (Claimed(target(e)) => LastClaim(target(e)))

RevertIfTracked(e) == ~isShadow[e] /\ (netnsClaimed[e] => Claimed(target(e)))

MustRevert(e) == ~isShadow[e]

StopShadow(e) ==
  /\ BeginStop(e, "releasing")
  /\ ~MustRevert(e)
  /\ stopError' = [stopError EXCEPT ![e] = FALSE]
  /\ UNCHANGED <<active, request, isShadow, netnsClaimed, rules, alive>>

StopUndecodable(e) ==
  /\ BeginStop(e, "releasing")
  /\ MustRevert(e)
  /\ stopError' = [stopError EXCEPT ![e] = TRUE]
  /\ UNCHANGED <<active, request, isShadow, netnsClaimed, rules, alive>>

NamespacesExists(e) == alive[target(e)]

StopNetnsGone(e) ==
  /\ BeginStop(e, "releasing")
  /\ MustRevert(e)
  /\ ~NamespacesExists(e)
  /\ stopError' = [stopError EXCEPT ![e] = FALSE]
  /\ UNCHANGED <<active, request, isShadow, netnsClaimed, rules, alive>>

StopReverts(e) ==
  /\ BeginStop(e, "reverting")
  /\ MustRevert(e)
  /\ NamespacesExists(e)
  /\ UNCHANGED <<active, request, flags, rules, alive>>

RevertSucceeds(e) ==
  /\ Goto(e, "reverting", "releasing")
  /\ rules' = [rules EXCEPT ![target(e)] = @ \ {attack(e)}]
  /\ stopError' = [stopError EXCEPT ![e] = FALSE]
  /\ UNCHANGED <<active, request, isShadow, netnsClaimed, alive>>

RevertFails(e) ==
  /\ Goto(e, "reverting", "releasing")
  /\ stopError' = [stopError EXCEPT ![e] = TRUE]
  /\ UNCHANGED <<active, request, isShadow, netnsClaimed, rules, alive>>

DeferredRelease(e) ==
  /\ Goto(e, "releasing", "stopped")
  /\ ReleaseClaim(e)
  /\ UNCHANGED <<request, flags, rules, alive>>

-----------------------------------------------------------------------------
\* external: the pod is deleted, and its namespace with everything in it
NetnsGone(n) ==
  /\ alive[n]
  /\ n # HostNetns
  /\ alive' = [alive EXCEPT ![n] = FALSE]
  /\ rules' = [rules EXCEPT ![n] = {}]
  /\ UNCHANGED <<active, request, pc, flags>>

Apply(e) == ApplySucceeds(e) \/ ApplyFails(e)

Start(e) == StartUndecodable(e) \/ StartAsShadow(e) \/ StartAsPrimary(e)
            \/ StartAsPassthrough(e)

Stop(e) == StopShadow(e) \/ StopUndecodable(e) \/ StopNetnsGone(e)
           \/ StopReverts(e)

Revert(e) == RevertSucceeds(e) \/ RevertFails(e)

Step(e) == \/ Prepare(e) \/ PrepareRefused(e)
           \/ Start(e) \/ Apply(e)
           \/ Stop(e) \/ Revert(e) \/ DeferredRelease(e)

\* Every execution is over.
Terminating ==
  /\ \A e \in Exec : pc[e] \in {"refused", "stopped"}
  /\ UNCHANGED vars

Next == \/ \E e \in Exec : Step(e)
        \/ \E n \in Netns : NetnsGone(n)
        \/ Terminating

(***************************************************************************)
(* A goroutine that runs a handler gets to its end, netfault answers, and  *)
(* the platform calls Stop for what it has started.                        *)
(***************************************************************************)
Fairness == \A e \in Exec : /\ WF_vars(Apply(e))
                            /\ WF_vars(Stop(e))
                            /\ WF_vars(Revert(e))
                            /\ WF_vars(DeferredRelease(e))

Spec == Init /\ [][Next]_vars

FairSpec == Spec /\ Fairness

-----------------------------------------------------------------------------
(***************************************************************************)
(* Properties.                                                             *)
(***************************************************************************)

\* The executions that owe the tracker a release for n.
Holders(n) == {e \in Exec : /\ netnsClaimed[e]
                            /\ target(e) = n
                            /\ pc[e] # "stopped"}

\* e applied its attack itself and is not being stopped yet.
Running(e) == pc[e] = "started" /\ ~isShadow[e]

(***************************************************************************)
(* The count of a namespace is the number of executions that still have to *)
(* release it, and the entry is gone as soon as there is none: no path     *)
(* through Start and Stop leaks a claim or releases one twice              *)
(* (netns_dedup.go:57-60, action_network.go:63-69).                        *)
(***************************************************************************)
RefCount ==
  \A n \in Netns :
    /\ ~Claimed(n) => Holders(n) = {}
    /\ Claimed(n) => active[n].count = Cardinality(Holders(n))

(***************************************************************************)
(* All claims on a namespace are for one attack of one experiment, the one *)
(* the entry records: unrelated experiments are never folded into a pair   *)
(* (netns_dedup.go:76-82).                                                 *)
(***************************************************************************)
ClaimsAgree ==
  \A n \in Netns : \A e \in Holders(n) :
    active[n].opts = [attack |-> attack(e),
                      experiment |-> request[e].experiment]

(***************************************************************************)
(* At most one claim of a namespace is a primary's, from its Start until   *)
(* its Stop has reverted AND released: there is no moment between the two  *)
(* in which another Start could apply over rules still being removed.      *)
(***************************************************************************)
SinglePrimary ==
  \A n \in Netns : \A e, f \in Holders(n) :
    ~isShadow[e] /\ ~isShadow[f] => e = f

(***************************************************************************)
(* While an execution that applied its attack runs, the attack is in       *)
(* place: no shadow's Stop and no other claim holder's Stop tears it down  *)
(* (action_network.go:315-318).  The one exception is the Stop of an       *)
(* execution with the same attack that holds no claim, because it passed   *)
(* through, stopped without a Start, or gave its claim back after a failed *)
(* Apply; OnlyOwnersRevert is about those.  Without faults only: a lost    *)
(* answer takes a shadow's claim, too, see MCLostShadow.                   *)
(***************************************************************************)
RunningIntact ==
  \A e \in Exec : Running(e) /\ alive[target(e)] =>
    \/ Installed(e)
    \/ \E o \in Exec \ {e} : /\ target(o) = target(e)
                             /\ attack(o) = attack(e)
                             /\ ~netnsClaimed[o]
                             /\ pc[o] \in {"releasing", "stopped"}

(***************************************************************************)
(* No rule outlives its owners: an attack found in a namespace belongs to  *)
(* an execution that is no shadow and whose Stop is still to come, or has  *)
(* told the platform that it failed.                                       *)
(***************************************************************************)
RulesOwned ==
  \A t \in Targets : \A a \in rules[t] :
    \E e \in Exec : /\ target(e) = t
                    /\ attack(e) = a
                    /\ ~isShadow[e]
                    /\ pc[e] \in {"started", "reverting"} \/ stopError[e]

(***************************************************************************)
(* With DisallowHostNetwork no attack and no claim ever reaches the host's *)
(* namespace, nor a target that reported none; without it, none that asked *)
(* to fail there (action_network.go:170-188).                              *)
(***************************************************************************)
HostNetworkSpared ==
  \A t \in {HostNetns, NoNetns} :
    /\ DisallowHostNetwork => rules[t] = {} /\ Holders(t) = {}
    /\ \A e \in Holders(t) : ~request[e].failOnHostNetwork

(***************************************************************************)
(* A claimed namespace becomes free again, whatever fails on the way       *)
(* (action_network.go:67-69: a leaked claim would silently shadow every    *)
(* future Start on this netns).                                            *)
(***************************************************************************)
ClaimFreed == \A n \in Netns : Claimed(n) ~> ~Claimed(n)

(***************************************************************************)
(* The tracker as the executions use it implements the lease.              *)
(***************************************************************************)
LeaseWanted == [e \in Exec |-> normalizeOptsForDedup(NetworkOpts(e))]
LeasePrimaries == [n \in Netns |-> {e \in Holders(n) : ~isShadow[e]}]
LeaseShadows == [n \in Netns |-> {e \in Holders(n) : isShadow[e]}]
LeaseTerms == [n \in Netns |-> IF Claimed(n) THEN active[n].opts ELSE NoEntry]

Lease == INSTANCE NetnsLease WITH
  Terms <- NormalizedOpts,
  NoTerms <- NoEntry,
  wanted <- LeaseWanted,
  primaries <- LeasePrimaries,
  shadows <- LeaseShadows,
  terms <- LeaseTerms

ImplementsLease == Lease!LeaseSpec

-----------------------------------------------------------------------------
(***************************************************************************)
(* What the code says of itself and does not do.                           *)
(***************************************************************************)

(***************************************************************************)
(* A Start is skipped only when "a sibling container in the same pod is    *)
(* already running this attack" (action_network.go:260): some primary with *)
(* the same options still holds its claim.                                 *)
(***************************************************************************)
ShadowsFollowAPrimary ==
  [][\A e \in Exec :
       isShadow'[e] /\ ~isShadow[e] =>
         \E o \in Holders(target(e)) : ~isShadow[o]]_vars

(***************************************************************************)
(* "the primary reverts, shadows no-op" (action_network.go:57-58): a Stop  *)
(* tears down no attack that another, still running execution applied.     *)
(***************************************************************************)
OnlyOwnersRevert ==
  [][\A e, o \in Exec :
       Running(o) /\ Running(o)' /\ o # e /\ Installed(o) /\ pc[e] = "reverting" =>
         Installed(o)' \/ pc'[e] = "reverting"]_vars
=============================================================================
