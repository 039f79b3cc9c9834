# TLA+ models of extension-container

extension-container attacks containers for the Steadybit platform: it shapes
their network, stops and pauses them, and stresses their CPU, IO, memory and
disks. The platform calls the HTTP endpoints Prepare, Start, Status and Stop
of an action, once per targeted container. An action keeps no state of its own
between calls if it can avoid it: the `...ActionState` struct of each action
is returned to the platform and comes back with the next call. What cannot
travel (running processes, channels, the claims on network namespaces) stays
in the memory of the extension and is lost when it restarts.

## Inventory

Paths are relative to `src/extcontainer/` unless they start with `src/`.

| component | state | operations | interacts with | hard behaviour | what makes it correct |
|---|---|---|---|---|---|
| netns attack tracker, `netns_dedup.go` | process-wide map: namespace -> count, normalized options; a mutex | claim, release | every network action | interleaved Starts and Stops of the containers of a pod; lost at a restart | the count is the number of executions that still release; only like attacks share a claim; one primary at a time; no leak |
| network action, `action_network.go` | `NetworkActionState`: options, target, `IsShadow`, `NetnsClaimed`, qdisc snapshot | Prepare, Start, Stop | tracker, netfault, OCI runtime | failures between claim and release; restarts; lost answers | running attacks stay in place; rules never outlive their owners; host network spared |
| network attacks, `action_network_*.go`, filters in `action_network.go` | none | options providers, filters, excludes | netfault, DNS | overlapping CIDRs and ports, fallbacks to "all", joined excludes | agent, extension and user excludes are spared; nothing but the request is affected |
| DNS error injection, `action_network_dns_error_injection.go` | a map of handles with a mutex, filled by Prepare | Prepare, Start, Status, Stop | dns-inject processes | Status and Stop look up and remove in two steps; restart; lost answers | no process without a handle, no handle for ever; an exit is told once and for all |
| stop container, `action_stop.go` | sync.Map of completers (channel, cancel function), one goroutine each | Prepare, Start, Status, Stop | runtime client | three readers of one channel; cancellation; restart | "stopped" is true; nothing is signalled after Stop; nobody hangs |
| pause, `action_pause.go` | none but the container's id in the action state | Prepare, Start, Status, Stop | runtime client | container gone in between, another execution on it, runtime away, lost answers | no container stays paused in silence; a pause lasts until somebody stops it |
| stress, `action_stress*.go`; fill memory, `action_fill_mem.go`; fill disk, `action_fill_disk.go` | sync.Map of sidecar processes | Prepare, Start, Status, Stop | OCI runtime, sidecar processes | exit of the process or the container, exit codes, Status against Stop, restart | unexpected exits are reported, Stop leaves no process |
| stress limits, `action_stress_limit_helpers.go` | none | workers and load from the CPU quota, bytes from the memory limit | stress | rounding, zero, no limit | the load asked for is the load produced |
| container target and discovery, `common.go`, `discovery*.go` | none | find the target, discover targets, filter | runtime client | disallowed namespaces read once | excluded containers are no targets |
| runtime clients, `container/{containerd,docker,crio}` | a connection | List, Info, Stop, Pause, Unpause | container runtime | grace period against exit, cancelled contexts | a stopped container has ended or has been sent SIGKILL |
| client selection and liveness, `container/container.go`, `container/types` | the answer of the liveness probe | select, ping | runtime | a runtime that goes away and comes back | the probe follows the runtime |
| configuration and start-up, `src/config`, `src/main.go` | environment, command line | parse | all | two sources of one setting | a disallowed namespace stays disallowed |
| packaging, `src/charts`, `src/linuxpkg`, `src/e2e` | | | | | |

`PROJECT.json` lists the same components with what is modelled of each, and
the hazards, each at its line.

## Modules

    NetnsTracker ── NetworkAction ── NetworkActionFaults ── NetworkActionFaultsProofs
                      │    │  └ Lease == INSTANCE NetnsLease
                      │    └ NetworkActionProofs ── NetworkActionRefinement
    ContainerdClient ── StopAction ── StopActionProofs
    RuntimeClient ── PauseAction ── PauseActionProofs
    SidecarAttack ── SidecarAttackProofs
    DnsErrorInjection ── DnsErrorInjectionProofs
    StressLimits, NetworkFilter, TargetFilter ── Preparation ── PreparationProofs

`MCNetworkAction` and `MCNetworkActionFaults` add symmetry sets and restricted
initial states for TLC, `MCLostShadow` a history variable.

### NetnsTracker

`active` is `netnsAttackTracker.active`; `NoEntry` is an absent key. There is
an action per outcome of `claimNetnsForAttack` (`ClaimPrimary`, `ClaimShadow`,
`ClaimPassthrough`) and one for `releaseNetnsForAttack`. Each is one atomic
step: the code holds the mutex for all of it. `NoNetns` is the empty id, which
is always primary and never enters the map. Serialized options are records of
what to attack, the experiment and the target execution;
`normalizeOptsForDedup` drops the last of them, which is all the JSON round
trip does to options that netfault serialized itself.

### NetworkAction

One execution per targeted container, each with its `request`. `pc` says where
the execution is; within Start and Stop it has a value between any two
accesses to shared state:

| step | code |
|---|---|
| `Prepare`, `PrepareRefused` | `Prepare`, with the host network check in `MayAttack` |
| `StartAsPrimary`, `StartAsShadow`, `StartAsPassthrough`, `StartUndecodable` | `Start` up to the claim |
| `ApplySucceeds`, `ApplyFails` | `netfault.Apply`, and the release after an error |
| `StopShadow`, `StopUndecodable`, `StopNetnsGone`, `StopReverts` | `Stop` up to its exits or to the revert |
| `RevertSucceeds`, `RevertFails` | `netfault.Revert` |
| `DeferredRelease` | the deferred release, run on every exit of `Stop` |

`rules` is what netfault has installed in each namespace and `alive` whether
the namespace exists; `NetnsGone` deletes one, as a deleted pod does. netfault
is external. The comments of the code say what is used of it: an attack that
is installed already is refused (`netns_dedup.go:73`), any Apply may fail,
also for a conflict, and Revert removes an attack whoever installed it.

The namespaces of the host and of targets without one are `HostNetns` and
`NoNetns`.

### NetnsLease

The promise of the tracker without its counters: a namespace is leased to at
most one primary and its shadows, all on the same terms; a new term starts
when everybody has left. `NetworkAction` implements it under the mapping
`Lease`: primaries and shadows are the executions that hold a claim, the terms
are the options in the entry.

### NetworkActionFaults

Adds what can happen between the calls: `Restart` empties the tracker and cuts
off the calls in progress, each before or after netfault did its work, and the
platform goes on with the state it has; `StopAgain` repeats a Stop;
`LoseStartResponse` loses the answer to a Start, so Stop comes with the state
of Prepare. `faults` counts the faults of each kind, `MaxFaults` bounds their
number. Which property survives depends on the kind. A restart or a repeated
Stop can make the count too low (a Stop releases what another Start has
claimed since), never too high: `NoLeak`. A lost answer can make it too high
(the claim is never released), never too low: `NoForeignRelease`. So lost
answers alone never make a namespace look free too early, and the claims still
held keep their terms and their one primary: `LossContained`. The rules are
not safe from lost answers: a shadow whose answer was lost comes to Stop with
`IsShadow` false and reverts the attack of the primary. `RunningIntact` is
therefore stated without faults only, and the run `NetworkLostShadow` shows
what happens; `MCLostShadow` adds the history of who was a shadow, which the
lost flag no longer tells.

### ContainerdClient and StopAction

`ContainerdClient` is `Stop` of the containerd client, call by call: load,
SIGTERM, wait for the exit or for the end of the grace period, SIGKILL. Each
call may fail, and does when the context was cancelled before it began; a
cancellation that comes later may be too late for the signal. Processes end
when they like.

`StopAction` is `action_stop.go` on top of it. The unbuffered channel is not a
variable: the goroutine is blocked in its send while it is `working` and its
call has `returned`, and the channel is closed when it has `ended`. Start,
Status and Stop receive with the same `Receive`. Status looks the completer up
in one step and at the channel in another, so a Stop may come in between.
`Restart` drops the map, the goroutines and the requests in progress.

### SidecarAttack

`action_stress.go`, `action_fill_mem.go` and `action_fill_disk.go` in one
module, since they share their course; `kind` says which of the three an
execution is, and the few differences are written where they occur: fill disk
goes on when its process has ended well and answers a Stop without a handle
with an error, fill memory drops the error of a Stop. `handles` is the
sync.Map, `process` the external process with the way it ended. Status is two
or three steps (load the handle, look at the exit, ask the runtime for the
target), Stop two (take the handle, stop the process), and both may overlap.

### DnsErrorInjection

Looks like `SidecarAttack` and differs where it matters: the process is made
in Prepare, so `handles` (`dnsInjectHandles`) holds processes that do not run
yet; get and remove are two critical sections (`StatusLoads`, `StatusReports`;
`StopLoads`, `StopRemoves`, `StopKills`), and any exit is an error. Prepare
checks the host network and the options (`MayInject`, `parseDNSInjectOpts`)
before it stores anything. Faults: `Restart`, `LoseStatus` (the last answer of
Status is lost, the platform polls again), `StopAgain`.

### RuntimeClient and PauseAction

`RuntimeClient` is what three clients answer, as predicates on the state of
the runtime: `InfoFound`, `PidFound` and `PidMissing`, `CanPause` and
`CanUnpause`. They differ between the runtimes: docker gives a pid (zero) for
a container that has exited, CRI-O cannot pause. Where an answer depends on
how much the runtime still knows of an ended container both `PidFound` and
`PidMissing` hold. Containers end, are removed and, with docker, come back;
`connected` says whether the runtime can be reached, and every call fails
while it cannot. `NewClient` is the choice of the runtime, `LivenessCheck` a
tick of the goroutine that sets the probe.

`PauseAction` is `action_pause.go` on top of it, one step per call to the
runtime. There is no memory of who has paused a container, in the code or in
the model. `StartPauses` may answer with an error all the same: the context of
the request ended, or the extension restarted, after the runtime had done it.

### StressLimits, NetworkFilter, TargetFilter and Preparation

Pure algorithms, as operators. `Preparation` chooses an input, computes once
and keeps the result, so that what an algorithm promises is an invariant.

- `StressLimits`: workers, load and kilobytes from a share and the limits in
  the cgroup, in Go's integer division; the two roundings of floats are
  `Rounded` and `RoundedUp`. cgroup v1 and v2 differ in files and formats
  only.
- `NetworkFilter`: a CIDR is the set of its addresses and a range the set of
  its ports, which makes a filter the set of the traffic it affects. How
  netfault joins excludes is external; all ways to join that come down to the
  limit and cover what they join are outcomes. The operators from `blackhole`
  to `tcpReset` are the providers of options; five of them find their
  interfaces and their filter in the same way (`OnInterfaces`).
- `TargetFilter`: the configuration of disallowed namespaces, which containers
  a discovery publishes and which targets Prepare accepts. A pattern is the
  set of the names it matches, the empty name among them; a container without
  a namespace label matches none.

## What is checked

| run | instance | shows |
|---|---|---|
| `Network` | 3 executions, 2 attacks, 2 experiments, pod and host namespace; with anybody on the host or without a namespace, 1 experiment | `TypeOK`, `RefCount`, `ClaimsAgree`, `SinglePrimary`, `RunningIntact`, `RulesOwned`, `HostNetworkSpared` |
| `NetworkLive` | 3 executions, 2 attacks, 1 experiment, pods only, fairness | `ClaimFreed`; `ImplementsLease` |
| `NetworkFaults` | 3 executions, any 2 faults of restart, repeated Stop, lost answer to Start | `NoLeak`, `RulesStillOwned`, `NoForeignRelease`, `LossContained` |
| `StopContainer` | 2 executions on one container, 1 restart, fairness | `TypeOK`, `StoppedIsStopped`, `NoSignalAfterStop`, `StopAnswers`, `GoroutinesEnd` |
| `Sidecar` | 1 execution of any kind, 2 restarts, fairness | `TypeOK`, `StoppedEndedWell`, `TargetGoneIsNoError`, `StopLeavesNone`, `FailureTold` |
| `DnsInjection` | 1 execution, any 2 faults of restart, lost Status, repeated Stop, fairness | `TypeOK`, `NoOrphan`, `NoFalseAlarm`, `HandlesFreed`, `ExitTold` |
| `Pause` | 2 executions on one container of any runtime, each Stop up to twice, fairness | `TypeOK`, `NoSilentPause`, `PauseLasts`, `PauseEnds`, `ProbeFollows` |
| `Options` | 2 addresses, 2 ports, 2 namespaces and an empty label, 3 patterns, at most 2 excludes before they are joined; limits and shares around the points of rounding | `CpuShareIsMet`, `MemoryShareIsMet`, `ProtectedSpared`, `StaysWithinRequest`, `NarrowingTold`, `NamespacesProtected`, `PublishedIsAttackable` |

Bounds. Three executions are a primary, a shadow and a third party (another
shadow, a passthrough, or the next to claim); two attacks and two experiments
are what it takes for options to differ in either part. Two namespaces suffice
since an execution has one target and the entries do not influence each other.
Two faults are a fault while recovering from another. For stopping, a second
execution matters only when it signals the same container. Executions of
`SidecarAttack` share nothing but the restarts, so one shows all there is.
Executions of `DnsErrorInjection` share the restart only, too, and those of
`PauseAction` their container: two are one that pauses and one that
interferes. `MaxFaults`, `MaxRestarts` and `MaxRepeats` bound faults, restarts
and repeated Stops. In `Options`, `MaxIncludes`, `MaxExcludeIps` and
`MaxRestricted` (1, 2, 1) bound how much a request names; with the extension's
own exclude that is enough to exceed `MaxExcludes` (2 for 500), and two
addresses and ports are enough for two endpoints to share one of the parts.
`DisallowHostNetwork` is FALSE in the runs, where failOnHostNetwork decides;
the theorem has both values. The theorems below have none of these bounds.

Fairness. A handler runs in a goroutine of its own and its calls to netfault
and containerd return, so `Apply`, `Revert`, `DeferredRelease`, `Goroutine`
and the reception by Start and Stop are weakly fair. The platform stops
whatever it has prepared or started, so `Stop` is, too; `SidecarAttack` and
`DnsErrorInjection` instead assume that it polls Status. `HandlesFreed` and
`PauseEnds` say themselves what they need beyond that: they hold if the
platform stops (`StopFairness`). The ticker of the liveness check runs as long
as the extension, so `LivenessCheck` is weakly fair. Nothing is assumed of
Prepare, of Status of the stop action, or of containers and processes that
ought to end. Weak fairness is enough: no step of another execution disables
the ones named for good and enables them again, except when it puts the
execution itself into a state where they are not needed.

### What the comments and messages say and the code does not do

Four runs expect a violation, each of one property that quotes the code.

- `NetworkShadowOfNothing`: "a sibling container in the same pod is already
  running this attack" (`action_network.go:260`). e1 is primary and e2 joins
  while e1 applies; the Apply fails and e1 gives its claim back "so subsequent
  Starts have a chance to try" (`action_network.go:279`). The claim of e2
  keeps the entry, so e3 becomes a shadow, too, and nobody applies. The same
  happens when e1 has stopped and released while e2 stays.
- `NetworkFailedStopReverts`: "the primary reverts, shadows no-op"
  (`action_network.go:57`). e1 fails to apply and gives its claim back; e2
  claims the namespace for the same attack and installs it; the Stop of e1
  reverts what e2 has installed. A passthrough that failed does the same.
- `NetworkLostShadow`: "Their Stop must not revert, or the primary's attack
  would be torn down early" (`action_network.go:315`). e1 has applied, e2 is
  its shadow, the answer to the Start of e2 is lost; the Stop of e2 reverts
  the attack of e1.
- `StopRestartLies`: "Container ... stopped" (`action_stop.go:127`), said of a
  container that still runs, since a restart has emptied the map.

The first two use `OrdinarySpec`: Start follows Prepare, options can be
decoded.

## What is proved

For every number of executions, namespaces, attacks, experiments, containers
and restarts. Assumptions: `TrackerAssumption` (the null values are no values
of the code), `NetworkAssumption` (the host's namespace is a namespace, the
configuration is Boolean, the executions are finitely many, without which a
count means nothing) and `RestartAssumption`, `DnsAssumption`,
`PauseAssumption` (the bounds on faults are numbers), `FilterAssumption` and
`PreparationAssumption` (limits are natural numbers, periods not zero, loads
are percentages, what a request may name is finite, patterns match names and
not the absence of one).

`NetworkActionProofs`. The invariants of `Network` are not inductive.
`RefCount` needs `FlagsOK`, which ties the flags to the program counter (an
execution holds a claim only from its Start on, a shadow always holds one), or
a release might run twice; with it, the lemmas `PrimaryJoins`, `ShadowJoins`
and `HolderLeaves` show for each way the set of holders changes that `Claims`
= `RefCount` and `ClaimsAgree` and `SinglePrimary` is kept; the three are
needed together. `SinglePrimary` needs `RefCount`, because the entry
disappears only with the last holder. For the rules, `RunningIntact` is
strengthened to `AppliedIntact` and `OneApplier`: among executions of one
attack on one target at most one has applied, unless somebody without a claim
has reverted (an excuse that is never withdrawn, lemma `ExcuseStays`). A
revert by another execution that has applied is then impossible. `IInv` is the
conjunction; TLC has checked it, too.

- `TypeCorrect`, `RefCountCorrect`, `ClaimsAgreeCorrect`,
  `SinglePrimaryCorrect`, `RunningIntactCorrect`, `RulesOwnedCorrect`,
  `HostNetworkSparedCorrect`.
- `ShadowsFollowAHolderCorrect`, `ClaimHoldersSpareOthersCorrect`: what is
  true where two comments are not (see above). A shadow always joins somebody
  with a claim for the same attack of the same experiment; an attack that
  another Stop tears down was torn down by an execution without a claim, or
  after one.
- `ClaimsEndingCorrect`, `CallsAdvanceCorrect`: the safety half of
  `ClaimFreed`. A claimed namespace has holders, each at a point from which
  only its own steps lead on, and no execution ever goes back.

`NetworkActionRefinement`: `LeaseImplemented`. Every claim maps to Acquire or
Follow, every release to Leave, all else to a stutter. What the lease promises
is proved of the lease alone, from `LeaseSpec`, and carried over by the
refinement: `LeasePromiseCorrect` (leased as long as it is held, on one set of
terms, with one primary at most) and `LeaseSettledCorrect` (nobody changes the
terms or becomes primary of a lease that lasts). The second is what makes
`ShadowsFollowAPrimary` fail: when the primary has left, its part stays empty
until the lease ends.

`NetworkActionFaultsProofs`. With faults `RefCount` fails, and what is left of
it is proved in two halves that no step mixes: `Over` (the count of a
namespace is at most the number of its holders) survives restarts and repeated
Stops, `Under` (at least) survives lost answers. `JoinBounds` and
`LeaveBounds` show that every fault-free step keeps each half by itself.
`RulesStillOwned` needs only `FaultFlags`, what the flags still say of the
program counter after faults.

- `NoLeakCorrect`, `NoForeignReleaseCorrect`, `RulesStillOwnedCorrect`.
- `LossContainedCorrect`. Of the claims' part of `IInv` all but `RefCount` is
  left when answers are lost: `Terms`. `SinglePrimary` rested on it, because a
  new primary needs an empty entry; `Under` does in its place
  (`PrimaryTerms`), since an entry that counts too many goes too late, not too
  early.
- `HostNetworkSparedDespiteFaults`: `HostNetworkSpared` with all faults. It
  follows from `RulesStillOwned` and `Checked`: whatever state a call comes
  with, its execution has passed Prepare.

`StopActionProofs`. `BusyInv` says that while client.Stop is at work the
goroutine waits for it, the completer is in the map and Stop has not answered.
`AnswerInv` follows the answer through the channel: without a restart, a
started action keeps its completer until Status completes, and an answer that
was taken while the completer is still there and nobody cancelled was a
success.

- `TypeCorrect`, `NoSignalAfterStopCorrect`, `StoppedIsStoppedCorrect`.
- `WaitersHaveSendersCorrect`, `SendersHaveReceiversCorrect`: the safety
  halves of `StopAnswers` and `GoroutinesEnd`, with any restarts. Nobody waits
  at the channel for a goroutine that is not there, and no goroutine offers an
  answer that no Stop will look for. `ChannelInv` ties completer, call and
  goroutine together.

`SidecarAttackProofs`. `CourseInv` ties process, handle and report to the
course of Start: a process is there only after Start, a report only of a
started attack, and the handle until Stop takes it or a restart loses it, so a
Status that finds none before any of the two is impossible.

- `TypeCorrect`, `StoppedEndedWellCorrect`, `TargetGoneIsNoErrorCorrect`,
  `StopLeavesNoneCorrect`.
- `VerdictStandsCorrect`, `VerdictFitsCorrect`, `FailureOutstandingCorrect`:
  the safety half of `FailureTold`. A verdict is told once, it fits the end of
  the process, and a failure that was not told yet has its handle in the map.

`DnsErrorInjectionProofs`. `CourseInv` ties process, Status and Stop to the
course of Start; with it `NoOrphan` is inductive: a Status that removes a
handle has seen an exit, and an exit is final. `NoFalseAlarm` is a property of
the whole future: `KilledIsOut` (what Stop has killed is not in the map) leads
from a kill without a Status under way to `Quiet`, which no step ends, and in
which no error is told.

- `TypeCorrect`, `NoOrphanCorrect`, `NoFalseAlarmCorrect`.
- `ExitRememberedCorrect`, `VerdictStandsCorrect`: the safety half of
  `ExitTold`. Without a fault and a Stop the handle is in the map until Status
  has told the error; what was told stands until that answer is lost.
- `HandlesAwaitStopCorrect`, `HandleOnceCorrect`: the safety half of
  `HandlesFreed`, with all faults. A handle is never left behind a Stop that
  has answered, and only Prepare puts one into the map.

`PauseActionProofs`. `NoSilentPause` is inductive with `TypeOK`: only a Start
pauses, and a Stop that answers "unpaused" has just made the container run.
`PauseLasts` is shown step by step.

- `TypeCorrect`, `NoSilentPauseCorrect`, `PauseLastsCorrect`.

`PreparationProofs`. The inductive invariant says that the result is an
outcome of the computation for its request; what remains are lemmas about
operators. For the shares, `Quotient` says what an integer division leaves
over, and `LoadOfWorkers` and `ShareOfLimit` add up the losses of the four
roundings by multiplying inequalities. For the filter, `CondenseWidens` shows
that joining excludes never uncovers anything, by whichever choice, and that
as many excludes as before means the same excludes, which is what makes the
warning reliable (it takes the cardinalities of finite sets). For the targets,
`PrefixRemoved` leads the published id back to the container.

- `CpuShareIsMetCorrect`, `MemoryShareIsMetCorrect`, `ProtectedSparedCorrect`,
  `StaysWithinRequestCorrect`, `NarrowingToldCorrect`,
  `NamespacesProtectedCorrect`, `PublishedIsAttackableCorrect`.

Only model-checked: `ClaimFreed`, `StopAnswers`, `GoroutinesEnd`,
`FailureTold`, `HandlesFreed`, `ExitTold`, `PauseEnds` and `ProbeFollows`:
liveness is out of the prover's reach. Of the first six the part that is
safety is proved as said above: that the step which has to come is still
possible, or what it needs is still there. That fairness then brings it is
left to TLC. Of `PauseEnds` that part is `NoSilentPause`; `ProbeFollows` has
none. That every filter, workers or load of the code is the one of the
operators is a translation, not a theorem.

## What is not modelled

- The calls of one execution come one after the other, except that a Status
  may overlap the Stop. A Stop that overtakes a running Start, or two Stops of
  one execution at once, are not modelled.
- A namespace that is gone does not come back, so the inode of a new one is
  never taken for the old one.
- The contents of a namespace besides the attacks (qdisc snapshot), and which
  attacks netfault finds compatible: any Apply may fail.
- The HTTP layer and the SDK, except for the order in which they call.
- containerd does not act on a call that has returned an error to the client.
- A runtime that accepts a call and never answers: the ping of the liveness
  check has no deadline and would block its goroutine for good, so
  `ProbeFollows` is about a runtime that answers or refuses.
- Containers in states between the four of `RuntimeClient` (restarting,
  pausing), and the time List takes.
- `Stop` of docker and CRI-O, one call that leaves the grace period to the
  runtime.
- The options of the IO stress, of fill memory and of fill disk: parameters
  that are passed on.
- The words of a message, except where a run quotes them. Stop of the pause
  answers "is not running anymore" (`action_pause.go:126`) after any error of
  the lookup of the pid, also for a container that runs or stays paused while
  the runtime is away; for `PauseEnds` the platform has been told.
- Rates and jitter of the network attacks; ports beyond 16 bits, which
  `toExcludes` cuts.
- The attributes of a target other than its id, its label, their excludes,
  host names, the schedule of the discovery.
- Packaging; wording; start-up besides the choice of the client and the
  disallowed namespaces.

## Plan

The modules planned at first are written. What would come next:

1. A runtime that hangs, with the deadlines the clients have and the ping
   lacks.
2. Stop calls that overlap with Start and with each other, for the actions
   whose state is in memory.
3. `Stop` of docker and CRI-O below `StopAction`, in place of
   `ContainerdClient`.
