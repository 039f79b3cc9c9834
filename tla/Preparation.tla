----------------------------- MODULE Preparation ----------------------------
(***************************************************************************)
(* What Prepare computes from a request before anything is attacked, and   *)
(* what a discovery publishes: the algorithms of StressLimits,             *)
(* NetworkFilter and TargetFilter, each on every input of a kind.  One     *)
(* step computes the result.                                               *)
(***************************************************************************)
EXTENDS StressLimits, NetworkFilter, TargetFilter, FiniteSetsExt

CONSTANTS
  Quotas, Periods, CpuCounts,       \* of a cgroup, in microseconds
  Workers, Loads,                   \* of a request, a load in percent
  Memories, Percentages,
  Nets, PortRanges, Hostnames,      \* what users and the platform name
  MaxIncludes, MaxExcludeIps, MaxRestricted,  \* bounds: how many of them in a request
  Namespaces,                       \* what a namespace label may say
  Patterns                          \* the sets of namespaces a pattern matches

ASSUME PreparationAssumption ==
  /\ Quotas \subseteq Nat /\ Periods \subseteq Nat \ {0} /\ CpuCounts \subseteq Nat
  /\ Workers \subseteq Nat /\ Loads \subseteq 1..100
  /\ Memories \subseteq Nat /\ Percentages \subseteq Nat
  /\ Nets \subseteq SUBSET Addresses /\ IsFiniteSet(Nets)
  /\ PortRanges \subseteq SUBSET Ports /\ IsFiniteSet(PortRanges)
  /\ IsFiniteSet(Addresses)
  /\ NoLabel \notin Namespaces /\ Patterns \subseteq SUBSET Namespaces

VARIABLES
  kind,     \* which computation
  request,  \* all that it depends on
  done,
  result

vars == <<kind, request, done, result>>

CpuRequest ==
  [quota : Quotas \cup {Unlimited, Unreadable}, period : Periods \cup {Unreadable},
   cpusAllowed : CpuCounts \cup {Unreadable}, workers : Workers, load : Loads]

MemoryRequest ==
  [memory : Memories \cup {Unlimited, Unreadable}, percentage : Percentages]

AtMost(n, S) == UNION {kSubset(k, S) : k \in 0..n}

Endpoints == {Endpoint(net, ports) : net \in Nets, ports \in PortRanges}

FilterRequest ==
  [ip : AtMost(MaxIncludes, Nets), hostname : AtMost(MaxIncludes, Hostnames),
   port : AtMost(MaxIncludes, PortRanges),
   excludeIp : AtMost(MaxExcludeIps, Nets), excludeHostname : AtMost(MaxIncludes, Hostnames),
   restrictedEndpoints : AtMost(MaxRestricted, Endpoints),
   dns : [Hostnames -> SUBSET Addresses], malformed : BOOLEAN]

Attacks ==
  {[id |-> "blackhole"]}
  \cup [id : {"blockDns"}, dnsPort : Ports]
  \cup [id : {"delay"}, networkInterface : {{}, {"eth0"}}, interfacesFound : {{}, {"eth0"}}]
  \cup [id : {"packageLoss", "corruptPackages", "limitBandwidth"}, networkInterface : {{}},
        interfacesFound : {{}, {"eth0"}}]
  \cup [id : {"tcpReset"}, networkInterface : {{}}, interfacesFound : {{}, {"eth0"}}, istio : BOOLEAN]

Config == [env : SUBSET Patterns, args : SUBSET Patterns,
           disableDiscoveryExcludes : BOOLEAN]

\* The length of an id: a name that a user has chosen may be a short one.
Container ==
  [id : [prefix : {""}, length : {3, 64}], namespace : Namespaces \cup {NoLabel},
   labels : SUBSET {"sandbox", "discovery-disabled"}]

Init ==
  /\ done = FALSE
  /\ result = {}
  /\ \/ kind = "stressCpu" /\ request \in CpuRequest
     \/ kind = "stressMemory" /\ request \in MemoryRequest
     \/ /\ kind = "network"
        /\ \E a \in Attacks, f \in FilterRequest : request = [attack |-> a, filter |-> f]
     \/ /\ kind = "target"
        /\ request \in [config : Config, container : Container, listed : BOOLEAN,
                        known : BOOLEAN, steadybitLabel : BOOLEAN,
                        runtime : {"docker", "containerd", "cri-o"}]

-----------------------------------------------------------------------------
Compute(k, outcome) == kind = k /\ ~done /\ done' = TRUE /\ result' = outcome /\ UNCHANGED <<kind, request>>

\* readAndAdaptToContainerLimits with the options of stressCpu
PrepareStressCpu ==
  \E opts \in adaptCpu(request, stressCpu(request)) : Compute("stressCpu", opts)

\* readAndAdaptToContainerLimits with the options of stressMemory
PrepareStressMemory ==
  Compute("stressMemory", adaptMemory(request, stressMemory(request.percentage)))

PrepareNetwork ==
  \E opts \in optsProvider(request.attack, request.filter) : Compute("network", opts)

(***************************************************************************)
(* A discovery, and Prepare of any action for the target, which may be     *)
(* gone by then or come from an older discovery.                           *)
(***************************************************************************)
DiscoverAndPrepare ==
  LET c == request.container
  IN  Compute("target",
        [targets |-> DiscoverTargets(request.config, IF request.listed THEN {c} ELSE {}, request.runtime),
         prepare |-> getContainerTarget(request.config, IF request.known THEN {c} ELSE {},
                       mapTarget(c, request.runtime).containerId, request.steadybitLabel)])

Next == \/ kind = "stressCpu" /\ PrepareStressCpu
        \/ kind = "stressMemory" /\ PrepareStressMemory
        \/ kind = "network" /\ PrepareNetwork
        \/ kind = "target" /\ DiscoverAndPrepare

Spec == Init /\ [][Next]_vars

-----------------------------------------------------------------------------
(***************************************************************************)
(* Under a CPU limit the workers together have the requested share of it,  *)
(* up to one percent of a CPU for each, and two thousandths of a CPU.      *)
(* Where the user leaves their number open there are as few as possible,   *)
(* and none is asked for more than a whole CPU                             *)
(* (action_stress_limit_helpers.go:74-86).                                 *)
(***************************************************************************)
CpuShareIsMet ==
  kind = "stressCpu" /\ done /\ readCpuLimit(request) >= 0 /\ result.workers > 0 =>
    LET period == request.period
        asked  == 20 * request.quota * request.load
        given  == 20 * result.workers * result.load * period
    IN  /\ given <= asked + result.workers * period
        /\ given > asked - (19 * result.workers + 4) * period
        /\ request.workers = 0 =>
             /\ result.load <= 100
             /\ 2000 * (result.workers - 1) * period < asked

(***************************************************************************)
(* Under a memory limit stress-ng gets the requested share of it, rounded  *)
(* down to kilobytes, and never nothing, which would be no limit for it    *)
(* (action_stress_limit_helpers.go:60-69).                                 *)
(***************************************************************************)
MemoryShareIsMet ==
  kind = "stressMemory" /\ done /\ readMemLimit(request) >= 0 =>
    LET asked == request.memory * request.percentage
        given == 102400 * result.amount
    IN  /\ result.unit = "kilobytes" /\ result.amount > 0
        /\ given <= asked \/ result.amount = 1
        /\ given > asked - 102500

\* What must never be affected: the agent, the extension, what the user excludes.
Protected(r) ==
  Packets(r.restrictedEndpoints)
  \cup OwnAddresses \X OwnPorts
  \cup {p \in Addresses \X Ports :
          \/ \E net \in r.excludeIp : p[1] \in net
          \/ \E h \in r.excludeHostname : p[1] \in r.dns[h]}

Requested(r) ==
  {p \in Addresses \X Ports :
    /\ \/ r.ip = {} /\ r.hostname = {}
       \/ \E net \in r.ip : p[1] \in net
       \/ \E h \in r.hostname : p[1] \in r.dns[h]
    /\ r.port = {} \/ \E range \in r.port : p[2] \in range}

Filters == kind = "network" /\ done /\ ~result.error /\ request.attack.id # "blockDns"

(***************************************************************************)
(* No traffic of the agent or of the extension is affected, and none that  *)
(* the user excludes, however the request combines addresses, names and    *)
(* ports and however much the excludes are condensed                       *)
(* (action_network.go:415-441).                                            *)
(***************************************************************************)
ProtectedSpared ==
  Filters => Affected(result) \cap Protected(request.filter) = {}

(***************************************************************************)
(* Nothing is affected that has not been asked for: a part of the request  *)
(* that names nothing must not fall back to everything when another part   *)
(* names something (action_network.go:383-408).                            *)
(***************************************************************************)
StaysWithinRequest ==
  Filters => Affected(result) \subseteq Requested(request.filter)

(***************************************************************************)
(* If traffic that was asked for and is not protected is left out, a       *)
(* message says so (action_network.go:440-458).                            *)
(***************************************************************************)
NarrowingTold ==
  Filters /\ "condensed" \notin result.messages =>
    Requested(request.filter) \ Protected(request.filter) \subseteq Affected(result)

(***************************************************************************)
(* A container of a disallowed namespace is never a target and is never    *)
(* accepted as one, whether the environment or the command line disallows  *)
(* it, and also when the excludes of the discovery are disabled            *)
(* (discovery.go:150, common.go:91, config.go:65-74).                      *)
(***************************************************************************)
NamespacesProtected ==
  kind = "target" /\ done =>
    \A pattern \in request.config.env \cup request.config.args :
      request.container.namespace \in pattern =>
        result.targets = {} /\ result.prepare \notin {"accepted", "panic"}

(***************************************************************************)
(* What the discovery publishes can be attacked while the runtime knows    *)
(* it: the id of the target leads back to the container, and the actions   *)
(* refuse nothing that the discovery lets through.  A target with a label  *)
(* and an id of less than eight characters makes Prepare panic             *)
(* (discovery.go:210, common.go:81-98).                                    *)
(***************************************************************************)
PublishedIsAttackable ==
  kind = "target" /\ done /\ result.targets # {} /\ request.known =>
    \/ result.prepare = "accepted"
    \/ request.steadybitLabel /\ request.container.id.length < 8
=============================================================================
