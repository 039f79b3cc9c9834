---------------------------- MODULE NetworkFilter ---------------------------
(***************************************************************************)
(* The filter of a network attack: mapToNetworkFilter in                   *)
(* extcontainer/action_network.go and the providers of options in          *)
(* action_network_*.go.  A CIDR is the set of its addresses, a range of    *)
(* ports the set of its ports; what is asked for comes as sets, so the     *)
(* sorting of the rules is left out.                                       *)
(***************************************************************************)
EXTENDS Naturals, FiniteSets

CONSTANTS
  Addresses, Ports,
  OwnAddresses, OwnPorts,  \* of the extension
  MaxExcludes              \* 500 in the code

ASSUME FilterAssumption ==
  /\ OwnAddresses \subseteq Addresses
  /\ OwnPorts \subseteq Ports
  /\ MaxExcludes \in Nat \ {0}

Endpoint(net, ports) == [net |-> net, ports |-> ports]

Packets(endpoints) ==
  UNION {e.net \X e.ports : e \in endpoints}

-----------------------------------------------------------------------------
\* external: dnsresolve answers for all the names or fails.
Resolves(request, hostnames) == \A h \in hostnames : request.dns[h] # {}

NetsOf(request, ips, hostnames) ==
  ips \cup {{a} : a \in UNION {request.dns[h] : h \in hostnames}}

\* A bug: without an ip everything is affected, also with a hostname.
IncludedIps(request) ==
  IF request.ip = {} THEN {Addresses} ELSE NetsOf(request, request.ip, request.hostname)

IncludedNets(request) ==
  LET nets == NetsOf(request, request.ip, request.hostname)
  IN  IF nets = {} THEN {Addresses} ELSE nets

IncludedPorts(request) == IF request.port = {} THEN {Ports} ELSE request.port

Includes(request) ==
  {Endpoint(net, ports) : net \in IncludedNets(request), ports \in IncludedPorts(request)}

toExcludes(request) == request.restrictedEndpoints

userExcludes(request) ==
  {Endpoint(net, Ports) : net \in NetsOf(request, request.excludeIp, request.excludeHostname)}

\* external: network.ComputeExcludesForOwnIpAndPorts
ownExcludes == {Endpoint(OwnAddresses, OwnPorts)}

\* A bug: the endpoints of the agent are left out when there are user excludes.
ExcludesEither(request) ==
  (IF request.excludeIp = {} THEN toExcludes(request) ELSE userExcludes(request)) \cup ownExcludes

Excludes(request) == toExcludes(request) \cup userExcludes(request) \cup ownExcludes

(***************************************************************************)
(* external: netfault.CondenseNetWithPortRange replaces excludes by one    *)
(* that covers them until they are few enough.                             *)
(***************************************************************************)
Join(endpoints) ==
  Endpoint(UNION {e.net : e \in endpoints}, UNION {e.ports : e \in endpoints})

Condensed(excludes) ==
  IF Cardinality(excludes) <= MaxExcludes THEN {excludes}
  ELSE {(excludes \ merged) \cup {Join(merged)} :
          merged \in {m \in SUBSET excludes : Cardinality(m) > Cardinality(excludes) - MaxExcludes}}

\* A bug: the warning depends on the limit.
WarnsAboveTheLimit(excludes, condensed) ==
  IF Cardinality(condensed) > MaxExcludes THEN {"condensed"} ELSE {}

condenseMessages(excludes, condensed) ==
  IF Cardinality(condensed) # Cardinality(excludes) THEN {"condensed"} ELSE {}

-----------------------------------------------------------------------------
Refused == [error |-> TRUE]

Accepted(include, exclude, messages) ==
  [error |-> FALSE, include |-> include, exclude |-> exclude, messages |-> messages]

\* The outcomes, one for each way to condense the excludes.
mapToNetworkFilter(request) ==
  IF \/ ~Resolves(request, request.hostname \cup request.excludeHostname)
     \/ request.malformed  \* a port, or the CIDR of a restricted endpoint
    THEN {Refused}
    ELSE {Accepted(Includes(request), exclude, condenseMessages(Excludes(request), exclude)) :
            exclude \in Condensed(Excludes(request))}

blackhole(attack, request) == mapToNetworkFilter(request)

\* No excludes at all.
blockDns(attack, request) == {Accepted({Endpoint(Addresses, {attack.dnsPort})}, {}, {})}

\* For the attacks on network interfaces: those of the request, or all but loopback.
OnInterfaces(attack, request) ==
  IF attack.networkInterface = {} /\ attack.interfacesFound = {} THEN {Refused}
  ELSE mapToNetworkFilter(request)

delay(attack, request) == OnInterfaces(attack, request)
packageLoss(attack, request) == OnInterfaces(attack, request)
corruptPackages(attack, request) == OnInterfaces(attack, request)
limitBandwidth(attack, request) == OnInterfaces(attack, request)

tcpReset(attack, request) ==
  {IF f.error \/ ~attack.istio THEN f
   ELSE [f EXCEPT !.messages = @ \cup {"istio"}] : f \in OnInterfaces(attack, request)}

optsProvider(attack, request) ==
  CASE attack.id = "blockDns"        -> blockDns(attack, request)
    [] attack.id = "blackhole"       -> blackhole(attack, request)
    [] attack.id = "delay"           -> delay(attack, request)
    [] attack.id = "packageLoss"     -> packageLoss(attack, request)
    [] attack.id = "corruptPackages" -> corruptPackages(attack, request)
    [] attack.id = "limitBandwidth"  -> limitBandwidth(attack, request)
    [] attack.id = "tcpReset"        -> tcpReset(attack, request)

\* external: netfault, an exclude wins over an include.
Affected(filter) == Packets(filter.include) \ Packets(filter.exclude)
=============================================================================
