-------------------------- MODULE PreparationProofs -------------------------
(***************************************************************************)
(* Proofs about Preparation for every value of its constants: any limits,  *)
(* shares, addresses, ports, patterns and limit of the excludes.           *)
(*                                                                         *)
(* The arithmetic has no induction: Quotient says what a division leaves   *)
(* over, and the lemmas on the shares follow by multiplying inequalities,  *)
(* which is spelled out because the products are of variables.             *)
(***************************************************************************)
EXTENDS Preparation, FiniteSetTheorems, TLAPS

(***************************************************************************)
(* What the division of Go's integers, which here are never negative,      *)
(* leaves over.                                                            *)
(***************************************************************************)
LEMMA Quotient ==
  ASSUME NEW a \in Nat, NEW b \in Nat \ {0}
  PROVE  /\ a \div b \in Nat
         /\ b * (a \div b) <= a
         /\ a < b * (a \div b) + b
  BY SMT

\* Multiplying keeps an order (the solver needs it for products of variables).
LEMMA Multiply ==
  ASSUME NEW a \in Int, NEW b \in Int, NEW c \in Nat
  PROVE  /\ a <= b => c * a <= c * b
         /\ a < b /\ c > 0 => c * a < c * b
  BY SMT

(***************************************************************************)
(* The load of each worker times their number is what was asked for, up to *)
(* the rounding (adaptToCpuContainerLimits).                               *)
(***************************************************************************)
LEMMA LoadOfWorkers ==
  ASSUME NEW m \in Nat, NEW w \in Nat \ {0}, NEW load, load = Rounded(m, w) \div 10
  PROVE  /\ load \in Nat
         /\ 20 * (w * load) <= 2 * m + w
         /\ 20 * (w * load) > 2 * m - 19 * w
         /\ m <= 1000 * w => load <= 100
<1> DEFINE r == Rounded(m, w)
<1>1. r \in Nat /\ (2 * w) * r <= 2 * m + w /\ 2 * m + w < (2 * w) * r + 2 * w
  <2>1. 2 * m + w \in Nat /\ 2 * w \in Nat \ {0}
    OBVIOUS
  <2> QED BY <2>1, Quotient DEF Rounded
<1>2. load \in Nat /\ 10 * load <= r /\ r <= 10 * load + 9
  <2> HIDE DEF r
  <2>1. r \div 10 \in Nat /\ 10 * (r \div 10) <= r /\ r < 10 * (r \div 10) + 10
    BY <1>1, Quotient
  <2> QED BY <2>1, <1>1 DEF r
<1> HIDE DEF r
<1>3. w * (10 * load) <= w * r /\ w * r <= w * (10 * load + 9)
  BY <1>1, <1>2, Multiply
<1>4. /\ w * (10 * load) = 10 * (w * load)
      /\ w * (10 * load + 9) = 10 * (w * load) + 9 * w
      /\ (2 * w) * r = 2 * (w * r)
      /\ w * load \in Nat /\ w * r \in Nat
  BY <1>1, <1>2
<1>5. ASSUME m <= 1000 * w PROVE load <= 100
  <2>1. CASE r <= 1000
    BY <2>1, <1>1, <1>2
  <2>2. CASE r >= 1001
    <3>1. w * 1001 <= w * r
      BY <2>2, <1>1, Multiply
    <3> QED BY <3>1, <1>1, <1>4, <1>5
  <2> QED BY <2>1, <2>2, <1>1
<1> QED
  BY ONLY <1>1, <1>2, <1>3, <1>4, <1>5, m \in Nat, w \in Nat \ {0}

\* The milli-CPUs the workers shall use.
Limit(quota, period) == (quota * 1000) \div period
Millis(quota, period, load) == (Limit(quota, period) * load) \div 100

(***************************************************************************)
(* They are the share of the limit, less than two missing.                 *)
(***************************************************************************)
LEMMA ShareOfLimit ==
  ASSUME NEW quota \in Nat, NEW period \in Nat \ {0}, NEW load \in 1..100
  PROVE  /\ Limit(quota, period) \in Nat /\ Millis(quota, period, load) \in Nat
         /\ period * Millis(quota, period, load) <= 10 * (quota * load)
         /\ period * Millis(quota, period, load) > 10 * (quota * load) - 2 * period
<1> DEFINE limit == Limit(quota, period)
           m == Millis(quota, period, load)
<1>1. limit \in Nat /\ period * limit <= 1000 * quota /\ 1000 * quota < period * limit + period
  <2>1. quota * 1000 \in Nat
    OBVIOUS
  <2> QED BY <2>1, Quotient DEF Limit
<1>2. m \in Nat /\ 100 * m <= limit * load /\ limit * load < 100 * m + 100
  <2>1. limit * load \in Nat
    BY <1>1
  <2> QED BY <2>1, Quotient DEF Millis
<1> HIDE DEF limit, m
<1>3. period * (100 * m) <= period * (limit * load)
      /\ period * (limit * load) < period * (100 * m + 100)
  <2>1. limit * load \in Int /\ 100 * m \in Int /\ 100 * m + 100 \in Int
    BY <1>1, <1>2
  <2> QED BY <2>1, <1>2, Multiply
<1>4. load * (period * limit) <= load * (1000 * quota)
      /\ load * (1000 * quota) < load * (period * limit + period)
  <2>1. period * limit \in Int /\ 1000 * quota \in Int /\ load \in Nat /\ load > 0
    BY <1>1
  <2> QED BY <2>1, <1>1, Multiply
<1>5. period * load <= period * 100
  BY Multiply
<1>6. /\ period * (100 * m) = 100 * (period * m)
      /\ period * (100 * m + 100) = 100 * (period * m) + 100 * period
      /\ load * (1000 * quota) = 1000 * (quota * load)
      /\ load * (period * limit + period) = period * (limit * load) + period * load
      /\ load * (period * limit) = period * (limit * load)
      /\ period * m \in Nat /\ quota * load \in Nat /\ period * load \in Nat
      /\ period * (limit * load) \in Nat
  <2>1. limit \in Nat /\ m \in Nat /\ load \in Nat /\ period \in Nat /\ quota \in Nat
    BY <1>1, <1>2
  <2>2. period * (100 * m) = 100 * (period * m)
        /\ period * (100 * m + 100) = 100 * (period * m) + 100 * period
    BY ONLY <2>1
  <2>3. load * (1000 * quota) = 1000 * (quota * load)
    BY ONLY <2>1
  <2>4. load * (period * limit) = period * (limit * load)
    BY ONLY <2>1
  <2>5. load * (period * limit + period) = load * (period * limit) + period * load
    BY ONLY <2>1
  <2>6. /\ period * m \in Nat /\ quota * load \in Nat /\ period * load \in Nat
        /\ period * (limit * load) \in Nat
    BY ONLY <2>1
  <2> QED BY ONLY <2>2, <2>3, <2>4, <2>5, <2>6
<1>7. /\ limit \in Nat /\ m \in Nat
      /\ period * m <= 10 * (quota * load)
      /\ period * m > 10 * (quota * load) - 2 * period
  BY ONLY <1>1, <1>2, <1>3, <1>4, <1>5, <1>6, period \in Nat \ {0}
<1> QED BY <1>7 DEF limit, m

-----------------------------------------------------------------------------
\* The parts of a request for a filter come from the constants.
LEMMA RequestTypes ==
  ASSUME NEW r \in FilterRequest
  PROVE  /\ r.ip \subseteq Nets /\ r.hostname \subseteq Hostnames /\ r.port \subseteq PortRanges
         /\ r.excludeIp \subseteq Nets /\ r.excludeHostname \subseteq Hostnames
         /\ r.restrictedEndpoints \subseteq Endpoints
         /\ r.dns \in [Hostnames -> SUBSET Addresses]
<1>1. \A n, S : AtMost(n, S) \subseteq SUBSET S
  BY DEF AtMost, kSubset
<1>2. /\ r.ip \in AtMost(MaxIncludes, Nets) /\ r.hostname \in AtMost(MaxIncludes, Hostnames)
      /\ r.port \in AtMost(MaxIncludes, PortRanges)
      /\ r.excludeIp \in AtMost(MaxExcludeIps, Nets)
      /\ r.excludeHostname \in AtMost(MaxIncludes, Hostnames)
      /\ r.restrictedEndpoints \in AtMost(MaxRestricted, Endpoints)
      /\ r.dns \in [Hostnames -> SUBSET Addresses]
  BY DEF FilterRequest
<1>3. \A n, S, x : x \in AtMost(n, S) => x \subseteq S
  BY <1>1
<1> QED BY <1>2, <1>3

\* Membership in the nets that addresses and names stand for.
LEMMA NetsOfMember ==
  ASSUME NEW r, NEW ips, NEW hostnames, NEW a
  PROVE  (\E net \in NetsOf(r, ips, hostnames) : a \in net)
           <=> (\E net \in ips : a \in net) \/ (\E h \in hostnames : a \in r.dns[h])
  BY DEF NetsOf

\* Those nets consist of addresses.
LEMMA NetsOfAddresses ==
  ASSUME NEW r \in FilterRequest, NEW ips \in SUBSET Nets, NEW hostnames \in SUBSET Hostnames
  PROVE  NetsOf(r, ips, hostnames) \in SUBSET (SUBSET Addresses)
<1>1. r.dns \in [Hostnames -> SUBSET Addresses]
  BY RequestTypes
<1>2. \A h \in hostnames : r.dns[h] \subseteq Addresses
  BY <1>1
<1>3. UNION {r.dns[h] : h \in hostnames} \subseteq Addresses
  BY <1>2
<1>4. Nets \subseteq SUBSET Addresses
  BY PreparationAssumption
<1> QED BY <1>3, <1>4 DEF NetsOf

(***************************************************************************)
(* The excludes cover what must be protected, and nothing else.            *)
(***************************************************************************)
LEMMA ExcludesProtect ==
  ASSUME NEW r \in FilterRequest
  PROVE  Packets(Excludes(r)) = Protected(r)
<1> DEFINE nets == NetsOf(r, r.excludeIp, r.excludeHostname)
           user == {p \in Addresses \X Ports :
                     \/ \E net \in r.excludeIp : p[1] \in net
                     \/ \E h \in r.excludeHostname : p[1] \in r.dns[h]}
<1>1. nets \in SUBSET (SUBSET Addresses)
  BY NetsOfAddresses, RequestTypes
<1>2. Packets(userExcludes(r)) = UNION {net \X Ports : net \in nets}
  <2>1. \A net : Endpoint(net, Ports).net = net /\ Endpoint(net, Ports).ports = Ports
    BY DEF Endpoint
  <2> QED BY <2>1 DEF Packets, userExcludes
<1>3. UNION {net \X Ports : net \in nets} = user
  <2>1. ASSUME NEW p PROVE p \in UNION {net \X Ports : net \in nets} <=> p \in user
    <3>1. p \in UNION {net \X Ports : net \in nets}
            <=> /\ p \in Addresses \X Ports
                /\ \E net \in nets : p[1] \in net
      BY <1>1
    <3> QED BY <3>1, NetsOfMember
  <2> QED BY <2>1
<1>4. Packets(ownExcludes) = OwnAddresses \X OwnPorts
  BY DEF Packets, ownExcludes, Endpoint
<1>5. Packets(Excludes(r)) =
        Packets(toExcludes(r)) \cup Packets(userExcludes(r)) \cup Packets(ownExcludes)
  BY DEF Packets, Excludes
<1> QED BY <1>2, <1>3, <1>4, <1>5 DEF Protected, toExcludes

(***************************************************************************)
(* The includes cover what is requested, and nothing else.                 *)
(***************************************************************************)
LEMMA IncludesRequested ==
  ASSUME NEW r \in FilterRequest, Resolves(r, r.hostname \cup r.excludeHostname)
  PROVE  Packets(Includes(r)) = Requested(r)
<1> DEFINE nets == NetsOf(r, r.ip, r.hostname)
<1>1. nets \in SUBSET (SUBSET Addresses)
  BY NetsOfAddresses, RequestTypes
<1>2. nets = {} <=> r.ip = {} /\ r.hostname = {}
  <2>1. CASE r.hostname = {}
    BY <2>1 DEF NetsOf
  <2>2. CASE r.hostname # {}
    <3>1. PICK h \in r.hostname : TRUE
      BY <2>2
    <3>2. PICK a : a \in r.dns[h]
      BY <3>1 DEF Resolves
    <3>3. {a} \in nets
      BY <3>1, <3>2 DEF NetsOf
    <3> QED BY <3>3, <2>2
  <2> QED BY <2>1, <2>2
<1>3. IncludedNets(r) = IF nets = {} THEN {Addresses} ELSE nets
  BY DEF IncludedNets
<1>4. \A a : (\E net \in IncludedNets(r) : a \in net)
        <=> /\ a \in Addresses
            /\ \/ r.ip = {} /\ r.hostname = {}
               \/ \E net \in r.ip : a \in net
               \/ \E h \in r.hostname : a \in r.dns[h]
  <2>1. CASE nets = {}
    BY <2>1, <1>2, <1>3
  <2>2. CASE nets # {}
    <3>1. IncludedNets(r) = nets /\ ~(r.ip = {} /\ r.hostname = {})
      BY <2>2, <1>2, <1>3
    <3>2. \A a : (\E net \in nets : a \in net)
             <=> (\E net \in r.ip : a \in net) \/ (\E h \in r.hostname : a \in r.dns[h])
      BY NetsOfMember
    <3>3. \A a : (\E net \in nets : a \in net) => a \in Addresses
      BY <1>1
    <3> HIDE DEF nets
    <3> QED BY <3>1, <3>2, <3>3
  <2> QED BY <2>1, <2>2
<1>5. \A q : (\E range \in IncludedPorts(r) : q \in range)
        <=> /\ q \in Ports
            /\ r.port = {} \/ \E range \in r.port : q \in range
  <2>1. r.port \subseteq SUBSET Ports
    BY RequestTypes, PreparationAssumption
  <2> QED BY <2>1 DEF IncludedPorts
<1>6. ASSUME NEW p PROVE p \in Packets(Includes(r)) <=> p \in Requested(r)
  <2>1. p \in Packets(Includes(r)) <=>
          \E net \in IncludedNets(r), range \in IncludedPorts(r) : p \in net \X range
    <3>1. p \in Packets(Includes(r)) <=> \E e \in Includes(r) : p \in e.net \X e.ports
      BY DEF Packets
    <3>2. \A net, range : Endpoint(net, range).net = net /\ Endpoint(net, range).ports = range
      BY DEF Endpoint
    <3>3. \A e : e \in Includes(r) <=>
            \E net \in IncludedNets(r), range \in IncludedPorts(r) : e = Endpoint(net, range)
      BY DEF Includes
    <3> QED BY <3>1, <3>2, <3>3
  <2>2. p \in Requested(r) <=>
          /\ p \in Addresses \X Ports
          /\ \/ r.ip = {} /\ r.hostname = {}
             \/ \E net \in r.ip : p[1] \in net
             \/ \E h \in r.hostname : p[1] \in r.dns[h]
          /\ r.port = {} \/ \E range \in r.port : p[2] \in range
    BY DEF Requested
  <2>3. ASSUME p \in Packets(Includes(r)) PROVE p \in Requested(r)
    <3>1. PICK net \in IncludedNets(r), range \in IncludedPorts(r) : p \in net \X range
      BY <2>1, <2>3
    <3>2. p = <<p[1], p[2]>> /\ p[1] \in net /\ p[2] \in range
      BY <3>1
    <3>3. p[1] \in Addresses /\ p[2] \in Ports
      BY <3>2, <1>4, <1>5
    <3>4. p \in Addresses \X Ports
      BY <3>2, <3>3
    <3> QED BY <2>2, <3>2, <3>4, <1>4, <1>5
  <2>4. ASSUME p \in Requested(r) PROVE p \in Packets(Includes(r))
    <3>1. p = <<p[1], p[2]>> /\ p[1] \in Addresses /\ p[2] \in Ports
      BY <2>2, <2>4
    <3>2. PICK net \in IncludedNets(r) : p[1] \in net
      BY <2>2, <2>4, <3>1, <1>4
    <3>3. PICK range \in IncludedPorts(r) : p[2] \in range
      BY <2>2, <2>4, <3>1, <1>5
    <3> QED BY <2>1, <3>1, <3>2, <3>3
  <2> QED BY <2>3, <2>4
<1> QED BY <1>6

(***************************************************************************)
(* Condensing the excludes only widens them, and changes nothing when it   *)
(* keeps their number.                                                     *)
(***************************************************************************)
LEMMA CondenseWidens ==
  ASSUME NEW E, IsFiniteSet(E), NEW c \in Condensed(E)
  PROVE  /\ Packets(E) \subseteq Packets(c)
         /\ Cardinality(c) = Cardinality(E) => c = E
<1>1. CASE Cardinality(E) <= MaxExcludes
  BY <1>1 DEF Condensed
<1>2. CASE ~(Cardinality(E) <= MaxExcludes)
  <2>1. PICK m \in SUBSET E : /\ Cardinality(m) > Cardinality(E) - MaxExcludes
                              /\ c = (E \ m) \cup {Join(m)}
    BY <1>2 DEF Condensed
  <2>2. Packets(m) \subseteq Packets({Join(m)})
    BY DEF Packets, Join, Endpoint
  <2>3. Packets(E) \subseteq Packets(c)
    <3>1. Packets(E) = Packets(E \ m) \cup Packets(m)
      BY <2>1 DEF Packets
    <3>2. Packets(c) = Packets(E \ m) \cup Packets({Join(m)})
      BY <2>1 DEF Packets
    <3> QED BY <3>1, <3>2, <2>2
  <2>4. IsFiniteSet(m) /\ Cardinality(m) \in Nat /\ Cardinality(E) \in Nat /\ E \cap m = m
    BY <2>1, FS_Subset, FS_CardinalityType
  <2>5. /\ IsFiniteSet(E \ m) /\ Cardinality(E \ m) \in Nat
        /\ Cardinality(E \ m) = Cardinality(E) - Cardinality(m)
    BY <2>4, FS_Difference, FS_CardinalityType
  <2>6. /\ IsFiniteSet(c) /\ Cardinality(c) \in Nat
        /\ Cardinality(c) <= Cardinality(E \ m) + 1
    <3>1. /\ IsFiniteSet(c)
          /\ Cardinality(c) = IF Join(m) \in E \ m THEN Cardinality(E \ m) ELSE Cardinality(E \ m) + 1
      BY <2>1, <2>5, FS_AddElement
    <3> QED BY <3>1, <2>5
  <2>7. Cardinality(m) >= 2
    BY <2>4, <2>1, <1>2, FilterAssumption
  <2>8. Cardinality(c) < Cardinality(E)
    BY ONLY <2>4, <2>5, <2>6, <2>7
  <2> QED BY <2>3, <2>4, <2>6, <2>8
<1> QED BY <1>1, <1>2

\* The excludes of a request are finitely many.
LEMMA ExcludesFinite ==
  ASSUME NEW r \in FilterRequest
  PROVE  IsFiniteSet(Excludes(r))
<1> DEFINE pairs == (SUBSET Addresses) \X (PortRanges \cup {Ports})
           f == [p \in pairs |-> Endpoint(p[1], p[2])]
           all == {f[p] : p \in pairs}
<1>1. IsFiniteSet(pairs)
  <2>1. IsFiniteSet(PortRanges \cup {Ports})
    BY PreparationAssumption, FS_Singleton, FS_Union
  <2>2. IsFiniteSet(SUBSET Addresses)
    BY PreparationAssumption, FS_SUBSET
  <2> QED BY <2>1, <2>2, FS_Product
<1>2. IsFiniteSet(all)
  <2>1. f \in Surjection(pairs, all)
    BY DEF Surjection
  <2> QED BY <2>1, <1>1, FS_Surjection
<1>3. \A net, ports : net \subseteq Addresses /\ ports \in PortRanges \cup {Ports} =>
        Endpoint(net, ports) \in all
  <2> SUFFICES ASSUME NEW net \in SUBSET Addresses, NEW ports \in PortRanges \cup {Ports}
               PROVE  Endpoint(net, ports) \in all
    OBVIOUS
  <2>1. <<net, ports>> \in pairs /\ f[<<net, ports>>] = Endpoint(net, ports)
    OBVIOUS
  <2> QED BY <2>1
<1> HIDE DEF all
<1>4. toExcludes(r) \subseteq all
  <2>1. Endpoints \subseteq all
    BY <1>3, PreparationAssumption DEF Endpoints
  <2> QED BY <2>1, RequestTypes DEF toExcludes
<1>5. userExcludes(r) \subseteq all
  <2> DEFINE nets == NetsOf(r, r.excludeIp, r.excludeHostname)
  <2>1. nets \in SUBSET (SUBSET Addresses)
    BY NetsOfAddresses, RequestTypes
  <2>2. userExcludes(r) = {Endpoint(net, Ports) : net \in nets}
    BY DEF userExcludes
  <2> HIDE DEF nets
  <2> QED BY <2>1, <2>2, <1>3
<1>6. IsFiniteSet(ownExcludes)
  BY FS_Singleton DEF ownExcludes
<1>7. IsFiniteSet(toExcludes(r) \cup userExcludes(r))
  BY <1>2, <1>4, <1>5, FS_Subset
<1> QED BY <1>6, <1>7, FS_Union DEF Excludes

(***************************************************************************)
(* Whatever the attack, its filter has the includes of the request and     *)
(* condensed excludes, and a message unless their number is the same.      *)
(***************************************************************************)
LEMMA FilterOutcome ==
  ASSUME NEW a \in Attacks, NEW r \in FilterRequest, NEW f \in optsProvider(a, r),
         a.id # "blockDns", ~f.error
  PROVE  /\ Resolves(r, r.hostname \cup r.excludeHostname)
         /\ f.include = Includes(r)
         /\ f.exclude \in Condensed(Excludes(r))
         /\ "condensed" \notin f.messages => Cardinality(f.exclude) = Cardinality(Excludes(r))
<1> DEFINE Good(g) == /\ Resolves(r, r.hostname \cup r.excludeHostname)
                      /\ g.include = Includes(r)
                      /\ g.exclude \in Condensed(Excludes(r))
                      /\ "condensed" \notin g.messages =>
                           Cardinality(g.exclude) = Cardinality(Excludes(r))
<1>1. ASSUME NEW g \in mapToNetworkFilter(r), ~g.error PROVE Good(g)
  <2>1. Resolves(r, r.hostname \cup r.excludeHostname) /\ ~r.malformed
    BY <1>1 DEF mapToNetworkFilter, Refused
  <2>2. PICK c \in Condensed(Excludes(r)) :
          g = Accepted(Includes(r), c, condenseMessages(Excludes(r), c))
    BY <1>1, <2>1 DEF mapToNetworkFilter
  <2>3. /\ g.include = Includes(r) /\ g.exclude = c
        /\ g.messages = condenseMessages(Excludes(r), c)
    BY <2>2 DEF Accepted
  <2> QED BY <2>1, <2>2, <2>3 DEF condenseMessages
<1>2. ASSUME NEW g \in OnInterfaces(a, r), ~g.error PROVE g \in mapToNetworkFilter(r)
  BY <1>2 DEF OnInterfaces, Refused
<1>3. CASE a.id = "blackhole"
  BY <1>3, <1>1 DEF optsProvider, blackhole
<1>4. CASE a.id \in {"delay", "packageLoss", "corruptPackages", "limitBandwidth"}
  BY <1>4, <1>1, <1>2
     DEF optsProvider, delay, packageLoss, corruptPackages, limitBandwidth
<1>5. CASE a.id = "tcpReset"
  <2>1. PICK g \in OnInterfaces(a, r) :
          f = IF g.error \/ ~a.istio THEN g ELSE [g EXCEPT !.messages = @ \cup {"istio"}]
    BY <1>5 DEF optsProvider, tcpReset
  <2>2. CASE g.error \/ ~a.istio
    BY <2>1, <2>2, <1>1, <1>2
  <2>3. CASE ~(g.error \/ ~a.istio)
    <3>1. g \in mapToNetworkFilter(r) /\ Good(g)
      BY <2>3, <2>1, <1>1, <1>2
    <3>2. PICK i, x, n : g = Accepted(i, x, n)
      BY <3>1, <2>3 DEF mapToNetworkFilter, Refused
    <3>3. f = [g EXCEPT !.messages = @ \cup {"istio"}]
      BY <2>1, <2>3
    <3>4. f.include = g.include /\ f.exclude = g.exclude /\ f.messages = g.messages \cup {"istio"}
      BY <3>2, <3>3 DEF Accepted
    <3> QED BY <3>1, <3>4
  <2> QED BY <2>2, <2>3
<1>6. a.id \in {"blackhole", "blockDns", "tcpReset",
              "delay", "packageLoss", "corruptPackages", "limitBandwidth"}
  BY DEF Attacks
<1> QED BY <1>3, <1>4, <1>5, <1>6
-----------------------------------------------------------------------------
(***************************************************************************)
(* The inductive invariant: a request is one of its kind, and a result is  *)
(* an outcome of the computation for it.                                   *)
(***************************************************************************)
TargetRequest ==
  [config : Config, container : Container, listed : BOOLEAN, known : BOOLEAN,
   steadybitLabel : BOOLEAN, runtime : {"docker", "containerd", "cri-o"}]

Listed == IF request.listed THEN {request.container} ELSE {}
Known == IF request.known THEN {request.container} ELSE {}

IInv ==
  /\ kind = "stressCpu" =>
       /\ request \in CpuRequest
       /\ done => result \in adaptCpu(request, stressCpu(request))
  /\ kind = "stressMemory" =>
       /\ request \in MemoryRequest
       /\ done => result = adaptMemory(request, stressMemory(request.percentage))
  /\ kind = "network" =>
       /\ request.attack \in Attacks /\ request.filter \in FilterRequest
       /\ done => result \in optsProvider(request.attack, request.filter)
  /\ kind = "target" =>
       /\ request \in TargetRequest
       /\ done => /\ result.targets = DiscoverTargets(request.config, Listed, request.runtime)
                  /\ result.prepare = getContainerTarget(request.config, Known,
                       mapTarget(request.container, request.runtime).containerId,
                       request.steadybitLabel)

\* Nothing is computed at first.
LEMMA IInvInit == Init => IInv
<1> SUFFICES ASSUME Init PROVE IInv
  OBVIOUS
<1>1. CASE kind = "stressCpu"
  BY <1>1 DEF Init, IInv
<1>2. CASE kind = "stressMemory"
  BY <1>2 DEF Init, IInv
<1>3. CASE kind = "network"
  <2>1. PICK a \in Attacks, f \in FilterRequest : request = [attack |-> a, filter |-> f]
    BY <1>3 DEF Init
  <2>2. request.attack \in Attacks /\ request.filter \in FilterRequest /\ ~done
    BY <2>1 DEF Init
  <2> QED BY <2>2, <1>3 DEF IInv
<1>4. CASE kind = "target"
  BY <1>4 DEF Init, IInv, TargetRequest
<1> QED BY <1>1, <1>2, <1>3, <1>4 DEF Init

\* Each step computes what the invariant says.
LEMMA IInvNext == IInv /\ [Next]_vars => IInv'
<1> SUFFICES ASSUME IInv, [Next]_vars PROVE IInv'
  OBVIOUS
<1>1. CASE kind = "stressCpu" /\ PrepareStressCpu
  BY <1>1 DEF IInv, PrepareStressCpu, Compute
<1>2. CASE kind = "stressMemory" /\ PrepareStressMemory
  BY <1>2 DEF IInv, PrepareStressMemory, Compute
<1>3. CASE kind = "network" /\ PrepareNetwork
  BY <1>3 DEF IInv, PrepareNetwork, Compute
<1>4. CASE kind = "target" /\ DiscoverAndPrepare
  BY <1>4 DEF IInv, DiscoverAndPrepare, Compute, Listed, Known
<1>5. CASE UNCHANGED vars
  BY <1>5 DEF IInv, vars, Listed, Known
<1> QED BY <1>1, <1>2, <1>3, <1>4, <1>5 DEF Next

\* Every result comes from a request of its kind by the code's computation.
THEOREM IInvCorrect == Spec => []IInv
<1> QED BY IInvInit, IInvNext, PTL DEF Spec

-----------------------------------------------------------------------------
\* The share of CPU of every outcome.
LEMMA CpuShareOfIInv == IInv => CpuShareIsMet
<1> SUFFICES ASSUME IInv, kind = "stressCpu", done, readCpuLimit(request) >= 0, result.workers > 0
             PROVE  LET period == request.period
                        asked  == 20 * request.quota * request.load
                        given  == 20 * result.workers * result.load * period
                    IN  /\ given <= asked + result.workers * period
                        /\ given > asked - (19 * result.workers + 4) * period
                        /\ request.workers = 0 =>
                             /\ result.load <= 100
                             /\ 2000 * (result.workers - 1) * period < asked
  BY DEF CpuShareIsMet
<1> DEFINE quota == request.quota
           load == request.load
           period == request.period
           limit == Limit(quota, period)
           m == Millis(quota, period, load)
           workers == IF request.workers = 0 THEN WorkersFor(m) ELSE request.workers
<1>1. /\ quota \in Nat /\ period \in Nat \ {0} /\ load \in 1..100
      /\ request.workers \in Nat /\ readCpuLimit(request) = limit
  <2>1. ~(quota \in {Unlimited, Unreadable} \/ period = Unreadable) /\ readCpuLimit(request) = limit
    BY DEF readCpuLimit, Limit
  <2>2. request \in CpuRequest
    BY DEF IInv
  <2> QED BY <2>1, <2>2, PreparationAssumption DEF CpuRequest
<1>2. /\ limit \in Nat /\ m \in Nat
      /\ period * m <= 10 * (quota * load)
      /\ period * m > 10 * (quota * load) - 2 * period
  BY <1>1, ShareOfLimit
<1>3. result \in adaptToCpuContainerLimits(limit, stressCpu(request))
  BY <1>1 DEF IInv, adaptCpu
<1>4. /\ workers # 0
      /\ result.workers = workers
      /\ result.load = Rounded(m, workers) \div 10
  <2>1. stressCpu(request).load = load /\ stressCpu(request).workers = request.workers
    BY DEF stressCpu
  <2> QED BY <1>3, <2>1 DEF adaptToCpuContainerLimits, Millis
<1>5. workers \in Nat /\ (request.workers = 0 => m <= 1000 * workers /\ 1000 * workers <= m + 999)
  <2>1. CASE request.workers = 0
    <3>1. workers = (m + 999) \div 1000
      BY <2>1, <1>2 DEF WorkersFor, RoundedUp
    <3>2. m + 999 \in Nat
      BY <1>2
    <3> HIDE DEF m, workers
    <3>3. /\ workers \in Nat /\ 1000 * workers <= m + 999
          /\ m + 999 < 1000 * workers + 1000
      BY <3>1, <3>2, Quotient
    <3> QED BY <3>3, <1>2
  <2>2. CASE request.workers # 0
    BY <2>2, <1>1
  <2> QED BY <2>1, <2>2
<1> DEFINE W == result.workers
           L == result.load
<1> HIDE DEF limit, m, workers, quota, period, load
<1>6. /\ L \in Nat
      /\ 20 * (W * L) <= 2 * m + W
      /\ 20 * (W * L) > 2 * m - 19 * W
      /\ m <= 1000 * W => L <= 100
      /\ W \in Nat \ {0}
  BY <1>2, <1>4, <1>5, LoadOfWorkers
<1> HIDE DEF W, L
<1>7. W = workers
  BY <1>4 DEF W
<1> DEFINE q == quota * load
           pm == period * m
           pW == period * W
           pWL == period * (W * L)
<1>8. q \in Nat /\ pm \in Nat /\ pW \in Nat /\ pWL \in Nat /\ W * L \in Nat
  BY <1>1, <1>2, <1>6
<1>9. 20 * pWL <= 2 * pm + pW
  <2>1. period * (20 * (W * L)) <= period * (2 * m + W)
    <3>1. 20 * (W * L) \in Int /\ 2 * m + W \in Int
      BY <1>2, <1>6, <1>8
    <3> QED BY <3>1, <1>1, <1>6, Multiply
  <2>2. period * (2 * m + W) = 2 * pm + pW
    BY <1>1, <1>2, <1>6
  <2>3. period * (20 * (W * L)) = 20 * pWL
    BY <1>1, <1>8
  <2> QED BY <2>1, <2>2, <2>3
<1>10. 20 * pWL > 2 * pm - 19 * pW
  <2>1. period * (2 * m - 19 * W) < period * (20 * (W * L))
    <3>1. 20 * (W * L) \in Int /\ 2 * m - 19 * W \in Int
      BY <1>2, <1>6, <1>8
    <3>2. 2 * m - 19 * W < 20 * (W * L)
      BY <3>1, <1>6
    <3> QED BY <3>1, <3>2, <1>1, Multiply
  <2>2. period * (2 * m - 19 * W) = 2 * pm - 19 * pW
    BY <1>1, <1>2, <1>6
  <2>3. period * (20 * (W * L)) = 20 * pWL
    BY <1>1, <1>8
  <2> QED BY <2>1, <2>2, <2>3, <1>8
<1>11. ASSUME request.workers = 0 PROVE L <= 100 /\ 1000 * (pW - period) < pm
  <2>1. m <= 1000 * W /\ 1000 * (W - 1) < m
    BY <1>5, <1>6, <1>7, <1>11, <1>2
  <2>2. period * (1000 * (W - 1)) < period * m
    BY <2>1, <1>1, <1>2, <1>6, Multiply
  <2>3. period * (1000 * (W - 1)) = 1000 * (pW - period)
    BY <1>1, <1>6
  <2> QED BY <2>1, <2>2, <2>3, <1>6
<1>12. /\ 20 * quota * load = 20 * q
       /\ 20 * W * L * period = 20 * pWL
       /\ W * period = pW
       /\ (19 * W + 4) * period = 19 * pW + 4 * period
       /\ 2000 * (W - 1) * period = 2000 * (pW - period)
  <2>1. quota \in Int /\ load \in Int /\ W \in Int /\ L \in Int /\ period \in Int
    BY <1>1, <1>6
  <2>2. 20 * quota * load = 20 * q
    BY ONLY <2>1
  <2>3. 20 * W * L * period = 20 * pWL
    BY ONLY <2>1
  <2>4. W * period = pW /\ (19 * W + 4) * period = 19 * pW + 4 * period
    BY ONLY <2>1
  <2>5. 2000 * (W - 1) * period = 2000 * (pW - period)
    BY ONLY <2>1
  <2> QED BY <2>2, <2>3, <2>4, <2>5
<1>13. pm <= 10 * q /\ pm > 10 * q - 2 * period
  BY <1>2
<1> HIDE DEF q, pm, pW, pWL
<1>14. /\ 20 * pWL <= 20 * q + pW
       /\ 20 * pWL > 20 * q - (19 * pW + 4 * period)
       /\ request.workers = 0 => L <= 100 /\ 2000 * (pW - period) < 20 * q
  BY <1>1, <1>8, <1>9, <1>10, <1>11, <1>13
<1> QED BY <1>12, <1>14 DEF W, L, quota, period, load

(***************************************************************************)
(* For every limit, share and number of workers, the workers together have *)
(* the requested share.                                                    *)
(***************************************************************************)
THEOREM CpuShareIsMetCorrect == Spec => []CpuShareIsMet
<1> QED BY IInvCorrect, CpuShareOfIInv, PTL

\* The share of memory of every outcome.
LEMMA MemoryShareOfIInv == IInv => MemoryShareIsMet
<1> SUFFICES ASSUME IInv, kind = "stressMemory", done, readMemLimit(request) >= 0
             PROVE  LET asked == request.memory * request.percentage
                        given == 102400 * result.amount
                    IN  /\ result.unit = "kilobytes" /\ result.amount > 0
                        /\ given <= asked \/ result.amount = 1
                        /\ given > asked - 102500
  BY DEF MemoryShareIsMet
<1> DEFINE asked == request.memory * request.percentage
           bytes == asked \div 100
           kilobytes == bytes \div 1024
<1>1. request.memory \in Nat /\ request.percentage \in Nat /\ readMemLimit(request) = request.memory
  <2>1. request.memory \notin {Unlimited, Unreadable} /\ readMemLimit(request) = request.memory
    BY DEF readMemLimit
  <2>2. request \in MemoryRequest
    BY DEF IInv
  <2> QED BY <2>1, <2>2, PreparationAssumption DEF MemoryRequest
<1>2. /\ result.unit = "kilobytes"
      /\ result.amount = IF kilobytes < 1 THEN 1 ELSE kilobytes
  <2>1. stressMemory(request.percentage).amount = request.percentage
    BY DEF stressMemory
  <2>2. result = adaptToMemContainerLimits(request.memory, stressMemory(request.percentage))
    BY <1>1 DEF IInv, adaptMemory
  <2> QED BY <2>1, <2>2 DEF adaptToMemContainerLimits
<1>3. asked \in Nat
  BY <1>1
<1> HIDE DEF asked
<1>4. bytes \in Nat /\ 100 * bytes <= asked /\ asked < 100 * bytes + 100
  BY <1>3, Quotient
<1> HIDE DEF bytes
<1>5. kilobytes \in Nat /\ 1024 * kilobytes <= bytes /\ bytes < 1024 * kilobytes + 1024
  BY <1>4, Quotient
<1> HIDE DEF kilobytes
<1>6. /\ result.amount > 0
      /\ 102400 * result.amount <= asked \/ result.amount = 1
      /\ 102400 * result.amount > asked - 102500
  BY <1>2, <1>3, <1>4, <1>5
<1> QED BY <1>2, <1>6 DEF asked

\* For every limit and share, stress-ng gets the share, and never nothing.
THEOREM MemoryShareIsMetCorrect == Spec => []MemoryShareIsMet
<1> QED BY IInvCorrect, MemoryShareOfIInv, PTL

-----------------------------------------------------------------------------
(***************************************************************************)
(* What a filter that was accepted affects is what its includes cover and  *)
(* its excludes, however condensed, do not.                                *)
(***************************************************************************)
LEMMA FiltersOfIInv ==
  ASSUME IInv, Filters
  PROVE  /\ request.filter \in FilterRequest
         /\ Packets(result.include) = Requested(request.filter)
         /\ Protected(request.filter) \subseteq Packets(result.exclude)
         /\ "condensed" \notin result.messages =>
              Packets(result.exclude) = Protected(request.filter)
<1> DEFINE r == request.filter
<1>1. /\ request.attack \in Attacks /\ r \in FilterRequest
      /\ result \in optsProvider(request.attack, r)
      /\ request.attack.id # "blockDns" /\ ~result.error
  BY DEF IInv, Filters
<1>2. /\ Resolves(r, r.hostname \cup r.excludeHostname)
      /\ result.include = Includes(r)
      /\ result.exclude \in Condensed(Excludes(r))
      /\ "condensed" \notin result.messages => Cardinality(result.exclude) = Cardinality(Excludes(r))
  BY <1>1, FilterOutcome
<1>3. /\ Packets(Excludes(r)) \subseteq Packets(result.exclude)
      /\ Cardinality(result.exclude) = Cardinality(Excludes(r)) => result.exclude = Excludes(r)
  BY <1>1, <1>2, ExcludesFinite, CondenseWidens
<1> QED BY <1>1, <1>2, <1>3, IncludesRequested, ExcludesProtect

(***************************************************************************)
(* For every request and every way to condense the excludes, no protected  *)
(* traffic is affected.                                                    *)
(***************************************************************************)
THEOREM ProtectedSparedCorrect == Spec => []ProtectedSpared
<1>1. IInv => ProtectedSpared
  BY FiltersOfIInv DEF ProtectedSpared, Affected
<1> QED BY <1>1, IInvCorrect, PTL

\* For every request, nothing is affected that was not asked for.
THEOREM StaysWithinRequestCorrect == Spec => []StaysWithinRequest
<1>1. IInv => StaysWithinRequest
  BY FiltersOfIInv DEF StaysWithinRequest, Affected
<1> QED BY <1>1, IInvCorrect, PTL

\* For every request and limit, what is left out is told.
THEOREM NarrowingToldCorrect == Spec => []NarrowingTold
<1>1. IInv => NarrowingTold
  BY FiltersOfIInv DEF NarrowingTold, Affected, Filters
<1> QED BY <1>1, IInvCorrect, PTL

-----------------------------------------------------------------------------
\* For every configuration, a disallowed namespace is no target and is refused.
THEOREM NamespacesProtectedCorrect == Spec => []NamespacesProtected
<1>1. IInv => NamespacesProtected
  <2> SUFFICES ASSUME IInv, kind = "target", done,
                      NEW pattern \in request.config.env \cup request.config.args,
                      request.container.namespace \in pattern
               PROVE  result.targets = {} /\ result.prepare \notin {"accepted", "panic"}
    BY DEF NamespacesProtected
  <2>1. hasDisallowedK8sNamespaceLabel(request.config, request.container)
    <3>1. request.config \in Config
      BY DEF IInv, TargetRequest
    <3>2. pattern \subseteq Namespaces /\ NoLabel \notin Namespaces
      BY <3>1, PreparationAssumption DEF Config
    <3> QED BY <3>2 DEF hasDisallowedK8sNamespaceLabel, DisallowK8sNamespaces
  <2>2. result.targets = {}
    BY <2>1 DEF IInv, DiscoverTargets, ignoreContainer, Listed
  <2>3. result.prepare \in {"not found", "disallowed"}
    BY <2>1 DEF IInv, getContainerTarget, Known
  <2> QED BY <2>2, <2>3
<1> QED BY <1>1, IInvCorrect, PTL

\* Adding the runtime to a plain id and removing it again gives the id.
LEMMA PrefixRemoved ==
  ASSUME NEW id \in [prefix : {""}, length : {3, 64}], NEW runtime
  PROVE  /\ RemovePrefix(AddPrefix(id, runtime)) = id
         /\ AddPrefix(id, runtime).length = id.length
<1>1. AddPrefix(id, runtime) = [id EXCEPT !.prefix = runtime]
  BY DEF AddPrefix
<1> DEFINE prefixed == [id EXCEPT !.prefix = runtime]
<1>2. prefixed.length = id.length
  OBVIOUS
<1>3. [prefixed EXCEPT !.prefix = ""] \in [prefix : {""}, length : {3, 64}]
  OBVIOUS
<1>4. [prefixed EXCEPT !.prefix = ""].length = id.length
  OBVIOUS
<1>5. [prefixed EXCEPT !.prefix = ""] = id
  BY <1>3, <1>4
<1> QED BY <1>1, <1>2, <1>5 DEF RemovePrefix

\* For every configuration and container, what is published can be attacked.
THEOREM PublishedIsAttackableCorrect == Spec => []PublishedIsAttackable
<1>1. IInv => PublishedIsAttackable
  <2> SUFFICES ASSUME IInv, kind = "target", done, result.targets # {}, request.known,
                      ~(request.steadybitLabel /\ request.container.id.length < 8)
               PROVE  result.prepare = "accepted"
    BY DEF PublishedIsAttackable
  <2> DEFINE c == request.container
             published == mapTarget(c, request.runtime).containerId
  <2>1. c.id \in [prefix : {""}, length : {3, 64}]
    <3>1. request \in TargetRequest
      BY DEF IInv
    <3>2. c \in Container
      BY <3>1 DEF TargetRequest
    <3> HIDE DEF c
    <3> QED BY <3>2 DEF Container
  <2>2. ~hasDisallowedK8sNamespaceLabel(request.config, c)
    BY DEF IInv, DiscoverTargets, ignoreContainer, Listed
  <2>3. published = AddPrefix(c.id, request.runtime)
    BY DEF mapTarget
  <2>4. RemovePrefix(published) = c.id /\ published.length = c.id.length
    <3> HIDE DEF c, published
    <3> QED BY <2>1, <2>3, PrefixRemoved
  <2>5. {k \in Known : k.id = RemovePrefix(published)} = {c}
    BY <2>4 DEF Known
  <2>6. result.prepare = getContainerTarget(request.config, Known, published, request.steadybitLabel)
    BY DEF IInv
  <2> HIDE DEF published
  <2> QED BY <2>2, <2>4, <2>5, <2>6 DEF getContainerTarget
<1> QED BY <1>1, IInvCorrect, PTL
=============================================================================
