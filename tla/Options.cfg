\* Two addresses and two ports; limits and loads around the points where the
\* rounding changes.
SPECIFICATION Spec
CONSTANTS
  Addresses = {1, 2}
  Ports = {1, 2}
  OwnAddresses = {1}
  OwnPorts = {2}
  MaxExcludes = 2
  Quotas = {0, 900, 5000, 20000, 100000, 150000}
  Periods = {7000, 100000}
  CpuCounts = {4}
  Workers = {0, 1, 3}
  Loads = {1, 9, 60, 100}
  Memories = {0, 512, 102399, 204800, 10000000}
  Percentages = {1, 50, 100, 150}
  Nets = {{1}, {2}, {1, 2}}
  PortRanges = {{1}, {1, 2}}
  Hostnames = {"host"}
  MaxIncludes = 1
  MaxExcludeIps = 2
  MaxRestricted = 1
  Namespaces = {"kube-system", "shop", ""}
  Patterns = {{"kube-system"}, {"shop"}, {"kube-system", "shop", ""}}
INVARIANTS CpuShareIsMet MemoryShareIsMet ProtectedSpared StaysWithinRequest NarrowingTold NamespacesProtected PublishedIsAttackable

CHECK_DEADLOCK FALSE
