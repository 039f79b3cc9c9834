\* Three containers of one pod, two attacks, with fairness.
SPECIFICATION PodFairSpec
CONSTANTS
  HostNetns = host
  Netns = {host, pod}
  NoNetns = NoNetns
  NoEntry = NoEntry
  Attacks = {delay, loss}
  Experiments = {x1}
  Exec = {e1, e2, e3}
  DisallowHostNetwork = FALSE
PROPERTIES ClaimFreed ImplementsLease
