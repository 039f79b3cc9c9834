\* Three containers, two attacks, two experiments; of one pod, or one
\* experiment with some on the host network or without a namespace.
SPECIFICATION MixedSpec
CONSTANTS
  HostNetns = host
  Netns = {host, pod}
  NoNetns = NoNetns
  NoEntry = NoEntry
  Attacks = {delay, loss}
  Experiments = {x1, x2}
  Exec = {e1, e2, e3}
  DisallowHostNetwork = FALSE
SYMMETRY ExecSymmetry
INVARIANTS TypeOK RefCount ClaimsAgree SinglePrimary RunningIntact RulesOwned HostNetworkSpared
