\* The Stop after a failed Apply reverts what another execution has installed.
SPECIFICATION OrdinarySpec
CONSTANTS
  HostNetns = host
  Netns = {host, pod}
  NoNetns = NoNetns
  NoEntry = NoEntry
  Attacks = {delay}
  Experiments = {x1}
  Exec = {e1, e2}
  DisallowHostNetwork = FALSE
SYMMETRY ExecSymmetry
PROPERTY OnlyOwnersRevert
