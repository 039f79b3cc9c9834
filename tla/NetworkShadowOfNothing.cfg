\* The primary fails to apply after one shadow has joined; another one joins.
SPECIFICATION OrdinarySpec
CONSTANTS
  HostNetns = host
  Netns = {host, pod}
  NoNetns = NoNetns
  NoEntry = NoEntry
  Attacks = {delay}
  Experiments = {x1}
  Exec = {e1, e2, e3}
  DisallowHostNetwork = FALSE
SYMMETRY ExecSymmetry
PROPERTY ShadowsFollowAPrimary
