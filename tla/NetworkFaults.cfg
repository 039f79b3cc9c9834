\* Restarts, repeated Stops and lost answers to Start.
SPECIFICATION PodFaultSpec
CONSTANTS
  HostNetns = host
  Netns = {host, pod}
  NoNetns = NoNetns
  NoEntry = NoEntry
  Attacks = {delay, loss}
  Experiments = {x1}
  Exec = {e1, e2, e3}
  DisallowHostNetwork = FALSE
  MaxFaults = 2
SYMMETRY ExecSymmetry
INVARIANTS NoLeak RulesStillOwned NoForeignRelease LossContained
