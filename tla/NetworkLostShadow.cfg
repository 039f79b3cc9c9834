\* The answer to a shadow's Start is lost.
SPECIFICATION HistorySpec
CONSTANTS
  HostNetns = host
  Netns = {host, pod}
  NoNetns = NoNetns
  NoEntry = NoEntry
  Attacks = {delay}
  Experiments = {x1}
  Exec = {e1, e2}
  DisallowHostNetwork = FALSE
  MaxFaults = 1
PROPERTY ShadowsSparePrimaries
