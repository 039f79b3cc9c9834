\* One container and two executions that pause it, each Stop up to twice.
SPECIFICATION FairSpec
CONSTANTS
  Containers = {c1}
  Exec = {e1, e2}
  MaxRepeats = 1
INVARIANTS TypeOK NoSilentPause
PROPERTIES PauseLasts PauseEnds ProbeFollows
