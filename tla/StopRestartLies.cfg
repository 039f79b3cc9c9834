\* A restart during the grace period.
SPECIFICATION Spec
CONSTANTS
  Exec = {e1}
  Containers = {c1}
  MaxRestarts = 1
INVARIANT StoppedDespiteRestart
