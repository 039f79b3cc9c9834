\* Two executions on one container, one restart, with fairness.
SPECIFICATION FairSpec
CONSTANTS
  Exec = {e1, e2}
  Containers = {c1}
  MaxRestarts = 1
INVARIANTS TypeOK StoppedIsStopped
PROPERTIES NoSignalAfterStop StopAnswers GoroutinesEnd
