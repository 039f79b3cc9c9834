\* Each kind of attack, two restarts, with fairness.
SPECIFICATION FairSpec
CONSTANTS
  Exec = {e1}
  MaxRestarts = 2
INVARIANTS TypeOK StoppedEndedWell TargetGoneIsNoError StopLeavesNone
PROPERTY FailureTold
