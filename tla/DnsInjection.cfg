\* One execution, any two faults, with fairness.
SPECIFICATION FairSpec
CONSTANTS
  Exec = {e1}
  DisallowHostNetwork = FALSE
  MaxFaults = 2
INVARIANTS TypeOK NoOrphan
PROPERTIES NoFalseAlarm HandlesFreed ExitTold
