SPECIFICATION FairSpec
CONSTANTS
  Stages = 2
  Tools = 1
  Logons = 3
  Timeout = 9
  Grace = 5
  Window = 2
  Tries = 2
  SelfRestart = 1
  BootTime = 1
  Faults <- AllFaults
  MaxFaults = 3
INVARIANTS
  ProvisionedMeansDone
  FailureIsFinal
PROPERTIES
  CallReturns
  InstallEnds
CHECK_DEADLOCK FALSE
