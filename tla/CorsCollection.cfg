SPECIFICATION Spec
CONSTANTS
  FixHold = 3
  FloatHold = 2
  WaitTimeout = 5
  Duration = 3
  FloatDuration = 4
  ConvergeHold = 2
  Jitter = 1
  Backoff <- Pauses
  Limit = 5
  SlowConnect = 2
  Horizon = 7
CHECK_DEADLOCK FALSE
INVARIANTS GradeIsOfSamples
PROPERTIES AdmittedAfterHold WaitsEnd
