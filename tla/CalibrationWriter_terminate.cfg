SPECIFICATION Spec
CONSTANTS
  Plans = {"survey"}
  Earlier <- MCEarlier
  MaxFaults = 0
  MaxLies = 0
  MaxLosses = 0
CHECK_DEADLOCK FALSE
PROPERTY TerminatedIsWritten
