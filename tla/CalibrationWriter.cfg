SPECIFICATION Spec
CONSTANTS
  Plans = {"manual", "cors", "external", "survey", "restoreFixed", "restoreSurvey", "restoreDisabled"}
  Earlier <- MCEarlier
  MaxFaults = 1
  MaxLies = 1
  MaxLosses = 1
CHECK_DEADLOCK FALSE
INVARIANTS SuccessIsTrue NotWrittenKeepsNvm RevertedIsRestored
PROPERTIES EvictedHandsOff CancelEnds
