SPECIFICATION Spec
CONSTANTS
  Callers = {c1, c2}
  FailThreshold = 3
  OpenDuration = 1
  MaxLead = 0
  MaxCrashes = 0
  NONE = NONE
PROPERTIES
  TrialFailureReopens
