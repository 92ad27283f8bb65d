\* Three callers; the defaults of __init__ (3 failures, 30 seconds).
SPECIFICATION FairSpec
CONSTANTS
  Callers = {c1, c2, c3}
  FailThreshold = 3
  OpenDuration = 30
  NONE = NONE
INVARIANTS
  TypeOK
  StoreConsistent
PROPERTIES
  FailedTrialReopens
  ImplementsMachine
  OpenEnds
