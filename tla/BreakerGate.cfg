SPECIFICATION FairSpec
CONSTANTS
  Callers = {c1, c2}
  FailThreshold = 2
  OpenDuration = 2
  NONE = NONE
  Calls <- CallShapes
  MaxLost = 1
INVARIANTS
  TypeOK
  TrippedIffRepeatedErrors
PROPERTIES
  OutageTrips
  RecoveryCloses
