SPECIFICATION FairSpec
CONSTANTS
  Callers = {c1, c2}
  FailThreshold = 3
  OpenDuration = 2
  MaxLead = 1
  MaxCrashes = 1
  NONE = NONE
INVARIANTS
  TypeOK
PROPERTIES
  OpenEnds
  SelfHeals
  OutageTrips
