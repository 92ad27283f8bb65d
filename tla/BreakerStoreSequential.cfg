SPECIFICATION FairSpec
CONSTANTS
  Callers = {c1}
  FailThreshold = 3
  OpenDuration = 30
  MaxLead = 0
  MaxCrashes = 0
  NONE = NONE
PROPERTIES
  ImplementsAtomic
  ImplementsDocstring
