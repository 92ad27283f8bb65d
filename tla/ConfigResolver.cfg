SPECIFICATION Spec
CONSTANTS
  Threads = {t1, t2}
  TTL = 2
  NONE = NONE
  ABSENT = ABSENT
  MaxTime = 5
  MaxEdits = 2
INVARIANTS
  TypeOK
  BoundedStaleness
CHECK_DEADLOCK FALSE
