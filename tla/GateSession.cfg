SPECIFICATION SessionSpec
CONSTANTS
  Files = {"top", "unit"}
  SUPPORT = "conftest.py"
  CanHold <- SessionHoldings
  Outcome <- ContentReport
  SuffixOf <- Suffixes
  Manifests <- SessionManifests
  Calls <- SessionCalls
  Defects <- FieldDefects
  ABSENT = ABSENT
  MALFORMED = MALFORMED
  NAMELESS = NAMELESS
  BLANK = BLANK
  NONE = NONE
  TORN = TORN
  MaxCalls = 2
  MaxEdits = 1
INVARIANTS
  SessionTypeOK
  ExitZeroIsBacked
  DamagedIsRefused
PROPERTIES
  VerifiesIffAsRecorded
CHECK_DEADLOCK FALSE
