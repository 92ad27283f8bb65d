SPECIFICATION Spec
CONSTANTS
  Files = {"top", "unit", "solo"}
  SUPPORT = "conftest.py"
  CanHold <- Holdings
  Outcome <- ContentReport
  SuffixOf <- Suffixes
  Manifests <- ManifestShapes
  Calls <- CallShapes
  ABSENT = ABSENT
  MALFORMED = MALFORMED
  NAMELESS = NAMELESS
  BLANK = BLANK
  NONE = NONE
  MaxCalls = 1
  MaxEdits = 2
INVARIANTS
  TypeOK
  PassIsEarned
  UndisturbedPassRanPins
  UndisturbedIsExact
  ErrorXorEvidence
  ReplaysIffUnchanged
  ChangedVerdictRefused
  DriftChangesFingerprint
CHECK_DEADLOCK FALSE
