SPECIFICATION FairSpec
CONSTANTS
  Lines <- FewLines
  NO_REPORT = NO_REPORT
  NotADirectory = NotADirectory
INVARIANTS
  TypeOK
  NamesThePhase
  ConfidentMeansLinear
PROPERTIES
  ReportsNeverGoBack
  AnswersSettle
