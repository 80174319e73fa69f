SPECIFICATION Spec
CONSTANTS
  Chars <- Letters
  Help <- HelpLine
  Exit <- ExitLine
  Hints <- HintList
  MaxLine = 2
  MaxHistory = 3
  kKept = 2
  kBuf = 4
INVARIANTS
  TypeOK
  ScreenShowsLine
  CrashNeedsTornSave
  HistorySurvives
PROPERTIES
  CompletionKeepsMatches
