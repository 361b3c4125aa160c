\* The table, its menu and filter, the list of messages and its colours.
CONSTANTS
  Logs <- MCLogs
  Dbs <- MCDbs
  Columns = {"id", "name"}
  Expressions <- MCExpressions
  Colors = {"red"}
SPECIFICATION Spec
INVARIANTS
  FilterIsCurrent
  HighlightsAreOfThisLog
  ListsAreCurrent
  ColorIsShown
PROPERTIES
  HighlightsUnderMouse
  UndefinedOnlyWhenStale
\* Undefined behaviour ends the model.
CHECK_DEADLOCK FALSE
