\* One chart, one size of it, one filter and one colour; every order of loads.
CONSTANTS
  empty = empty
  full = full
  none = none
  some = some
  NoFile = nofile
  LogOf <- MCLogOf
  NoFiles = none
  DbOf <- MCDbOf
  Columns = {"name"}
  Expressions <- MCExpressions
  Colors = {"red"}
  Span <- MCSpan
  MaxCharts = 1
  MaxZoom = 0
  defaultMinChartSize = 1
  defaultYTick = 1
  defaultTickPerSec = 1
  defaultWidthPerSec = 1
  minChartSizeStep = 1
SPECIFICATION Spec
INVARIANTS
  ScreenIsOfTheFiles
  LabelIsOfThisLog
PROPERTIES
  WaitingIsSafe
\* The window is closed, or undefined behaviour ends the model.
CHECK_DEADLOCK FALSE
