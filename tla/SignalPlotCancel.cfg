\* The Cancel button of the dialog; every setting at its lower bound.
CONSTANTS
  short = short
  long = long
  EmptyLog = empty
  Dbs <- MCDbs
  Logs <- MCLogs
  Span <- MCSpan
  MaxCharts = 3
  defaultMinChartSize = 5
  minChartSizeStep = 5
  defaultYTick = 1
  defaultTickPerSec = 2
  defaultWidthPerSec = 1
  MaxZoom = 0
SPECIFICATION Spec
PROPERTY CancelAddsNothing
CHECK_DEADLOCK FALSE
