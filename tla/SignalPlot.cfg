\* Charts, menu and dialog; the settings, of which all but the ticks start at
\* their lower bound.
CONSTANTS
  short = short
  long = long
  EmptyLog = empty
  Dbs <- MCDbs
  Logs <- MCLogs
  Span <- MCSpan
  MaxCharts = 2
  defaultMinChartSize = 5
  minChartSizeStep = 5
  defaultYTick = 1
  defaultTickPerSec = 2
  defaultWidthPerSec = 1
  MaxZoom = 1
SPECIFICATION Spec
INVARIANTS
  RowsMatchCharts
  ChartsShowCurrentLog
  ChartsFollowSettings
PROPERTIES
  UndefinedOnlyWhenStale
  AddsWhatIsShown
\* Undefined behaviour ends the model.
CHECK_DEADLOCK FALSE
