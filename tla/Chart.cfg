\* Every log of up to four messages over two ticks of time, and the mouse
\* anywhere over the chart.
CONSTANTS
  notANumber = notANumber
  NaN = notANumber
  Values <- MCValues
  MaxTime = 1
  MaxLog = 4
SPECIFICATION ChartFairSpec
INVARIANTS
  SpansLogIfPresent
  DataIsTheSignal
  DrawnLineIsData
  SearchIsSound
  LabelsPointUnderMouse
PROPERTY SearchTerminates
\* The functions return.
CHECK_DEADLOCK FALSE
