\* Every text file of at most four lines, and every way to cut a stream of three
\* objects into at most three containers, the last of which may be truncated.
CONSTANTS
  Extensions = {"asc", "trc", "blf", "other"}
  Lines <- MCLines
  MaxLines = 4
  Streams <- MCStreams
  Cuts <- MCCuts
  MaxContainers = 3
SPECIFICATION FairSpec
INVARIANTS
  MixedOnlyAfterLoss
  NumbersHaveNoGaps
PROPERTIES
  ImplementsLogReader
  ReadingEnds
\* A file that was read is not read again.
CHECK_DEADLOCK FALSE
