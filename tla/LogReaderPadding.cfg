\* Cuts in paddings included.
CONSTANTS
  Extensions = {"blf"}
  Lines <- MCLines
  MaxLines = 0
  Streams <- MCStreams
  Cuts <- MCCuts
  MaxContainers = 3
SPECIFICATION Spec
INVARIANT NoCutMatters
\* A file that was read is not read again.
CHECK_DEADLOCK FALSE
