\* Files of six lines in all: a message of two signals and a VAL_ line, or
\* three messages, fit.
CONSTANTS
  i1 = i1
  i2 = i2
  speed = speed
  rpm = rpm
  Ids <- MCIds
  Names <- MCNames
  MaxLines = 6
SYMMETRY Symmetry
SPECIFICATION ParserSpec
INVARIANTS
  WellFormedFilesAreRead
  DbInLineOrder
\* The files end.
CHECK_DEADLOCK FALSE
