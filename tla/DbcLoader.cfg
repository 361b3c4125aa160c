\* Two lists of files and the empty list of a cancelled dialog, four loads.
CONSTANTS
  MaxJobs = 4
  Inputs = {body, chassis, none}
  NoInput = NoInput
  NoFiles = none
SPECIFICATION FairSpec
INVARIANTS
  ResultAvailable
PROPERTIES
  LoadCompletes
  ImplementsLatestWins
\* The user may stop, and a closed window ends the program.
CHECK_DEADLOCK FALSE
