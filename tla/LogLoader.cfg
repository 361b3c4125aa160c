\* Two readable files and one the parser throws on, four loads.
CONSTANTS
  MaxJobs = 4
  Inputs = {asc, blf, broken}
  NoInput = NoInput
  Unreadable = {broken}
SPECIFICATION FairSpec
INVARIANTS
  ResultAvailable
  SettledShowsPath
  LoadingIsHonest
  EndsOnlyOnNamedFile
PROPERTIES
  LoadCompletes
  ImplementsLatestWins
\* The user may stop, and a closed window or an uncaught exception ends the program.
CHECK_DEADLOCK FALSE
