\* Pipes and commands follow one another, with a ^C or ^Z between any two actions; HISTORY
\* wraps.  The bounds on lines and processes make the runs end.
SPECIFICATION FairSpec
CONSTANTS
  Lines <- MCLines
  MAX_LINE_LENGTH = 4
  MEMSET = 3
  MAX_HISTORY_AMOUNT = 2
  Pids = {1, 2, 3, 4}
  MaxLines = 3
  MaxSignals = 1
  MaxFds = 5
CHECK_DEADLOCK FALSE
INVARIANTS
  IndInv
  HistoryShowsTheLast
  ShortLinesAreExact
  NothingRunsAtThePrompt
  PipesDoNotMix
  DescriptorsLost
  CrashCause
PROPERTIES
  ComesBack
