\* Expected to fail: a command of two words, ^C, and one of one word.
SPECIFICATION Spec
CONSTANTS
  Lines <- MCPlainLines
  MAX_LINE_LENGTH = 4
  MEMSET = 3
  MAX_HISTORY_AMOUNT = 2
  Pids = {1, 2}
  MaxLines = 2
  MaxSignals = 1
  MaxFds = 4
CHECK_DEADLOCK FALSE
INVARIANTS
  WordsEndInNull
