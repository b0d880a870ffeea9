\* Expected to fail: two readers add up their waits at once.
SPECIFICATION Spec
CONSTANTS
  r1 = r1
  r2 = r2
  w1 = w1
  Readers = {r1, r2}
  Writers = {w1}
  NUMBER_OF_READS = 1
  NUMBER_OF_WRITES = 1
  IntSize = 2
INVARIANTS
  ReadAverageComplete
