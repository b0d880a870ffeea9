\* The readers come back once, so that they meet a writer in the queue.
\* No symmetry, since liveness is checked.
SPECIFICATION FairSpec
CONSTANTS
  r1 = r1
  r2 = r2
  w1 = w1
  w2 = w2
  Readers <- MCReaders
  Writers <- MCWriters
  NUMBER_OF_READS = 2
  NUMBER_OF_WRITES = 1
  IntSize = 2
INVARIANTS
  TypeOK
  IndInv
  Exclusion
  MutexGuardsCount
  FirstReaderNeverBlocks
PROPERTIES
  ImplementsRWLock
  NoReaderPassesWriter
  Termination
