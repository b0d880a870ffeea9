\* Two files, and inodes for two creations, on a disk that fills up; blocks
\* of two words; reads and writes at the beginning, behind the first word, and
\* beyond the largest file.  Contents name a block of the directory.
SPECIFICATION FuseSpec
CONSTANTS
  Names = {11, 12}
  Data = {1}
  Writes = {5}
  Reads = {3}
  WriteSeeks = {0, 9}
  ReadSeeks = {0, 1}
  NUM_DATA_BLOCKS = 4
  NUM_DATA_BLOCKS_PER_INODE = 2
  BLOCK_SIZE = 2
  ENTRY_SIZE = 2
  num_inode_blocks = 3
INVARIANTS
  FuseInv
  OnlyFailedSeeksLeak
  RightFile
  TruncatedFileRemains
PROPERTIES
  FirstListingIsComplete
  OperationsReturn
