\* Expected to fail: one write of one word into a new block.
SPECIFICATION Spec
CONSTANTS
  Names = {11}
  Data = {100}
  Writes = {1}
  Reads = {}
  WriteSeeks = {}
  ReadSeeks = {}
  NUM_DATA_BLOCKS = 5
  NUM_DATA_BLOCKS_PER_INODE = 2
  BLOCK_SIZE = 1
  ENTRY_SIZE = 1
CHECK_DEADLOCK FALSE
PROPERTIES
  LastWordReadsBack
