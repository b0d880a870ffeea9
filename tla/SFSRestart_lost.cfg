\* Expected to fail: one file, and the directory read back.
SPECIFICATION RemountSpec
CONSTANTS
  Names = {11}
  Data = {}
  Writes = {}
  Reads = {}
  WriteSeeks = {}
  ReadSeeks = {}
  NUM_DATA_BLOCKS = 4
  NUM_DATA_BLOCKS_PER_INODE = 2
  BLOCK_SIZE = 1
  ENTRY_SIZE = 1
  LastInodes = {3}
CHECK_DEADLOCK FALSE
PROPERTIES
  RemountKeepsFiles
