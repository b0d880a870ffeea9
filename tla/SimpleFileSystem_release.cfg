\* Expected to fail: a removed file is written to, and a block that was its own
\* becomes a table of pointers, never written as such, that names a block of the
\* directory.
SPECIFICATION Spec
CONSTANTS
  Names = {11, 12}
  Data = {1}
  Writes = {5}
  Reads = {}
  WriteSeeks = {0}
  ReadSeeks = {}
  NUM_DATA_BLOCKS = 4
  NUM_DATA_BLOCKS_PER_INODE = 4
  BLOCK_SIZE = 1
  ENTRY_SIZE = 1
CHECK_DEADLOCK FALSE
PROPERTIES
  ReleasesOnlyItsOwn
