\* Two files of up to four blocks; a kill before or after each write to the disk.
\* The third inode is the last, which a write that is cut off may overwrite.
SPECIFICATION GrowSpec
CONSTANTS
  Names = {11, 12}
  Data = {100}
  Writes = {1, 3}
  Reads = {}
  WriteSeeks = {}
  ReadSeeks = {}
  NUM_DATA_BLOCKS = 5
  NUM_DATA_BLOCKS_PER_INODE = 4
  BLOCK_SIZE = 1
  ENTRY_SIZE = 1
  LastInodes = {4}
CHECK_DEADLOCK FALSE
INVARIANTS
  AllocationOrder
