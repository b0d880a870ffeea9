\* Two files of four direct blocks and a table of pointers, on a disk of four blocks
\* that fills up in the middle of a write and before the second file has a block of
\* the directory; blocks of two words, which writes straddle; seeks to the beginning
\* and beyond the largest file, of twelve words.  Contents name no block.
SPECIFICATION Spec
CONSTANTS
  Names = {11, 12}
  Data = {100}
  Writes = {11}
  Reads = {20}
  WriteSeeks = {0, 13}
  ReadSeeks = {}
  NUM_DATA_BLOCKS = 4
  NUM_DATA_BLOCKS_PER_INODE = 4
  BLOCK_SIZE = 2
  ENTRY_SIZE = 2
CHECK_DEADLOCK FALSE
INVARIANTS
  TypeOK
  OneDescriptorPerFile
  ReadPtrInFile
  BitmapSaved
  InodesSaved
  OneOwner
  OwnedIsMarked
  OwnersInv
  IndInv
PROPERTIES
  ReleasesOnlyItsOwn
