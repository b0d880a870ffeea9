--------------------------- MODULE SimpleFileSystem ---------------------------
(***************************************************************************)
(* file-system/sfs_api.c: the directory, the inodes, the descriptors and   *)
(* the bitmap in memory, their copies on the emulated disk, and the calls  *)
(* that move one to the other.                                             *)
(*                                                                         *)
(* A block is a row of words, each as long as a block_ptr, and a word is   *)
(* the pair of ints it holds, whatever it is read as:                      *)
(*   a block pointer     its block_id and block_end                        *)
(*   a directory entry   its inode_index and its fname (an int; the rest   *)
(*                       of the entry's words are 0)                       *)
(*   file contents       the int written, and 0                            *)
(* because the program itself reads one as another: a pointer that nobody  *)
(* has set is 0, which names block 0, where the directory is.              *)
(*                                                                         *)
(* sfs_fopen (of a new file), sfs_fwrite and sfs_remove are one step up to *)
(* each write to the disk, a table or a run of zeroed blocks counting as   *)
(* one write.  Every other call is one step; a call that fails and changes *)
(* nothing is no step.                                                     *)
(*                                                                         *)
(* Left out: directories of more entries than the root's direct pointers   *)
(* lead to, and stores outside the bitmap by sfs_remove of a file whose    *)
(* pointers are wild.                                                      *)
(***************************************************************************)
EXTENDS Integers, FiniteSets, FiniteSetsExt

CONSTANTS
  NUM_DATA_BLOCKS,           \* also the entries of the other three tables
  NUM_DATA_BLOCKS_PER_INODE, \* direct pointers of an inode
  BLOCK_SIZE,                \* in words: also the pointers of a block
  ENTRY_SIZE,                \* of a dir_entry, in words
  Names,                     \* of files, as ints; none is the empty name 0
  Data,                      \* file contents, as ints
  Writes, Reads,             \* how much clients write and read at a time
  WriteSeeks, ReadSeeks      \* where they seek to

NULL == -1
ROOT == 1
DIR_ENTRIES_PER_BLOCK == BLOCK_SIZE \div ENTRY_SIZE

ASSUME SizesAssumption ==
  /\ NUM_DATA_BLOCKS \in Nat /\ NUM_DATA_BLOCKS > 2
  /\ NUM_DATA_BLOCKS_PER_INODE \in Nat \ {0}
  /\ BLOCK_SIZE \in Nat \ {0} /\ ENTRY_SIZE \in 1 .. BLOCK_SIZE
  /\ NUM_DATA_BLOCKS >= NUM_DATA_BLOCKS_PER_INODE * DIR_ENTRIES_PER_BLOCK

(* File contents read as a block pointer name a block, if they are below   *)
(* NUM_DATA_BLOCKS, or lie beyond the disk.  Left out are negative ints,   *)
(* and the four that name the blocks of the bitmap, behind the data.       *)
ASSUME ClientsAssumption ==
  /\ Names \subseteq Nat \ {0}
  /\ Data \subseteq Nat
  /\ Writes \cup Reads \subseteq Nat \ {0}
  /\ WriteSeeks \cup ReadSeeks \subseteq Nat

VARIABLES
  inode_arr, dir_entry_arr, file_descriptor_table, bitmap,
  disk_inodes, disk_blocks, disk_bitmap,
  call          \* the call in progress: its next step and its locals

disk == <<disk_inodes, disk_blocks, disk_bitmap>>
vars == <<inode_arr, dir_entry_arr, file_descriptor_table, bitmap, disk, call>>

-----------------------------------------------------------------------------
Blocks == 0 .. NUM_DATA_BLOCKS - 1
Slots  == 0 .. NUM_DATA_BLOCKS - 1   \* of the directory and of the fdt
Inodes == 1 .. NUM_DATA_BLOCKS - 1
Direct == 0 .. NUM_DATA_BLOCKS_PER_INODE - 1
Offset == 0 .. BLOCK_SIZE - 1
MaxOffset == BLOCK_SIZE * (NUM_DATA_BLOCKS_PER_INODE + BLOCK_SIZE)

Word(a, b) == [id |-> a, end |-> b]
Zero       == Word(0, 0)
NullPtr    == Word(NULL, 0)
Idle       == [step |-> "idle"]

(* The least of a set of indices, or -1. *)
First(S) == IF S = {} THEN NULL ELSE Min(S)

find_dir_index_by_fname(n) == First({e \in Slots : dir_entry_arr[e].fname = n})
find_free_inode     == First({j \in Inodes \ {ROOT} : inode_arr[j].link_count < 1})
find_free_dir_entry == First({e \in Slots : dir_entry_arr[e].inode_index = NULL})
find_free_fdt_entry == First({f \in Slots : file_descriptor_table[f].inode_index = NULL})

(* alloc_block() works on the bitmap it reads from the disk, and saves it. *)
FreeBlock(map) == First({b \in Blocks : map[b] = 0})
Taken(map, b)  == IF b = NULL THEN map ELSE [map EXCEPT ![b] = 1]

(* The memcpy of sizeof(int) * 12 bytes sets half of the direct pointers.  *)
init_new_file(old) ==
  [file_size |-> 0, file_end |-> 0, link_count |-> 1,
   data_blocks |-> [k \in Direct |-> IF k < NUM_DATA_BLOCKS_PER_INODE \div 2
                                        THEN NullPtr ELSE old.data_blocks[k]],
   singly_indirect_ptr |-> NullPtr]

(* load_save_dir(1) writes the slices of the directory to the root's       *)
(* blocks in turn: a block that two pointers name keeps the later slice.   *)
Slice(dir, k) ==
  [o \in Offset |->
     LET e == k * DIR_ENTRIES_PER_BLOCK + o \div ENTRY_SIZE
     IN  IF o % ENTRY_SIZE = 0 /\ o \div ENTRY_SIZE < DIR_ENTRIES_PER_BLOCK
           THEN Word(dir[e].inode_index, dir[e].fname) ELSE Zero]

DirSaved(blocks, root, dir) ==
  LET slices(b) == {k \in Direct : root.data_blocks[k].id = b}
  IN  [b \in Blocks |-> IF slices(b) = {} THEN blocks[b] ELSE Slice(dir, Max(slices(b)))]

(* get_new_file_size(): the block_end of every pointer that is not NULL.   *)
SumOfEnds(ptrs) == MapThenSumSet(LAMBDA k : IF ptrs[k].id = NULL THEN 0 ELSE ptrs[k].end,
                                 DOMAIN ptrs)
get_new_file_size(inode) ==
  SumOfEnds(inode.data_blocks)
    + IF inode.singly_indirect_ptr.id = NULL THEN 0
      ELSE SumOfEnds(disk_blocks[inode.singly_indirect_ptr.id])

-----------------------------------------------------------------------------
ZeroInode == [file_size |-> 0, file_end |-> 0, link_count |-> 0,
              data_blocks |-> [k \in Direct |-> Zero], singly_indirect_ptr |-> Zero]
NoEntry   == [inode_index |-> NULL, fname |-> 0]
NoFile    == [inode_index |-> NULL, fname |-> 0, read_ptr |-> 0, write_ptr |-> 0]
init_fresh_disk == [b \in Blocks |-> [o \in Offset |-> Zero]]

(* mksfs(1), the first call of a new process. *)
Init ==
  /\ inode_arr = [j \in Inodes |-> IF j = ROOT THEN init_new_file(ZeroInode) ELSE ZeroInode]
  /\ dir_entry_arr = [e \in Slots |-> NoEntry]
  /\ file_descriptor_table = [f \in Slots |-> NoFile]
  /\ bitmap = [b \in Blocks |-> 0]
  /\ disk_inodes = inode_arr
  /\ disk_blocks = DirSaved(init_fresh_disk, inode_arr[ROOT], dir_entry_arr)
  /\ disk_bitmap = bitmap
  /\ call = Idle

-----------------------------------------------------------------------------
(* sfs_fopen *)

OpenFile(n, e) ==
  LET f == find_free_fdt_entry
      j == dir_entry_arr[e].inode_index
  IN  file_descriptor_table' =
        IF f = NULL THEN file_descriptor_table
        ELSE [file_descriptor_table EXCEPT ![f] =
                [inode_index |-> j, fname |-> n,
                 read_ptr |-> 0, write_ptr |-> inode_arr[j].file_end]]

(* A mutant, as are those below: every sfs_fopen takes a new descriptor. *)
FOpenAgain(n) ==
  /\ call = Idle
  /\ find_dir_index_by_fname(n) # NULL
  /\ OpenFile(n, find_dir_index_by_fname(n))
  /\ UNCHANGED <<inode_arr, dir_entry_arr, bitmap, disk, call>>

(* A file that has a descriptor under its name already gets no second one. *)
FOpenExisting(n) ==
  /\ call = Idle
  /\ find_dir_index_by_fname(n) # NULL
  /\ \A f \in Slots : file_descriptor_table[f].fname # n
  /\ OpenFile(n, find_dir_index_by_fname(n))
  /\ UNCHANGED <<inode_arr, dir_entry_arr, bitmap, disk, call>>

(* A new file takes an inode, an entry, and a block for the entry if the   *)
(* root has none for it -- without which it fails, but keeps the inode.    *)
FOpenNew(n) ==
  LET e == find_free_dir_entry
      j == find_free_inode
      k == e \div DIR_ENTRIES_PER_BLOCK
      b == FreeBlock(disk_bitmap)
      withFile == [inode_arr EXCEPT ![j] = init_new_file(@)]
      needsBlock == inode_arr[ROOT].data_blocks[k].id = NULL
      slice == e .. e + DIR_ENTRIES_PER_BLOCK - 1
      cleared == [x \in Slots |-> IF needsBlock /\ x \in slice
                                    THEN [dir_entry_arr[x] EXCEPT !.inode_index = NULL]
                                    ELSE dir_entry_arr[x]]
  IN  /\ call = Idle
      /\ find_dir_index_by_fname(n) = NULL
      /\ e # NULL /\ j # NULL
      /\ k \in Direct                    \* bound: no indirect directory block
      /\ IF needsBlock
           THEN /\ inode_arr' = [withFile EXCEPT ![ROOT].data_blocks[k].id = b]
                /\ disk_bitmap' = Taken(disk_bitmap, b) /\ bitmap' = disk_bitmap'
           ELSE inode_arr' = withFile /\ UNCHANGED <<disk_bitmap, bitmap>>
      /\ IF needsBlock /\ b = NULL
           THEN UNCHANGED <<dir_entry_arr, call>>
           ELSE /\ dir_entry_arr' = [cleared EXCEPT ![e] = [inode_index |-> j, fname |-> n]]
                /\ call' = [step |-> "save_dir", op |-> "open", name |-> n, entry |-> e]
      /\ UNCHANGED <<file_descriptor_table, disk_inodes, disk_blocks>>

SaveDir ==
  /\ call.step = "save_dir"
  /\ disk_blocks' = DirSaved(disk_blocks, inode_arr[ROOT], dir_entry_arr)
  /\ call' = [call EXCEPT !.step = "save_inode"]
  /\ UNCHANGED <<inode_arr, dir_entry_arr, file_descriptor_table, bitmap,
                 disk_inodes, disk_bitmap>>

(* For sfs_remove the last step that changes anything: it looks for the    *)
(* file's descriptor, and calls sfs_fclose(-1) if there is none.           *)
SaveInode ==
  /\ call.step = "save_inode"
  /\ disk_inodes' = inode_arr
  /\ call' = IF call.op = "open" THEN [call EXCEPT !.step = "save_bitmap"] ELSE Idle
  /\ UNCHANGED <<inode_arr, dir_entry_arr, file_descriptor_table, bitmap,
                 disk_blocks, disk_bitmap>>

FOpenEnd ==
  /\ call.step = "save_bitmap" /\ call.op = "open"
  /\ disk_bitmap' = bitmap
  /\ OpenFile(call.name, call.entry)
  /\ call' = Idle
  /\ UNCHANGED <<inode_arr, dir_entry_arr, bitmap, disk_inodes, disk_blocks>>

-----------------------------------------------------------------------------
(* sfs_fclose, sfs_frseek, sfs_fwseek, sfs_fread *)

IsOpen(f) == file_descriptor_table[f].inode_index # NULL
InodeOf(f) == inode_arr[file_descriptor_table[f].inode_index]

FClose(f) ==
  /\ call = Idle /\ IsOpen(f)
  /\ file_descriptor_table' = [file_descriptor_table EXCEPT ![f] = NoFile]
  /\ UNCHANGED <<inode_arr, dir_entry_arr, bitmap, disk, call>>

FRSeek(f, loc) ==
  /\ call = Idle /\ IsOpen(f)
  /\ loc <= InodeOf(f).file_end
  /\ file_descriptor_table' = [file_descriptor_table EXCEPT ![f].read_ptr = loc]
  /\ UNCHANGED <<inode_arr, dir_entry_arr, bitmap, disk, call>>

FWSeekAnywhere(f, loc) ==         \* mutant
  /\ call = Idle /\ IsOpen(f)
  /\ file_descriptor_table' = [file_descriptor_table EXCEPT ![f].write_ptr = loc]
  /\ UNCHANGED <<inode_arr, dir_entry_arr, bitmap, disk, call>>

FWSeek(f, loc) ==
  /\ call = Idle /\ IsOpen(f)
  /\ loc <= MaxOffset
  /\ file_descriptor_table' = [file_descriptor_table EXCEPT ![f].write_ptr = loc]
  /\ UNCHANGED <<inode_arr, dir_entry_arr, bitmap, disk, call>>

FReadPastEnd(f, length) ==        \* mutant
  /\ call = Idle /\ IsOpen(f)
  /\ file_descriptor_table[f].read_ptr < InodeOf(f).file_end
  /\ file_descriptor_table' = [file_descriptor_table EXCEPT ![f].read_ptr = @ + length]
  /\ UNCHANGED <<inode_arr, dir_entry_arr, bitmap, disk, call>>

FRead(f, length) ==
  /\ call = Idle /\ IsOpen(f)
  /\ file_descriptor_table[f].read_ptr < InodeOf(f).file_end
  /\ file_descriptor_table' =
       [file_descriptor_table EXCEPT ![f].read_ptr = Min({@ + length, InodeOf(f).file_end})]
  /\ UNCHANGED <<inode_arr, dir_entry_arr, bitmap, disk, call>>

(* What sfs_fread copies out for the word at p of a file.  When the disk   *)
(* refuses the address, block_buffer still has the table of pointers.      *)
WordRead(inode, p) ==
  LET k == p \div BLOCK_SIZE
      o == p % BLOCK_SIZE
      s == inode.singly_indirect_ptr.id
      id == IF k \in Direct THEN inode.data_blocks[k].id
            ELSE IF s = NULL THEN NULL
            ELSE disk_blocks[s][k - NUM_DATA_BLOCKS_PER_INODE].id
  IN  CASE id = NULL      -> Zero
        [] id \in Blocks  -> disk_blocks[id][o]
        [] OTHER          -> disk_blocks[s][o]

-----------------------------------------------------------------------------
(* sfs_fwrite *)

(* The inode is copied, and the loop goes by the copy.  block is that of   *)
(* block_to_write, or of the pointer that goes into the table; over: that  *)
(* something has been written to block NULL, which is the last block of    *)
(* the inode table, and lies there until the inodes are saved.             *)
FWrite(f, d, length) ==
  /\ call = Idle /\ IsOpen(f)
  /\ call' = [step |-> "write", fd |-> f, data |-> d, left |-> length,
              inode |-> InodeOf(f), block |-> NULL, over |-> FALSE]
  /\ UNCHANGED <<inode_arr, dir_entry_arr, file_descriptor_table, bitmap, disk>>

write_ptr   == file_descriptor_table[call.fd].write_ptr
inode_index == file_descriptor_table[call.fd].inode_index
block_num   == write_ptr \div BLOCK_SIZE
block_index == write_ptr % BLOCK_SIZE
num_bytes_to_write == Min({BLOCK_SIZE - block_index, call.left})

MoreToWrite == call.step = "write" /\ call.left > 0 /\ write_ptr < MaxOffset
InDirect    == MoreToWrite /\ block_num \in Direct
InIndirect  == MoreToWrite /\ block_num \notin Direct

Break       == call' = [call EXCEPT !.step = "write", !.left = 0, !.block = NULL]
GoOn(to, b) == call' = [call EXCEPT !.step = to, !.block = b]

(* alloc_block() fails, or the write goes on with b. *)
Allocate(b, to, with) ==
  /\ disk_bitmap' = Taken(disk_bitmap, b) /\ bitmap' = disk_bitmap'
  /\ IF b = NULL THEN Break ELSE GoOn(to, with)
  /\ UNCHANGED <<dir_entry_arr, file_descriptor_table, disk_inodes, disk_blocks>>

AllocateUnsaved(b, to, with) ==   \* mutant: the bitmap is not saved
  /\ bitmap' = Taken(disk_bitmap, b)
  /\ IF b = NULL THEN Break ELSE GoOn(to, with)
  /\ UNCHANGED <<dir_entry_arr, file_descriptor_table, disk>>
FWriteDirectUnsaved ==
  LET b == FreeBlock(disk_bitmap)
  IN  /\ InDirect /\ call.inode.data_blocks[block_num].id = NULL
      /\ inode_arr' = [inode_arr EXCEPT ![inode_index].data_blocks[block_num].id = b]
      /\ AllocateUnsaved(b, "data", NULL)

(* The block allocated goes into the inode, not into the copy, which is    *)
(* what says where the data goes.                                          *)
FWriteDirect ==
  LET b == FreeBlock(disk_bitmap)
  IN  /\ InDirect /\ call.inode.data_blocks[block_num].id = NULL
      /\ inode_arr' = [inode_arr EXCEPT ![inode_index].data_blocks[block_num].id = b]
      /\ Allocate(b, "data", NULL)

(* Likewise the table of pointers: while the copy has none, a new block is *)
(* taken for it on every turn, and the table itself is written to NULL and *)
(* read from there.                                                        *)
table_id    == call.inode.singly_indirect_ptr.id
table_index == block_num - NUM_DATA_BLOCKS_PER_INODE

FWriteIndirect ==
  LET b == FreeBlock(disk_bitmap)
  IN  /\ InIndirect /\ table_id = NULL
      /\ inode_arr' = [inode_arr EXCEPT ![inode_index].singly_indirect_ptr.id = b]
      /\ Allocate(b, "new_table", NULL)

FWriteNewTable ==
  /\ call.step = "new_table"
  /\ call' = [call EXCEPT !.step = "pointer", !.over = TRUE]
  /\ UNCHANGED <<inode_arr, dir_entry_arr, file_descriptor_table, bitmap, disk>>

FWritePointer ==
  LET b == FreeBlock(disk_bitmap)
  IN  /\ \/ call.step = "pointer"
         \/ InIndirect /\ table_id # NULL /\ disk_blocks[table_id][table_index].id = NULL
      /\ Allocate(b, "table", b)
      /\ UNCHANGED inode_arr

WriteTable(b) ==
  /\ call' = [call EXCEPT !.step = "data", !.block = b, !.over = @ \/ table_id = NULL]
  /\ disk_blocks' = IF table_id = NULL THEN disk_blocks
       ELSE [disk_blocks EXCEPT ![table_id][table_index] =
               Word(b, Max({block_index + num_bytes_to_write, @.end}))]
FWriteTable ==
  /\ \/ call.step = "table" /\ WriteTable(call.block)
     \/ /\ InIndirect /\ table_id # NULL
        /\ disk_blocks[table_id][table_index].id # NULL
        /\ WriteTable(disk_blocks[table_id][table_index].id)
  /\ UNCHANGED <<inode_arr, dir_entry_arr, file_descriptor_table, bitmap,
                 disk_inodes, disk_bitmap>>

(* read_blocks() and write_blocks() refuse an address beyond the disk.     *)
OnDisk(b) == b \in Blocks \cup {NULL}

(* The data goes to block b: read, modify, write. *)
Transfer(b) ==
  IF ~OnDisk(b) THEN Break /\ UNCHANGED <<disk_blocks, file_descriptor_table>>
  ELSE /\ disk_blocks' =
            IF b = NULL THEN disk_blocks
            ELSE [disk_blocks EXCEPT ![b] = [o \in Offset |->
                    IF o \in block_index .. block_index + num_bytes_to_write - 1
                      THEN Word(call.data, 0) ELSE @[o]]]
       /\ file_descriptor_table' =
            [file_descriptor_table EXCEPT ![call.fd].write_ptr = @ + num_bytes_to_write]
       /\ call' = [call EXCEPT !.step = "write", !.left = @ - num_bytes_to_write,
                               !.block = NULL, !.over = @ \/ b = NULL]
FWriteData ==
  /\ \/ call.step = "data" /\ Transfer(call.block)
     \/ /\ InDirect /\ call.inode.data_blocks[block_num].id # NULL
        /\ Transfer(call.inode.data_blocks[block_num].id)
  /\ UNCHANGED <<inode_arr, dir_entry_arr, bitmap, disk_inodes, disk_bitmap>>

FWriteEndUnsaved ==               \* mutant
  /\ call.step = "write" /\ ~MoreToWrite
  /\ inode_arr' = [inode_arr EXCEPT ![inode_index].file_end = Max({write_ptr, @})]
  /\ call' = Idle
  /\ UNCHANGED <<dir_entry_arr, file_descriptor_table, bitmap, disk>>

FWriteEnd ==
  /\ call.step = "write" /\ ~MoreToWrite
  /\ inode_arr' = [inode_arr EXCEPT ![inode_index].file_size = get_new_file_size(inode_arr[inode_index]),
                                    ![inode_index].file_end = Max({write_ptr, @})]
  /\ disk_inodes' = inode_arr'
  /\ call' = Idle
  /\ UNCHANGED <<dir_entry_arr, file_descriptor_table, bitmap, disk_blocks, disk_bitmap>>

-----------------------------------------------------------------------------
(* sfs_remove *)

Ids(ptrs) == {ptrs[k].id : k \in DOMAIN ptrs} \cap Blocks

(* Every block the file's pointers name is cleared, on disk and in the     *)
(* bitmap; the block that holds the indirect pointers is not.              *)
Cleared(blocks, ids) ==
  [b \in Blocks |-> IF b \in ids THEN [o \in Offset |-> Zero] ELSE blocks[b]]

FRemove(n) ==
  LET e == find_dir_index_by_fname(n)
      inode == inode_arr[dir_entry_arr[e].inode_index]
      blocks1 == Cleared(disk_blocks, Ids(inode.data_blocks))
      s == inode.singly_indirect_ptr.id
      indirect == IF s = NULL THEN {} ELSE Ids(blocks1[s])
  IN  /\ call = Idle
      /\ e # NULL
      /\ disk_blocks' = Cleared(blocks1, indirect)
      /\ bitmap' = [b \in Blocks |->
           IF b \in Ids(inode.data_blocks) \cup indirect THEN 0 ELSE bitmap[b]]
      /\ call' = [step |-> "save_bitmap", op |-> "remove", entry |-> e]
      /\ UNCHANGED <<inode_arr, dir_entry_arr, file_descriptor_table, disk_inodes, disk_bitmap>>

(* Mutants: the bitmap is not saved; the entry is not reset. *)
FRemoveUnsaved ==
  /\ call.step = "save_bitmap" /\ call.op = "remove"
  /\ dir_entry_arr' = [dir_entry_arr EXCEPT ![call.entry] = NoEntry]
  /\ call' = [call EXCEPT !.step = "save_dir"]
  /\ UNCHANGED <<inode_arr, file_descriptor_table, bitmap, disk>>
FRemoveEntryKept ==
  /\ call.step = "save_bitmap" /\ call.op = "remove"
  /\ disk_bitmap' = bitmap
  /\ call' = [call EXCEPT !.step = "save_dir"]
  /\ UNCHANGED <<inode_arr, dir_entry_arr, file_descriptor_table, bitmap,
                 disk_inodes, disk_blocks>>

(* The inode that is reset is a copy: the one in inode_arr stays in use. *)
FRemoveEntry ==
  /\ call.step = "save_bitmap" /\ call.op = "remove"
  /\ disk_bitmap' = bitmap
  /\ dir_entry_arr' = [dir_entry_arr EXCEPT ![call.entry] = NoEntry]
  /\ call' = [call EXCEPT !.step = "save_dir"]
  /\ UNCHANGED <<inode_arr, file_descriptor_table, bitmap, disk_inodes, disk_blocks>>

-----------------------------------------------------------------------------
Open  == (\E n \in Names : FOpenExisting(n) \/ FOpenNew(n)) \/ FOpenEnd
Save  == SaveDir \/ SaveInode
Use   == \E f \in Slots :
           \/ FClose(f)
           \/ \E loc \in WriteSeeks : FWSeek(f, loc)
           \/ \E loc \in ReadSeeks : FRSeek(f, loc)
           \/ \E length \in Reads : FRead(f, length)
Write == \/ \E f \in Slots, d \in Data, length \in Writes : FWrite(f, d, length)
         \/ FWriteDirect \/ FWriteIndirect \/ FWriteNewTable \/ FWritePointer
         \/ FWriteTable \/ FWriteData \/ FWriteEnd
Remove == (\E n \in Names : FRemove(n)) \/ FRemoveEntry

Next == Open \/ Save \/ Use \/ Write \/ Remove

Spec == Init /\ [][Next]_vars

-----------------------------------------------------------------------------
WordType  == [id : Int, end : Nat]
PtrType   == [id : Blocks \cup {NULL}, end : Nat]
InodeType == [file_size : Nat, file_end : 0 .. MaxOffset, link_count : {0, 1},
              data_blocks : [Direct -> PtrType], singly_indirect_ptr : PtrType]
EntryType == [inode_index : Inodes \cup {NULL}, fname : Names \cup {0}]
FileType  == [inode_index : Inodes \cup {NULL}, fname : Names \cup {0},
              read_ptr : Nat, write_ptr : 0 .. MaxOffset]
BitmapType == [Blocks -> {0, 1}]
BlocksType == [Blocks -> [Offset -> WordType]]
WriteCall  == [step : {"write", "new_table", "pointer", "table", "data"}, fd : Slots,
               data : Data, left : Nat, inode : InodeType, block : Int, over : BOOLEAN]
OpenCall   == [step : {"save_dir", "save_inode", "save_bitmap"}, op : {"open"},
               name : Names, entry : Slots]
RemoveCall == [step : {"save_bitmap", "save_dir", "save_inode"}, op : {"remove"},
               entry : Slots]

(* Every variable has its type: pointers in inodes stay on the disk, and a *)
(* write_ptr stays within the largest file.                                *)
TypeOK ==
  /\ inode_arr \in [Inodes -> InodeType] /\ disk_inodes \in [Inodes -> InodeType]
  /\ dir_entry_arr \in [Slots -> EntryType]
  /\ file_descriptor_table \in [Slots -> FileType]
  /\ bitmap \in BitmapType /\ disk_bitmap \in BitmapType
  /\ disk_blocks \in BlocksType
  /\ call \in {Idle} \cup WriteCall \cup OpenCall \cup RemoveCall

Listed == {e \in Slots : dir_entry_arr[e].inode_index # NULL}
Live   == {ROOT} \cup {dir_entry_arr[e].inode_index : e \in Listed}

(* The bitmap in memory and the one on the disk differ only inside         *)
(* sfs_remove, between clearing blocks and saving: since alloc_block()     *)
(* reads the one on the disk back, a difference at any other time would be *)
(* an allocation or a release undone by the next allocation.               *)
BitmapSaved == bitmap # disk_bitmap => call.step = "save_bitmap" /\ call.op = "remove"

(* Between calls the disk has the inode of every file in the directory, and *)
(* the root's, as they are in memory -- also after calls that failed half   *)
(* way, which return without saving the inodes.                             *)
InodesSaved == call = Idle => \A j \in Live : disk_inodes[j] = inode_arr[j]

(* A file has at most one descriptor, so that there is one read_ptr and one *)
(* write_ptr per file, although sfs_fopen looks for an open descriptor by   *)
(* name and names are used again after sfs_remove (sfs_test.c:92 calls the  *)
(* opposite "opened twice").                                                *)
OneDescriptorPerFile ==
  \A f, g \in Slots :
     IsOpen(f) /\ f # g => file_descriptor_table[f].inode_index
                             # file_descriptor_table[g].inode_index

(* A read_ptr is never past the end of its file, although sfs_frseek checks *)
(* it once and the file may be removed, and its name used again, meanwhile: *)
(* sfs_fread subtracts the one from the other.                              *)
ReadPtrInFile ==
  \A f \in Slots : IsOpen(f) => file_descriptor_table[f].read_ptr <= InodeOf(f).file_end

(* The pointers of an inode, and the blocks they name.  Block 0 is left    *)
(* out: it is what a pointer names that init_new_file() did not set.       *)
Pointers(j) == {<<k, inode_arr[j].data_blocks[k].id>> : k \in Direct}
                 \cup {<<NULL, inode_arr[j].singly_indirect_ptr.id>>}
Owned(j)    == {p \in Pointers(j) : p[2] \in Blocks \ {0}}

Removing == call \in RemoveCall /\ call.step = "save_bitmap"
BeingRemoved == IF Removing THEN {dir_entry_arr[call.entry].inode_index} ELSE {}

(* A step releases no block but those of the file that is being removed.   *)
ReleasesItsOwn ==
  \A j \in Live \ BeingRemoved' : \A p \in Owned(j) :
     bitmap[p[2]] = 1 => bitmap'[p[2]] = 1

(* "release the data blocks used by file" (sfs_api.c:752-753), and no       *)
(* others: no step of any call marks a block of another file, or of the    *)
(* directory, free.  It is so while file contents are no numbers of        *)
(* blocks; but sfs_fwrite takes any contents, and sfs_remove reads as a    *)
(* table of pointers a block that was never written as one.                *)
ReleasesOnlyItsOwn == [][ReleasesItsOwn]_vars

ContentsAreNoPointers == Data \cap Blocks = {}

(* Any contents, as long as no file has lost a block to another's removal. *)
OwnSpec == Init /\ [][Next /\ ReleasesItsOwn]_vars

(* As long as that is so, a block other than block 0 belongs to one pointer *)
(* of one file in the directory (or of the directory), across removals,    *)
(* failed calls and a full disk: alloc_block() gives out none twice.       *)
OneOwner ==
  \A j, m \in Live : \A p \in Owned(j), q \in Owned(m) :
     p[2] = q[2] => j = m /\ p = q

(* Such a block is then marked in the bitmap.                              *)
OwnedIsMarked ==
  call = Idle => \A j \in Live : \A p \in Owned(j) : bitmap[p[2]] = 1

(* As far as names and descriptors go the program would implement           *)
(* FileTable, which has sfs_remove close the file (sfs_api.c:752, :804).     *)
(* It does not: the condition on :806 leaves the descriptor that it finds.  *)
Table == INSTANCE FileTable WITH
  Descriptors <- Slots,
  Files  <- Inodes \ {ROOT},
  named  <- {<<dir_entry_arr[e].fname, dir_entry_arr[e].inode_index>> : e \in Listed},
  opened <- {<<f, file_descriptor_table[f].inode_index>> : f \in {f \in Slots : IsOpen(f)}}

ImplementsFileTable == Table!Spec

(* It does for clients that close a file before they remove it.             *)
ClosedFirst ==
  Removing' => \A f \in Slots :
                 file_descriptor_table[f].inode_index # dir_entry_arr[call'.entry].inode_index
ClosedSpec == Init /\ [][Next /\ ClosedFirst]_vars

-----------------------------------------------------------------------------
(* What else holds in every state, from which the properties above follow. *)

(* The calls of several steps: the file written to is open, and in the     *)
(* middle of a turn of the loop of sfs_fwrite there is room in it; the file *)
(* made is listed and not yet open, the file removed is still listed.      *)
Opening == call \in OpenCall
Writing == call \in WriteCall

CallInv ==
  /\ Writing => IsOpen(call.fd) /\ (call.step # "write" => write_ptr < MaxOffset)
  /\ Removing => call.entry \in Listed
  /\ Opening => /\ call.entry \in Listed
                /\ dir_entry_arr[call.entry].fname = call.name
                /\ \A f \in Slots : file_descriptor_table[f].inode_index
                                      # dir_entry_arr[call.entry].inode_index

(* A listed entry has a name, a file and a block of the directory, the     *)
(* first two to itself, and what is not listed has no name.                *)
DirectoryInv ==
  \A e \in Slots :
    /\ e \in Listed <=> dir_entry_arr[e].fname # 0
    /\ e \in Listed =>
         /\ e \div DIR_ENTRIES_PER_BLOCK \in Direct
         /\ inode_arr[ROOT].data_blocks[e \div DIR_ENTRIES_PER_BLOCK].id # NULL
         /\ \A x \in Listed \ {e} :
              /\ dir_entry_arr[x].fname # dir_entry_arr[e].fname
              /\ dir_entry_arr[x].inode_index # dir_entry_arr[e].inode_index

(* Files have inodes that are in use; what is not in use was never.  The   *)
(* descriptor of a file that is still listed has the name it is listed by. *)
InUse(j) == j # ROOT /\ inode_arr[j].link_count = 1
FilesInv ==
  /\ \A j \in Inodes : inode_arr[j].link_count = 0 => inode_arr[j] = ZeroInode
  /\ \A e \in Listed : InUse(dir_entry_arr[e].inode_index)
  /\ \A f \in Slots : IsOpen(f) =>
       /\ InUse(file_descriptor_table[f].inode_index)
       /\ \A e \in Listed :
            dir_entry_arr[e].inode_index = file_descriptor_table[f].inode_index
              => dir_entry_arr[e].fname = file_descriptor_table[f].fname

(* The last direct pointer of an inode is one that nobody sets.            *)
LastPointer == NUM_DATA_BLOCKS_PER_INODE - 1
UnsetInv ==
  /\ \A j \in Inodes : inode_arr[j].data_blocks[LastPointer].id = 0
  /\ Writing => call.inode.data_blocks[LastPointer].id = 0

(* InodesSaved, also before the last save of sfs_fopen.                    *)
SavedInv ==
  call = Idle \/ (Opening /\ call.step = "save_bitmap")
    => \A j \in Live : disk_inodes[j] = inode_arr[j]

IndInv ==
  /\ TypeOK /\ CallInv /\ DirectoryInv /\ FilesInv
  /\ OneDescriptorPerFile /\ ReadPtrInFile
  /\ UnsetInv /\ BitmapSaved /\ SavedInv

(* In OwnSpec: OwnedIsMarked also in the middle of calls, except for the   *)
(* file that is being removed.                                             *)
MarkedInv ==
  \A j \in Live \ BeingRemoved : \A p \in Owned(j) : bitmap[p[2]] = 1

OwnersInv == OneOwner /\ MarkedInv

(* While contents are no numbers of blocks: only in block 0 and in the     *)
(* directory's blocks a word, read as a pointer, may be NULL or name a     *)
(* block other than 0, so that only there a table gets a new pointer.      *)
DirBlocks == {0} \cup {inode_arr[ROOT].data_blocks[k].id : k \in Direct}
WildWord  == {NULL} \cup (Blocks \ {0})
ContentsInv ==
  /\ \A b \in Blocks \ DirBlocks : \A o \in Offset : disk_blocks[b][o].id \notin WildWord
  /\ Writing /\ call.step \in {"new_table", "pointer", "table"}
       => table_id \in DirBlocks \cup {NULL}

-----------------------------------------------------------------------------
(* "ERROR: data error at offset" (sfs_test.c:168-175): what was written is *)
(* what is read back; here, of the last word written.  Not so: the data    *)
(* for a new block is written to block_id -1.                              *)
LastWordReadsBack ==
  [][FWriteEnd => WordRead(inode_arr'[inode_index], write_ptr - 1) = Word(call.data, 0)]_vars

=============================================================================
