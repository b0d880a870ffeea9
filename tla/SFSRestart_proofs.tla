--------------------------- MODULE SFSRestart_proofs ---------------------------
(***************************************************************************)
(* Proof that a process that creates and writes files may be killed between *)
(* any two writes to the disk.  It goes by the pointers of inodes and the  *)
(* bitmap alone: whatever mksfs(0) makes of the directory and of the last  *)
(* inodes, a pointer is only ever set to a block that alloc_block() has    *)
(* just marked, on the disk as well.                                       *)
(***************************************************************************)
EXTENDS SFSRestart, SimpleFileSystem_proofs

(* Nothing is said of sizes, which may be read from anything. *)
IsInode(r) ==
  /\ r = [file_size |-> r.file_size, file_end |-> r.file_end, link_count |-> r.link_count,
          data_blocks |-> r.data_blocks, singly_indirect_ptr |-> r.singly_indirect_ptr]
  /\ r.data_blocks \in [Direct -> PtrType] /\ r.singly_indirect_ptr \in PtrType

Early == Inodes \ LastInodes
AreInodes(inodes) ==
  inodes = [j \in Inodes |-> inodes[j]] /\ \A j \in Early : IsInode(inodes[j])

Places == Direct \cup {NULL}
PointerAt(inode, k) ==
  IF k = NULL THEN inode.singly_indirect_ptr.id ELSE inode.data_blocks[k].id

Allocated(inodes, map) ==
  /\ AreInodes(inodes)
  /\ \A j \in Early, k \in Places :
       PointerAt(inodes[j], k) \in Blocks \ {0} => map[PointerAt(inodes[j], k)] = 1
  /\ \A j, m \in Early : \A k, l \in Places :
       PointerAt(inodes[j], k) \in Blocks \ {0} /\ PointerAt(inodes[j], k) = PointerAt(inodes[m], l)
         => j = m /\ k = l

AllocInv ==
  /\ disk_bitmap \in BitmapType /\ bitmap = disk_bitmap
  /\ Allocated(inode_arr, disk_bitmap) /\ Allocated(disk_inodes, disk_bitmap)

(* What is marked stays so, and b is now if it is a block.                 *)
Marks(map, map2, b) ==
  /\ \A c \in Blocks : map[c] = 1 => map2[c] = 1
  /\ b \in Blocks => map[b] = 0 /\ map2[b] = 1

(* The pointer at k, and no other, is b.                                   *)
Sets(old, new, k, b) ==
  \A l \in Places : PointerAt(new, l) = IF l = k THEN b ELSE PointerAt(old, l)

(* The pointer at y of inode x names b; others are kept, or name no block. *)
Points(old, new, x, y, b) ==
  \A j \in Early, k \in Places :
    \/ PointerAt(new[j], k) \in {PointerAt(old[j], k), NULL, 0}
    \/ j = x /\ k = y /\ PointerAt(new[j], k) = b

With(inodes, j, r)       == [inodes EXCEPT ![j] = r]
WithBlock(r, k, b)       == [r EXCEPT !.data_blocks[k].id = b]
WithIndirect(r, b)       == [r EXCEPT !.singly_indirect_ptr.id = b]
WithSizes(r, size, end)  == [r EXCEPT !.file_size = size, !.file_end = end]

-----------------------------------------------------------------------------
(* One pointer, at most, is set to a block that was free and now is not;   *)
(* others are kept or name no block.                                       *)
LEMMA PointerAllocated ==
  ASSUME NEW old, NEW map, NEW new, NEW map2, Allocated(old, map), AreInodes(new),
         NEW b, Marks(map, map2, b), NEW x, NEW y, Points(old, new, x, y, b)
  PROVE  Allocated(new, map2)
<1>1. NULL \notin Blocks
  BY Sizes
<1>2. ASSUME NEW j \in Early, NEW k \in Places, PointerAt(new[j], k) \in Blocks \ {0}
      PROVE  /\ map2[PointerAt(new[j], k)] = 1
             /\ \/ PointerAt(new[j], k) = PointerAt(old[j], k) /\ map[PointerAt(new[j], k)] = 1
                \/ j = x /\ k = y /\ PointerAt(new[j], k) = b /\ map[PointerAt(new[j], k)] = 0
  BY <1>1, <1>2 DEF Allocated, Marks, Points
<1>3. ASSUME NEW j \in Early, NEW m \in Early, NEW k \in Places, NEW l \in Places,
             PointerAt(new[j], k) \in Blocks \ {0}, PointerAt(new[j], k) = PointerAt(new[m], l)
      PROVE  j = m /\ k = l
  <2>1. \/ PointerAt(new[j], k) = PointerAt(old[j], k) /\ PointerAt(new[m], l) = PointerAt(old[m], l)
        \/ j = x /\ k = y /\ m = x /\ l = y
    BY <1>2, <1>3
  <2>2. QED
    BY <1>3, <2>1 DEF Allocated
<1>4. QED
  BY <1>2, <1>3 DEF Allocated

(* The other inodes' pointers, the more so if none is set.                 *)
LEMMA StillAllocated ==
  ASSUME NEW inodes, NEW map, NEW map2, Allocated(inodes, map),
         \A c \in Blocks : map[c] = 1 => map2[c] = 1
  PROVE  Allocated(inodes, map2)
BY DEF Allocated

LEMMA BlockTaken ==
  ASSUME NEW map \in BitmapType
  PROVE  LET b == FreeBlock(map)
         IN  b \in Blocks \cup {NULL} /\ Taken(map, b) \in BitmapType /\ Marks(map, Taken(map, b), b)
<1> DEFINE b == FreeBlock(map)
<1>1. /\ b \in Blocks \cup {NULL} /\ Taken(map, b) \in BitmapType
      /\ b # NULL => map[b] = 0 /\ Taken(map, b)[b] = 1
      /\ \A c \in Blocks : map[c] = 1 => Taken(map, b)[c] = 1
  BY Allocation
<1>2. NULL \notin Blocks
  BY Sizes
<1>3. QED
  BY <1>1, <1>2 DEF Marks

-----------------------------------------------------------------------------
(* The ways in which inodes are changed *)

LEMMA DirectSet ==
  ASSUME NEW r, IsInode(r), NEW k \in Direct, NEW b \in Blocks \cup {NULL}
  PROVE  LET new == WithBlock(r, k, b)
         IN  IsInode(new) /\ Sets(r, new, k, b)
<1>1. PICK size, end, links, blocks, ptr :
        /\ r = [file_size |-> size, file_end |-> end, link_count |-> links,
                data_blocks |-> blocks, singly_indirect_ptr |-> ptr]
        /\ blocks \in [Direct -> PtrType] /\ ptr \in PtrType
  BY DEF IsInode
<1> DEFINE set == [blocks EXCEPT ![k].id = b]
<1>2. /\ set \in [Direct -> PtrType] /\ set[k].id = b
      /\ \A l \in Direct \ {k} : set[l] = blocks[l]
  BY <1>1 DEF PtrType
<1>3. [r EXCEPT !.data_blocks[k].id = b]
        = [file_size |-> size, file_end |-> end, link_count |-> links,
           data_blocks |-> set, singly_indirect_ptr |-> ptr]
  BY <1>1
<1> HIDE DEF set
<1>4. NULL \notin Direct
  BY Sizes
<1>5. QED
  BY <1>1, <1>2, <1>3, <1>4 DEF WithBlock, Sets, IsInode, PointerAt, Places

LEMMA TableSet ==
  ASSUME NEW r, IsInode(r), NEW b \in Blocks \cup {NULL}
  PROVE  LET new == WithIndirect(r, b)
         IN  IsInode(new) /\ Sets(r, new, NULL, b)
<1>1. PICK size, end, links, blocks, ptr :
        /\ r = [file_size |-> size, file_end |-> end, link_count |-> links,
                data_blocks |-> blocks, singly_indirect_ptr |-> ptr]
        /\ blocks \in [Direct -> PtrType] /\ ptr \in PtrType
  BY DEF IsInode
<1> DEFINE set == [ptr EXCEPT !.id = b]
<1>2. set \in PtrType /\ set.id = b
  BY <1>1 DEF PtrType
<1>3. [r EXCEPT !.singly_indirect_ptr.id = b]
        = [file_size |-> size, file_end |-> end, link_count |-> links,
           data_blocks |-> blocks, singly_indirect_ptr |-> set]
  BY <1>1
<1> HIDE DEF set
<1>4. QED
  BY <1>1, <1>2, <1>3 DEF WithIndirect, Sets, IsInode, PointerAt, Places

LEMMA FileInit ==
  ASSUME NEW r, IsInode(r)
  PROVE  /\ IsInode(init_new_file(r))
         /\ \A l \in Places : PointerAt(init_new_file(r), l) \in {PointerAt(r, l), NULL}
<1>1. PICK size, end, links, blocks, ptr :
        /\ r = [file_size |-> size, file_end |-> end, link_count |-> links,
                data_blocks |-> blocks, singly_indirect_ptr |-> ptr]
        /\ blocks \in [Direct -> PtrType] /\ ptr \in PtrType
  BY DEF IsInode
<1> DEFINE set == [k \in Direct |-> IF k < NUM_DATA_BLOCKS_PER_INODE \div 2
                                      THEN NullPtr ELSE blocks[k]]
<1>2. NullPtr \in PtrType /\ NullPtr.id = NULL
  BY DEF NullPtr, Word, PtrType
<1>3. set \in [Direct -> PtrType] /\ \A k \in Direct : set[k].id \in {blocks[k].id, NULL}
  BY <1>1, <1>2
<1>4. init_new_file(r) = [file_size |-> 0, file_end |-> 0, link_count |-> 1,
                          data_blocks |-> set, singly_indirect_ptr |-> NullPtr]
  BY <1>1 DEF init_new_file
<1> HIDE DEF set
<1>5. QED
  BY <1>1, <1>2, <1>3, <1>4 DEF IsInode, PointerAt, Places

LEMMA SizesSet ==
  ASSUME NEW r, IsInode(r), NEW size, NEW end
  PROVE  LET new == WithSizes(r, size, end)
         IN  IsInode(new) /\ \A l \in Places : PointerAt(new, l) = PointerAt(r, l)
<1>1. PICK s, e, links, blocks, ptr :
        /\ r = [file_size |-> s, file_end |-> e, link_count |-> links,
                data_blocks |-> blocks, singly_indirect_ptr |-> ptr]
        /\ blocks \in [Direct -> PtrType] /\ ptr \in PtrType
  BY DEF IsInode
<1> DEFINE T == {s, e, links, size, end}
           Over == [file_size : T, file_end : T, link_count : T,
                    data_blocks : [Direct -> PtrType], singly_indirect_ptr : PtrType]
           new == [r EXCEPT !.file_size = size, !.file_end = end]
<1>2. r \in Over /\ s \in T /\ e \in T /\ size \in T /\ end \in T
  BY <1>1
<1> HIDE DEF T
<1>3. /\ new \in Over
      /\ new.data_blocks = r.data_blocks /\ new.singly_indirect_ptr = r.singly_indirect_ptr
  BY <1>2
<1> HIDE DEF new
<1>4. IsInode(new)
  BY <1>3 DEF IsInode
<1>5. QED
  BY <1>3, <1>4 DEF PointerAt, WithSizes, new

(* An inode is changed, if the index, which a directory entry may have from *)
(* anywhere, is that of one.                                                *)
LEMMA InodeSet ==
  ASSUME NEW inodes, AreInodes(inodes), NEW j, NEW r, j \in Early => IsInode(r)
  PROVE  LET new == With(inodes, j, r)
         IN  /\ AreInodes(new) /\ \A m \in Inodes \ {j} : new[m] = inodes[m]
             /\ j \in Inodes => new[j] = r
BY DEF With, AreInodes, Early

LEMMA RootIsEarly == ROOT \in Inodes /\ ROOT \in Early
BY Sizes, LastInodesAssumption DEF Early

-----------------------------------------------------------------------------
(* The steps *)

(* Nothing is allocated: memory goes to the disk, or the disk to memory.   *)
LEMMA CopyKeeps ==
  ASSUME AllocInv, UNCHANGED disk_bitmap, bitmap' \in {bitmap, disk_bitmap},
         inode_arr' \in {inode_arr, disk_inodes}, disk_inodes' \in {inode_arr, disk_inodes}
  PROVE  AllocInv'
BY DEF AllocInv

(* Blocks are marked, and at most one pointer is set to one.               *)
LEMMA GrowKeeps ==
  ASSUME AllocInv, UNCHANGED disk_inodes, Allocated(inode_arr', disk_bitmap'),
         disk_bitmap' \in BitmapType, bitmap' = disk_bitmap',
         \A c \in Blocks : disk_bitmap[c] = 1 => disk_bitmap'[c] = 1
  PROVE  AllocInv'
BY StillAllocated DEF AllocInv

LEMMA FOpenNewAllocates == ASSUME AllocInv, NEW n, FOpenNew(n) PROVE AllocInv'
<1> DEFINE k == find_free_dir_entry \div DIR_ENTRIES_PER_BLOCK
           b == FreeBlock(disk_bitmap)
           needsBlock == inode_arr[ROOT].data_blocks[k].id = NULL
<1>1. PICK j : j = find_free_inode
  OBVIOUS
<1> DEFINE withFile == With(inode_arr, j, init_new_file(inode_arr[j]))
           root == WithBlock(withFile[ROOT], k, b)
<1>2. /\ k \in Direct /\ j # NULL /\ UNCHANGED disk_inodes
      /\ inode_arr' = IF needsBlock THEN With(withFile, ROOT, root) ELSE withFile
      /\ disk_bitmap' = (IF needsBlock THEN Taken(disk_bitmap, b) ELSE disk_bitmap)
      /\ bitmap' = IF needsBlock THEN disk_bitmap' ELSE bitmap
  BY <1>1 DEF FOpenNew, With, WithBlock
<1>3. j \in Inodes
  BY <1>1, <1>2, FreeInode
<1>4. /\ disk_bitmap \in BitmapType /\ bitmap = disk_bitmap /\ Allocated(inode_arr, disk_bitmap)
      /\ AreInodes(inode_arr)
  BY DEF AllocInv, Allocated
<1>5. j \in Early => IsInode(inode_arr[j])
  BY <1>4 DEF AreInodes
<1>6. PICK file : file = init_new_file(inode_arr[j])
  OBVIOUS
<1>7. j \in Early =>
        /\ IsInode(file)
        /\ \A l \in Places : PointerAt(file, l) \in {PointerAt(inode_arr[j], l), NULL}
  BY <1>5, <1>6, FileInit
<1>8. /\ AreInodes(withFile) /\ withFile[j] = file
      /\ \A m \in Inodes \ {j} : withFile[m] = inode_arr[m]
  BY <1>3, <1>4, <1>6, <1>7, InodeSet
<1> HIDE DEF withFile
<1>9. Allocated(withFile, disk_bitmap)
  <2>1. Points(inode_arr, withFile, NULL, NULL, NULL)
    BY <1>7, <1>8 DEF Points, Early
  <2>2. Marks(disk_bitmap, disk_bitmap, NULL)
    BY Sizes DEF Marks
  <2>3. QED
    BY <1>4, <1>8, <2>1, <2>2, PointerAllocated
<1>10. /\ b \in Blocks \cup {NULL} /\ Taken(disk_bitmap, b) \in BitmapType
       /\ Marks(disk_bitmap, Taken(disk_bitmap, b), b)
  BY <1>4, BlockTaken
<1> HIDE DEF k, b
<1>11. ROOT \in Inodes /\ ROOT \in Early
  BY RootIsEarly
<1>12. IsInode(withFile[ROOT])
  BY <1>8, <1>11 DEF AreInodes
<1>13. IsInode(root) /\ Sets(withFile[ROOT], root, k, b)
  BY <1>2, <1>10, <1>12, DirectSet
<1> HIDE DEF root
<1>14. CASE needsBlock
  <2>1. /\ AreInodes(inode_arr') /\ inode_arr'[ROOT] = root
        /\ \A m \in Inodes \ {ROOT} : inode_arr'[m] = withFile[m]
    BY <1>2, <1>8, <1>11, <1>13, <1>14, InodeSet
  <2>2. Points(withFile, inode_arr', ROOT, k, b)
    BY <1>13, <2>1 DEF Points, Sets, Early
  <2>3. Allocated(inode_arr', Taken(disk_bitmap, b))
    BY <1>9, <1>10, <2>1, <2>2, PointerAllocated
  <2>4. QED
    BY <1>2, <1>10, <1>14, <2>3, GrowKeeps DEF Marks
<1>15. CASE ~needsBlock
  BY <1>2, <1>4, <1>9, <1>15, GrowKeeps
<1>16. QED
  BY <1>14, <1>15

(* What a turn of sfs_fwrite sets in an inode, and takes.                  *)
LEMMA TurnAllocates ==
  ASSUME AllocInv, UNCHANGED disk_inodes, NEW j, NEW r, NEW k,
         inode_arr' = With(inode_arr, j, r), j \in Early => IsInode(r),
         NEW b, Marks(disk_bitmap, disk_bitmap', b),
         j \in Early => Sets(inode_arr[j], r, k, b),
         disk_bitmap' \in BitmapType, bitmap' = disk_bitmap'
  PROVE  AllocInv'
<1>1. Allocated(inode_arr, disk_bitmap) /\ AreInodes(inode_arr)
  BY DEF AllocInv, Allocated
<1>2. /\ AreInodes(inode_arr') /\ \A m \in Inodes \ {j} : inode_arr'[m] = inode_arr[m]
      /\ j \in Inodes => inode_arr'[j] = r
  BY <1>1, InodeSet
<1>3. Points(inode_arr, inode_arr', j, k, b)
  BY <1>2 DEF Points, Sets, Early
<1>4. Allocated(inode_arr', disk_bitmap')
  BY <1>1, <1>2, <1>3, PointerAllocated
<1>5. QED
  BY <1>4, GrowKeeps DEF Marks

LEMMA FWriteDirectAllocates == ASSUME AllocInv, FWriteDirect PROVE AllocInv'
<1>1. PICK j, k, b : j = inode_index /\ k = block_num /\ b = FreeBlock(disk_bitmap)
  OBVIOUS
<1>2. PICK r : r = WithBlock(inode_arr[j], k, b)
  OBVIOUS
<1>3. /\ k \in Direct /\ UNCHANGED disk_inodes
      /\ inode_arr' = With(inode_arr, j, r)
      /\ disk_bitmap' = Taken(disk_bitmap, b) /\ bitmap' = disk_bitmap'
  BY <1>1, <1>2 DEF FWriteDirect, InDirect, Allocate, With, WithBlock
<1>4. disk_bitmap \in BitmapType /\ AreInodes(inode_arr)
  BY DEF AllocInv, Allocated
<1>5. /\ b \in Blocks \cup {NULL} /\ Taken(disk_bitmap, b) \in BitmapType
      /\ Marks(disk_bitmap, Taken(disk_bitmap, b), b)
  BY <1>1, <1>4, BlockTaken
<1>6. ASSUME j \in Early
      PROVE  IsInode(r) /\ Sets(inode_arr[j], r, k, b)
  <2>1. IsInode(inode_arr[j])
    BY <1>4, <1>6 DEF AreInodes
  <2>2. QED
    BY <1>2, <1>3, <1>5, <2>1, DirectSet
<1>7. QED
  BY <1>3, <1>5, <1>6, TurnAllocates

LEMMA FWriteIndirectAllocates == ASSUME AllocInv, FWriteIndirect PROVE AllocInv'
<1>1. PICK j, b : j = inode_index /\ b = FreeBlock(disk_bitmap)
  OBVIOUS
<1>2. PICK r : r = WithIndirect(inode_arr[j], b)
  OBVIOUS
<1>3. /\ UNCHANGED disk_inodes /\ inode_arr' = With(inode_arr, j, r)
      /\ disk_bitmap' = Taken(disk_bitmap, b) /\ bitmap' = disk_bitmap'
  BY <1>1, <1>2 DEF FWriteIndirect, Allocate, With, WithIndirect
<1>4. disk_bitmap \in BitmapType /\ AreInodes(inode_arr)
  BY DEF AllocInv, Allocated
<1>5. /\ b \in Blocks \cup {NULL} /\ Taken(disk_bitmap, b) \in BitmapType
      /\ Marks(disk_bitmap, Taken(disk_bitmap, b), b)
  BY <1>1, <1>4, BlockTaken
<1>6. ASSUME j \in Early
      PROVE  IsInode(r) /\ Sets(inode_arr[j], r, NULL, b)
  <2>1. IsInode(inode_arr[j])
    BY <1>4, <1>6 DEF AreInodes
  <2>2. QED
    BY <1>2, <1>5, <2>1, TableSet
<1>7. QED
  BY <1>3, <1>5, <1>6, TurnAllocates

(* The block goes into the table, which no inode on the disk may name yet. *)
LEMMA FWritePointerAllocates == ASSUME AllocInv, FWritePointer PROVE AllocInv'
<1>1. PICK b : b = FreeBlock(disk_bitmap)
  OBVIOUS
<1>2. /\ UNCHANGED <<inode_arr, disk_inodes>>
      /\ disk_bitmap' = Taken(disk_bitmap, b) /\ bitmap' = disk_bitmap'
  BY <1>1 DEF FWritePointer, Allocate
<1>3. Taken(disk_bitmap, b) \in BitmapType /\ Marks(disk_bitmap, Taken(disk_bitmap, b), b)
  BY <1>1, BlockTaken DEF AllocInv
<1>4. Allocated(inode_arr', disk_bitmap')
  BY <1>2, <1>3, StillAllocated DEF AllocInv, Marks
<1>5. QED
  BY <1>2, <1>3, <1>4, GrowKeeps DEF Marks

LEMMA FWriteEndAllocates == ASSUME AllocInv, FWriteEnd PROVE AllocInv'
<1>1. PICK j, size, end : /\ j = inode_index /\ size = get_new_file_size(inode_arr[j])
                          /\ end = Max({write_ptr, inode_arr[j].file_end})
  OBVIOUS
<1>2. PICK r : r = WithSizes(inode_arr[j], size, end)
  OBVIOUS
<1>3. /\ inode_arr' = With(inode_arr, j, r) /\ disk_inodes' = inode_arr'
      /\ UNCHANGED <<bitmap, disk_bitmap>>
  BY <1>1, <1>2 DEF FWriteEnd, With, WithSizes
<1>4. AreInodes(inode_arr) /\ Allocated(inode_arr, disk_bitmap)
  BY DEF AllocInv, Allocated
<1>5. ASSUME j \in Early
      PROVE  IsInode(r) /\ \A l \in Places : PointerAt(r, l) = PointerAt(inode_arr[j], l)
  <2>1. IsInode(inode_arr[j])
    BY <1>4, <1>5 DEF AreInodes
  <2>2. QED
    BY <1>2, <2>1, SizesSet
<1>6. /\ AreInodes(inode_arr') /\ \A m \in Inodes \ {j} : inode_arr'[m] = inode_arr[m]
      /\ j \in Inodes => inode_arr'[j] = r
  BY <1>3, <1>4, <1>5, InodeSet
<1>7. Points(inode_arr, inode_arr', NULL, NULL, NULL)
  BY <1>5, <1>6 DEF Points, Early
<1>8. Marks(disk_bitmap, disk_bitmap, NULL)
  BY Sizes DEF Marks
<1>9. Allocated(inode_arr', disk_bitmap)
  BY <1>4, <1>6, <1>7, <1>8, PointerAllocated
<1>10. QED
  BY <1>3, <1>9 DEF AllocInv

LEMMA InitAllocates == Init => AllocInv
<1> SUFFICES ASSUME Init PROVE AllocInv
  OBVIOUS
<1>1. inode_arr \in [Inodes -> InodeType] /\ disk_bitmap \in BitmapType
  BY InitEstablishes DEF IndInv, TypeOK
<1>2. bitmap = disk_bitmap /\ disk_inodes = inode_arr
  BY DEF Init
<1>3. AreInodes(inode_arr)
  BY <1>1 DEF AreInodes, Early, IsInode, InodeType
<1>4. \A j \in Early, k \in Places : PointerAt(inode_arr[j], k) \in {NULL, 0}
  <2>1. /\ \A k \in Places : PointerAt(ZeroInode, k) = 0
        /\ \A k \in Places : PointerAt(init_new_file(ZeroInode), k) \in {NULL, 0}
    BY NewInode DEF PointerAt, Places, ZeroInode, Zero, Word
  <2>2. QED
    BY <2>1 DEF Init, Early
<1>5. NULL \notin Blocks
  BY Sizes
<1>6. Allocated(inode_arr, disk_bitmap)
  BY <1>3, <1>4, <1>5 DEF Allocated
<1>7. QED
  BY <1>1, <1>2, <1>6 DEF AllocInv

(* A write that was cut off leaves anything in the last inodes. *)
LEMMA RestartAllocates == ASSUME AllocInv, Restart PROVE AllocInv'
<1>1. /\ inode_arr' = disk_inodes' /\ bitmap' = disk_bitmap /\ UNCHANGED disk_bitmap
      /\ \/ UNCHANGED disk_inodes
         \/ \E garbage : disk_inodes' = [j \in Inodes |-> IF j \in LastInodes THEN garbage[j]
                                                                            ELSE disk_inodes[j]]
  BY DEF Restart, mksfs
<1>2. AreInodes(disk_inodes)
  BY DEF AllocInv, Allocated
<1>3. AreInodes(disk_inodes') /\ \A j \in Early : disk_inodes'[j] = disk_inodes[j]
  BY <1>1, <1>2 DEF AreInodes, Early
<1>4. Allocated(disk_inodes', disk_bitmap)
  BY <1>3 DEF AllocInv, Allocated
<1>5. QED
  BY <1>1, <1>4 DEF AllocInv

LEMMA GrowStepAllocates == ASSUME AllocInv, [GrowNext]_vars PROVE AllocInv'
<1>1. CASE Use \/ UNCHANGED vars \/ \E n \in Names : FOpenExisting(n)
  <2>1. UNCHANGED <<inode_arr, bitmap, disk_bitmap, disk_inodes>>
    BY <1>1 DEF Use, FClose, FWSeek, FRSeek, FRead, FOpenExisting, vars, disk
  <2>2. QED
    BY <2>1, CopyKeeps
<1>2. CASE SaveDir \/ SaveInode \/ FOpenEnd \/ FWriteNewTable \/ FWriteTable \/ FWriteData
           \/ \E f \in Slots, d \in Data, length \in Writes : FWrite(f, d, length)
  <2>1. /\ UNCHANGED <<inode_arr, bitmap>> /\ disk_inodes' \in {inode_arr, disk_inodes}
        /\ disk_bitmap' \in {bitmap, disk_bitmap}
    BY <1>2 DEF SaveDir, SaveInode, FOpenEnd, FWrite, FWriteNewTable, FWriteTable, FWriteData, disk
  <2>2. QED
    BY <2>1, CopyKeeps DEF AllocInv
<1>3. CASE \E n \in Names : FOpenNew(n)
  BY <1>3, FOpenNewAllocates
<1>4. CASE FWriteDirect \/ FWriteIndirect \/ FWritePointer \/ FWriteEnd
  BY <1>4, FWriteDirectAllocates, FWriteIndirectAllocates, FWritePointerAllocates,
     FWriteEndAllocates
<1>5. CASE Remount
  <2>1. inode_arr' = disk_inodes /\ bitmap' = disk_bitmap /\ UNCHANGED <<disk_inodes, disk_bitmap>>
    BY <1>5 DEF Remount, mksfs, disk
  <2>2. QED
    BY <2>1, CopyKeeps
<1>6. CASE Restart
  BY <1>6, RestartAllocates
<1>7. Open \/ Save \/ Use \/ Write \/ Remount \/ Restart \/ UNCHANGED vars
  BY DEF GrowNext
<1>8. CASE Open
  BY <1>8, <1>1, <1>2, <1>3 DEF Open
<1>9. CASE Save
  BY <1>9, <1>2 DEF Save
<1>10. CASE Write
  BY <1>10, <1>2, <1>4 DEF Write
<1>11. QED
  BY <1>1, <1>5, <1>6, <1>7, <1>8, <1>9, <1>10

-----------------------------------------------------------------------------
(* Between whichever two writes to the disk a process that creates and      *)
(* writes files is killed, and however often, every block that an inode on  *)
(* the disk names -- but for the last, which sfs_fwrite uses as scratch -- *)
(* is marked on the disk and has no other owner.                            *)
THEOREM KilledAnywhere == GrowSpec => []AllocationOrder
<1>1. AllocInv => AllocationOrder
  <2>1. SUFFICES ASSUME AllocInv PROVE AllocationOrder
    OBVIOUS
  <2>2. \A p \in DiskOwned :
          \E j \in Early, k \in Places :
            /\ p = <<j, k, PointerAt(disk_inodes[j], k)>>
            /\ PointerAt(disk_inodes[j], k) \in Blocks \ {0}
    <3>1. NULL \notin Direct
      BY Sizes
    <3>2. QED
      BY <3>1 DEF DiskOwned, DiskPointers, PointerAt, Places, Early
  <2>3. DiskOwnedIsMarked
    BY <2>1, <2>2 DEF DiskOwnedIsMarked, AllocInv, Allocated
  <2>4. DiskOneOwner
    BY <2>1, <2>2 DEF DiskOneOwner, AllocInv, Allocated
  <2>5. QED
    BY <2>3, <2>4 DEF AllocationOrder
<1>2. Init => AllocInv
  BY InitAllocates
<1>3. AllocInv /\ [GrowNext]_vars => AllocInv'
  BY GrowStepAllocates
<1>4. QED
  BY <1>1, <1>2, <1>3, PTL DEF GrowSpec

=============================================================================
