------------------------ MODULE SimpleFileSystem_proofs ------------------------
(***************************************************************************)
(* Proofs about sfs_api.c for disks, blocks and inodes of any size.        *)
(***************************************************************************)
EXTENDS SimpleFileSystem, NumberTheorems

-----------------------------------------------------------------------------
(* Sizes, and the searches of the tables *)

LEMMA Sizes ==
  /\ NUM_DATA_BLOCKS \in Nat /\ NUM_DATA_BLOCKS > 2
  /\ NUM_DATA_BLOCKS_PER_INODE \in Nat \ {0} /\ BLOCK_SIZE \in Nat \ {0}
  /\ ENTRY_SIZE \in Nat \ {0} /\ DIR_ENTRIES_PER_BLOCK \in Nat \ {0}
  /\ Slots = Blocks /\ Blocks \subseteq Nat /\ Slots \subseteq Nat /\ Inodes \subseteq Nat
  /\ Direct \subseteq Nat /\ Offset \subseteq Nat /\ LastPointer \in Direct
  /\ 0 \in Blocks /\ ROOT \in Inodes /\ NULL \notin Nat /\ NULL \in Int /\ MaxOffset \in Nat
<1>1. DIR_ENTRIES_PER_BLOCK # 0
  BY SizesAssumption, DivMod DEF DIR_ENTRIES_PER_BLOCK
<1>2. MaxOffset \in Nat
  BY SizesAssumption DEF MaxOffset
<1>3. QED
  BY <1>1, <1>2, SizesAssumption, DivMod
  DEF DIR_ENTRIES_PER_BLOCK, Slots, Blocks, Inodes, Direct, Offset, LastPointer, NULL, ROOT

LEMMA IdsAreNumbers ==
  Blocks \cup {NULL} \subseteq Int /\ Inodes \cup {NULL} \subseteq Int /\ Names \cup {0} \subseteq Nat
BY Sizes, ClientsAssumption DEF Blocks, Inodes, NULL

(* First finds an element if there is one. *)
LEMMA FirstFinds ==
  ASSUME NEW S \in SUBSET Nat
  PROVE  /\ First(S) # NULL => First(S) \in S
         /\ First(S) = NULL <=> S = {}
         /\ First(S) \in S \cup {NULL}
         /\ \A x \in S : First(S) <= x
BY MinIsLeast DEF First, NULL

(* What the three searches of the tables return. *)
LEMMA DirIndex ==
  ASSUME NEW n
  PROVE  LET e == find_dir_index_by_fname(n)
         IN  /\ e \in Slots \cup {NULL}
             /\ e # NULL => dir_entry_arr[e].fname = n
             /\ e = NULL => \A x \in Slots : dir_entry_arr[x].fname # n
<1> DEFINE S == {e \in Slots : dir_entry_arr[e].fname = n}
<1>1. S \in SUBSET Nat
  BY Sizes
<1>2. QED
  BY <1>1, FirstFinds DEF find_dir_index_by_fname

LEMMA FreeInode ==
  /\ find_free_inode \in Inodes \cup {NULL}
  /\ find_free_inode # NULL =>
       find_free_inode # ROOT /\ inode_arr[find_free_inode].link_count < 1
<1> DEFINE S == {j \in Inodes \ {ROOT} : inode_arr[j].link_count < 1}
<1>1. S \in SUBSET Nat
  BY Sizes
<1>2. QED
  BY <1>1, FirstFinds DEF find_free_inode

LEMMA FreeDirEntry ==
  /\ find_free_dir_entry \in Slots \cup {NULL}
  /\ find_free_dir_entry # NULL => dir_entry_arr[find_free_dir_entry].inode_index = NULL
  /\ \A x \in Slots : dir_entry_arr[x].inode_index = NULL => find_free_dir_entry <= x
<1> DEFINE S == {e \in Slots : dir_entry_arr[e].inode_index = NULL}
<1>1. S \in SUBSET Nat
  BY Sizes
<1>2. QED
  BY <1>1, FirstFinds DEF find_free_dir_entry

LEMMA FreeFdtEntry ==
  /\ find_free_fdt_entry \in Slots \cup {NULL}
  /\ find_free_fdt_entry # NULL => ~IsOpen(find_free_fdt_entry)
<1> DEFINE S == {f \in Slots : file_descriptor_table[f].inode_index = NULL}
<1>1. S \in SUBSET Nat
  BY Sizes
<1>2. QED
  BY <1>1, FirstFinds DEF find_free_fdt_entry, IsOpen

(* A block that is allocated was free, is marked, and is the only change. *)
LEMMA Allocation ==
  ASSUME NEW map \in BitmapType
  PROVE  LET b == FreeBlock(map)
         IN  /\ b \in Blocks \cup {NULL}
             /\ b # NULL => map[b] = 0
             /\ Taken(map, b) \in BitmapType
             /\ b # NULL => Taken(map, b)[b] = 1
             /\ \A c \in Blocks : map[c] = 1 => Taken(map, b)[c] = 1
<1> DEFINE S == {b \in Blocks : map[b] = 0}
<1>1. S \in SUBSET Nat
  BY Sizes
<1>2. FreeBlock(map) \in S \cup {NULL}
  BY <1>1, FirstFinds DEF FreeBlock
<1>3. QED
  BY <1>2, Sizes DEF Taken, BitmapType

-----------------------------------------------------------------------------
(* get_new_file_size() adds up a recursive function on the subsets of the  *)
(* pointers.  That there is one is proved for ever larger subsets.         *)

LEMMA SumIsNat ==
  ASSUME NEW D, IsFiniteSet(D), NEW ptrs \in [D -> WordType]
  PROVE  SumOfEnds(ptrs) \in Nat
<1> DEFINE chosen(s) == CHOOSE x \in s : TRUE
           end(k) == IF ptrs[k].id = NULL THEN 0 ELSE ptrs[k].end
           IsSum(h, S) == h = [s \in S |-> IF s = {} THEN 0
                                            ELSE end(chosen(s)) + h[s \ {chosen(s)}]]
           Small(n) == {s \in SUBSET D : Cardinality(s) <= n}
<1>1. ASSUME NEW s \in SUBSET D
      PROVE  /\ Cardinality(s) \in Nat /\ Cardinality(s) <= Cardinality(D)
             /\ s = {} <=> Cardinality(s) = 0
             /\ s # {} => /\ chosen(s) \in D /\ s \ {chosen(s)} \in SUBSET D
                          /\ Cardinality(s \ {chosen(s)}) = Cardinality(s) - 1
  <2>1. IsFiniteSet(s) /\ Cardinality(s) <= Cardinality(D)
    BY FS_Subset
  <2>2. s # {} => chosen(s) \in s
    OBVIOUS
  <2>3. QED
    BY <2>1, <2>2, FS_CardinalityType, FS_EmptySet, FS_RemoveElement
<1>2. ASSUME NEW n \in Nat
      PROVE  \E h : IsSum(h, Small(n))
  <2> DEFINE Without == {m \in Nat : ~\E h : IsSum(h, Small(m))}
  <2>1. SUFFICES ASSUME Without # {} PROVE FALSE
    OBVIOUS
  <2>0. Without \in SUBSET Nat
    OBVIOUS
  <2>2. PICK m \in Without : \A k \in Without : m <= k
    <3> HIDE DEF Without
    <3>1. QED
      BY <2>0, <2>1, LeastExists
  <2>3. CASE m = 0
    <3>1. Small(0) = {{}}
      <4>1. {} \in SUBSET D
        OBVIOUS
      <4>2. {} \in Small(0)
        BY <1>1, <4>1
      <4>3. ASSUME NEW s \in Small(0) PROVE s = {}
        <5>1. s \in SUBSET D /\ Cardinality(s) <= 0
          BY <4>3
        <5>2. Cardinality(s) \in Nat /\ (s = {} <=> Cardinality(s) = 0)
          BY <1>1, <5>1
        <5>3. QED
          BY <5>1, <5>2
      <4>4. QED
        BY <4>2, <4>3, Zenon
    <3>2. IsSum([s \in Small(0) |-> 0], Small(0))
      BY <3>1
    <3>3. QED
      BY <2>2, <2>3, <3>2
  <2>4. CASE m # 0
    <3>1. m - 1 \in Nat /\ m - 1 \notin Without
      <4> HIDE DEF Without
      <4>1. QED
        BY <2>0, <2>2, <2>4
    <3>2. PICK h : IsSum(h, Small(m - 1))
      BY <3>1
    <3> DEFINE g == [s \in Small(m) |-> IF s \in Small(m - 1) THEN h[s]
                                         ELSE end(chosen(s)) + h[s \ {chosen(s)}]]
    <3>3. ASSUME NEW s \in Small(m)
          PROVE  g[s] = IF s = {} THEN 0 ELSE end(chosen(s)) + g[s \ {chosen(s)}]
      <4>1. CASE s = {}
        <5>1. s \in Small(m - 1)
          BY <1>1, <3>1, <4>1
        <5>2. QED
          BY <3>2, <4>1, <5>1
      <4>2. CASE s # {}
        <5> DEFINE r == s \ {chosen(s)}
        <5>1. r \in Small(m - 1) /\ r \in Small(m)
          BY <1>1, <3>1, <4>2
        <5>2. g[r] = h[r]
          BY <5>1
        <5>3. g[s] = end(chosen(s)) + h[r]
          BY <3>2, <4>2
        <5>4. QED
          BY <4>2, <5>2, <5>3
      <4>3. QED
        BY <4>1, <4>2
    <3>4. IsSum(g, Small(m))
      <4>1. g = [s \in Small(m) |-> g[s]]
        OBVIOUS
      <4> HIDE DEF g
      <4>2. QED
        BY <3>3, <4>1
    <3>5. QED
      BY <2>2, <3>4
  <2>5. QED
    BY <2>3, <2>4
<1>3. \E h : IsSum(h, SUBSET D)
  <2>1. Small(Cardinality(D)) = SUBSET D /\ Cardinality(D) \in Nat
    BY <1>1
  <2> HIDE DEF Small, IsSum
  <2>2. QED
    BY <1>2, <2>1
<1>4. ASSUME NEW h, IsSum(h, SUBSET D), NEW t \in SUBSET D
      PROVE  h[t] \in Nat
  <2> DEFINE Wrong == {n \in Nat : \E s \in SUBSET D : Cardinality(s) = n /\ h[s] \notin Nat}
  <2>1. SUFFICES ASSUME Wrong # {} PROVE FALSE
    BY <1>1
  <2>2. PICK m \in Wrong : \A k \in Wrong : m <= k
    BY <2>1, LeastExists
  <2>3. PICK s \in SUBSET D : Cardinality(s) = m /\ h[s] \notin Nat
    BY <2>2
  <2>4. h[s] = IF s = {} THEN 0 ELSE end(chosen(s)) + h[s \ {chosen(s)}]
    BY <1>4
  <2>5. s # {}
    BY <2>3, <2>4
  <2>6. h[s \ {chosen(s)}] \in Nat
    BY <1>1, <2>2, <2>3, <2>5
  <2>7. end(chosen(s)) \in Nat
    BY <1>1, <2>5 DEF WordType
  <2>8. QED
    BY <2>3, <2>4, <2>5, <2>6, <2>7
<1>5. SumOfEnds(ptrs) =
        (CHOOSE h : h = [s \in SUBSET DOMAIN ptrs |->
                           IF s = {} THEN 0
                           ELSE (IF ptrs[CHOOSE x \in s : TRUE].id = NULL THEN 0
                                 ELSE ptrs[CHOOSE x \in s : TRUE].end)
                                + h[s \ {CHOOSE x \in s : TRUE}]])[DOMAIN ptrs]
  BY Zenon DEF SumOfEnds, MapThenSumSet, MapThenFoldSet
<1>6. SumOfEnds(ptrs) = (CHOOSE h : IsSum(h, SUBSET D))[D]
  BY <1>5, Zenon
<1> DEFINE total == CHOOSE h : IsSum(h, SUBSET D)
<1>7. IsSum(total, SUBSET D)
  <2> HIDE DEF IsSum
  <2>1. QED
    BY <1>3, Zenon
<1>8. SumOfEnds(ptrs) = total[D]
  BY <1>6
<1> HIDE DEF total, IsSum
<1>9. QED
  BY <1>4, <1>7, <1>8

LEMMA SizeIsNat ==
  ASSUME TypeOK, NEW inode \in InodeType
  PROVE  get_new_file_size(inode) \in Nat
<1>1. Direct = 0 .. NUM_DATA_BLOCKS_PER_INODE - 1 /\ Offset = 0 .. BLOCK_SIZE - 1
  BY DEF Direct, Offset
<1>2. IsFiniteSet(Direct) /\ IsFiniteSet(Offset)
  BY <1>1, Sizes, FS_Interval
<1>3. inode.data_blocks \in [Direct -> WordType]
  <2>1. PtrType \subseteq WordType
    BY IdsAreNumbers DEF PtrType, WordType
  <2>2. inode.data_blocks \in [Direct -> PtrType]
    BY DEF InodeType
  <2>3. QED
    BY <2>1, <2>2
<1>4. SumOfEnds(inode.data_blocks) \in Nat
  BY <1>2, <1>3, SumIsNat
<1>5. ASSUME inode.singly_indirect_ptr.id # NULL
      PROVE  SumOfEnds(disk_blocks[inode.singly_indirect_ptr.id]) \in Nat
  <2>1. disk_blocks[inode.singly_indirect_ptr.id] \in [Offset -> WordType]
    BY <1>5 DEF TypeOK, BlocksType, InodeType, PtrType
  <2>2. QED
    BY <1>2, <2>1, SumIsNat
<1>6. QED
  BY <1>4, <1>5 DEF get_new_file_size

-----------------------------------------------------------------------------
(* load_save_dir(1) writes words to the blocks that the root names only. *)

LEMMA SliceType ==
  ASSUME NEW dir \in [Slots -> EntryType], NEW k \in Direct
  PROVE  Slice(dir, k) \in [Offset -> WordType]
<1>1. ASSUME NEW o \in Offset, o \div ENTRY_SIZE < DIR_ENTRIES_PER_BLOCK
      PROVE  k * DIR_ENTRIES_PER_BLOCK + (o \div ENTRY_SIZE) \in Slots
  <2>1. o \div ENTRY_SIZE \in Nat
    BY Sizes, DivMod
  <2>2. k \in Nat /\ k + 1 <= NUM_DATA_BLOCKS_PER_INODE
    BY Sizes DEF Direct
  <2>3. (k + 1) * DIR_ENTRIES_PER_BLOCK <= NUM_DATA_BLOCKS_PER_INODE * DIR_ENTRIES_PER_BLOCK
    BY <2>2, Sizes
  <2>4. QED
    BY <1>1, <2>1, <2>2, <2>3, Sizes, SizesAssumption DEF Slots
<1>2. ASSUME NEW e \in Slots
      PROVE  Word(dir[e].inode_index, dir[e].fname) \in WordType
  <2>1. dir[e].inode_index \in Int /\ dir[e].fname \in Nat
    BY IdsAreNumbers DEF EntryType
  <2>2. QED
    BY <2>1 DEF Word, WordType
<1>3. Zero \in WordType
  BY DEF Zero, Word, WordType
<1>4. QED
  BY <1>1, <1>2, <1>3 DEF Slice

LEMMA DirSavedWrites ==
  ASSUME NEW blocks \in BlocksType, NEW root, NEW dir \in [Slots -> EntryType]
  PROVE  /\ DirSaved(blocks, root, dir) \in BlocksType
         /\ \A b \in Blocks : (\A k \in Direct : root.data_blocks[k].id # b)
                                => DirSaved(blocks, root, dir)[b] = blocks[b]
<1> DEFINE slices(b) == {k \in Direct : root.data_blocks[k].id = b}
<1>1. ASSUME NEW b \in Blocks, slices(b) # {}
      PROVE  Max(slices(b)) \in Direct
  <2>1. slices(b) \in SUBSET Nat /\ \A k \in slices(b) : k <= NUM_DATA_BLOCKS_PER_INODE
    BY Sizes DEF Direct
  <2>2. Max(slices(b)) \in slices(b)
    <3> HIDE DEF slices
    <3>1. QED
      BY <1>1, <2>1, MaxIsGreatest, Sizes
  <2>3. QED
    BY <2>2
<1>2. DirSaved(blocks, root, dir) =
        [b \in Blocks |-> IF slices(b) = {} THEN blocks[b] ELSE Slice(dir, Max(slices(b)))]
  BY DEF DirSaved
<1>3. ASSUME NEW b \in Blocks, \A k \in Direct : root.data_blocks[k].id # b
      PROVE  slices(b) = {}
  BY <1>3
<1> HIDE DEF slices
<1>4. QED
  BY <1>1, <1>2, <1>3, SliceType DEF BlocksType

-----------------------------------------------------------------------------
(* The place a write goes to. *)

LEMMA WritePlace ==
  ASSUME NEW w \in 0 .. MaxOffset, w < MaxOffset, NEW left \in Nat
  PROVE  LET k == w \div BLOCK_SIZE
             n == Min({BLOCK_SIZE - (w % BLOCK_SIZE), left})
         IN  /\ k \in Nat /\ k < NUM_DATA_BLOCKS_PER_INODE + BLOCK_SIZE
             /\ w % BLOCK_SIZE \in Offset
             /\ n \in Nat /\ left - n \in Nat
             /\ w + n \in 0 .. MaxOffset
<1> DEFINE k == w \div BLOCK_SIZE
           o == w % BLOCK_SIZE
           n == Min({BLOCK_SIZE - o, left})
<1>1. w \in Nat /\ NUM_DATA_BLOCKS_PER_INODE + BLOCK_SIZE \in Nat
  BY Sizes
<1>2. k \in Nat /\ o \in 0 .. BLOCK_SIZE - 1 /\ w = BLOCK_SIZE * k + o
  BY <1>1, DivMod, Sizes
<1>3. k < NUM_DATA_BLOCKS_PER_INODE + BLOCK_SIZE
  BY <1>1, DivLess, Sizes DEF MaxOffset
<1>4. n \in Nat /\ n <= left /\ n <= BLOCK_SIZE - o
  BY <1>2, MinOfTwo, Sizes
<1>5. BLOCK_SIZE * (k + 1) <= MaxOffset
  BY <1>1, <1>2, <1>3, Sizes DEF MaxOffset
<1>6. w + n <= MaxOffset
  BY <1>2, <1>4, <1>5, Sizes
<1>7. QED
  BY <1>1, <1>2, <1>3, <1>4, <1>6, Sizes DEF Offset

-----------------------------------------------------------------------------
(* New inodes, and inodes of which one pointer is set *)

LEMMA NewInode ==
  LET new == init_new_file(ZeroInode)
  IN  /\ ZeroInode \in InodeType /\ new \in InodeType
      /\ new.link_count = 1 /\ new.file_end = 0
      /\ \A k \in Direct : new.data_blocks[k].id \in {0, NULL}
      /\ new.data_blocks[LastPointer].id = 0
      /\ new.singly_indirect_ptr.id = NULL
<1>1. 0 \in Blocks /\ NULL \in Blocks \cup {NULL}
  BY Sizes
<1>2. Zero \in PtrType /\ NullPtr \in PtrType /\ Zero.id = 0 /\ NullPtr.id = NULL
  BY <1>1 DEF Zero, NullPtr, Word, PtrType
<1>3. LastPointer \in Direct /\ ~(LastPointer < NUM_DATA_BLOCKS_PER_INODE \div 2)
  BY Sizes DEF LastPointer
<1>4. ZeroInode \in InodeType
  BY <1>2, Sizes DEF ZeroInode, InodeType
<1>5. init_new_file(ZeroInode) =
        [file_size |-> 0, file_end |-> 0, link_count |-> 1,
         data_blocks |-> [k \in Direct |-> IF k < NUM_DATA_BLOCKS_PER_INODE \div 2
                                              THEN NullPtr ELSE Zero],
         singly_indirect_ptr |-> NullPtr]
  BY DEF init_new_file, ZeroInode
<1> HIDE DEF Zero, NullPtr
<1>6. QED
  BY <1>2, <1>3, <1>4, <1>5, Sizes DEF InodeType

(* What an inode owns, for use with inodes of the next state too. *)
LEMMA OwnedIs ==
  ASSUME NEW j
  PROVE  \A p : p \in Owned(j) <=>
           /\ p[2] \in Blocks \ {0}
           /\ \/ \E k \in Direct : p = <<k, inode_arr[j].data_blocks[k].id>>
              \/ p = <<NULL, inode_arr[j].singly_indirect_ptr.id>>
BY DEF Owned, Pointers

(* A step keeps the invariant; who owns which block, if it releases no     *)
(* other's; and what may be in blocks, if contents are no numbers of blocks. *)
OwnersKept   == OwnersInv /\ ReleasesItsOwn => OwnersInv'
ContentsKept == ContentsAreNoPointers /\ ContentsInv => ContentsInv'
Kept         == IndInv' /\ OwnersKept /\ ContentsKept

LEMMA InitEstablishes == Init => IndInv /\ OwnersInv /\ ContentsInv
<1> SUFFICES ASSUME Init PROVE IndInv /\ OwnersInv /\ ContentsInv
  OBVIOUS
<1> DEFINE new == init_new_file(ZeroInode)
<1>1. inode_arr = [j \in Inodes |-> IF j = ROOT THEN new ELSE ZeroInode]
  BY DEF Init
<1>2. NoEntry \in EntryType /\ NoFile \in FileType /\ NoEntry.inode_index = NULL
      /\ NoFile.inode_index = NULL /\ NoEntry.fname = 0
  BY Sizes DEF NoEntry, NoFile, EntryType, FileType
<1>3. dir_entry_arr \in [Slots -> EntryType] /\ Listed = {} /\ Live = {ROOT}
  BY <1>2 DEF Init, Listed, Live
<1>4. \A f \in Slots : ~IsOpen(f)
  BY <1>2 DEF Init, IsOpen
<1>5. init_fresh_disk \in BlocksType
  BY DEF init_fresh_disk, BlocksType, WordType, Zero, Word
<1>6. call = Idle /\ ~Opening /\ ~Removing /\ ~Writing
  BY DEF Init, Idle, Opening, Removing, Writing, OpenCall, RemoveCall, WriteCall
<1>7. TypeOK
  <2>1. inode_arr \in [Inodes -> InodeType]
    BY <1>1, NewInode
  <2>2. disk_blocks \in BlocksType
    BY <1>3, <1>5, DirSavedWrites DEF Init
  <2>3. bitmap \in BitmapType
    BY DEF Init, BitmapType
  <2>4. file_descriptor_table \in [Slots -> FileType]
    BY <1>2 DEF Init
  <2>5. QED
    BY <1>3, <1>6, <2>1, <2>2, <2>3, <2>4 DEF Init, TypeOK
<1>8. DirectoryInv
  BY <1>2, <1>3 DEF Init, DirectoryInv
<1>9. \A j \in Inodes : inode_arr[j].link_count = 0 => inode_arr[j] = ZeroInode
  BY <1>1, NewInode
<1>10. UnsetInv
  <2>1. ZeroInode.data_blocks[LastPointer].id = 0
    BY Sizes DEF ZeroInode, Zero, Word
  <2>2. QED
    BY <1>1, <1>6, <2>1, NewInode DEF UnsetInv
<1>11. ContentsInv
  <2> SUFFICES ASSUME NEW b \in Blocks \ DirBlocks, NEW o \in Offset
               PROVE  disk_blocks[b][o].id \notin WildWord
    BY <1>6 DEF ContentsInv
  <2>1. \A k \in Direct : inode_arr[ROOT].data_blocks[k].id # b
    BY DEF DirBlocks
  <2>2. disk_blocks[b] = init_fresh_disk[b]
    BY <1>3, <1>5, <2>1, DirSavedWrites DEF Init
  <2>3. disk_blocks[b][o].id = 0
    BY <2>2 DEF init_fresh_disk, Zero, Word
  <2>4. QED
    BY <2>3, Sizes DEF WildWord
<1>12. Owned(ROOT) = {}
  <2>1. \A k \in Direct : inode_arr[ROOT].data_blocks[k].id \notin Blocks \ {0}
    BY <1>1, NewInode, Sizes
  <2>2. inode_arr[ROOT].singly_indirect_ptr.id \notin Blocks \ {0}
    BY <1>1, NewInode, Sizes
  <2>3. \A p : p \notin Owned(ROOT)
    BY <2>1, <2>2, OwnedIs
  <2>4. QED
    BY <2>3
<1>13. OwnersInv
  BY <1>3, <1>12 DEF OwnersInv, OneOwner, MarkedInv
<1>14. QED
  BY <1>3, <1>4, <1>6, <1>7, <1>8, <1>9, <1>10, <1>11, <1>13
  DEF Init, IndInv, CallInv, FilesInv, OneDescriptorPerFile, ReadPtrInFile, BitmapSaved, SavedInv

-----------------------------------------------------------------------------
(* Calls that change descriptors only *)

(* A descriptor for a listed file that has none. *)
LEMMA OpenFileKeeps ==
  ASSUME IndInv, NEW e \in Listed, NEW n, dir_entry_arr[e].fname = n,
         \A f \in Slots : file_descriptor_table[f].inode_index # dir_entry_arr[e].inode_index,
         OpenFile(n, e), UNCHANGED <<inode_arr, dir_entry_arr>>
  PROVE  /\ file_descriptor_table' \in [Slots -> FileType]
         /\ FilesInv' /\ OneDescriptorPerFile' /\ ReadPtrInFile'
<1> DEFINE f == find_free_fdt_entry
           j == dir_entry_arr[e].inode_index
           opened == [inode_index |-> j, fname |-> n, read_ptr |-> 0,
                      write_ptr |-> inode_arr[j].file_end]
<1>1. /\ file_descriptor_table \in [Slots -> FileType]
      /\ inode_arr \in [Inodes -> InodeType]
      /\ dir_entry_arr \in [Slots -> EntryType]
  BY DEF IndInv, TypeOK
<1>2. e \in Slots /\ j \in Inodes /\ n \in Names \cup {0} /\ InUse(j) /\ j # NULL
  BY <1>1 DEF Listed, EntryType, IndInv, FilesInv
<1>3. inode_arr[j].file_end \in 0 .. MaxOffset
  BY <1>1, <1>2 DEF InodeType
<1>4. opened \in FileType
  BY <1>2, <1>3 DEF FileType
<1>5. CASE f = NULL
  <2>1. file_descriptor_table' = file_descriptor_table
    BY <1>5 DEF OpenFile
  <2>2. QED
    BY <1>1, <2>1 DEF IndInv, FilesInv, OneDescriptorPerFile, ReadPtrInFile, InUse, Listed, IsOpen, InodeOf
<1>6. CASE f # NULL
  <2>1. file_descriptor_table' = [file_descriptor_table EXCEPT ![f] = opened] /\ f \in Slots
    BY <1>6, FreeFdtEntry DEF OpenFile
  <2>2. file_descriptor_table' \in [Slots -> FileType]
    BY <1>1, <1>4, <2>1
  <2>3. /\ file_descriptor_table'[f].inode_index = j /\ file_descriptor_table'[f].fname = n
        /\ file_descriptor_table'[f].read_ptr = 0
        /\ \A g \in Slots \ {f} : file_descriptor_table'[g] = file_descriptor_table[g]
    BY <1>1, <2>1
  <2> HIDE DEF f, j
  <2>4. FilesInv'
    <3>1. ASSUME NEW x \in Listed, dir_entry_arr[x].inode_index = j PROVE x = e
      BY <1>2, <3>1 DEF IndInv, DirectoryInv, Listed, j
    <3>2. QED
      BY <1>2, <2>3, <3>1 DEF IndInv, FilesInv, InUse, Listed, IsOpen
  <2>5. OneDescriptorPerFile'
    BY <2>3 DEF IndInv, OneDescriptorPerFile, IsOpen, j
  <2>6. ReadPtrInFile'
    BY <1>3, <2>3 DEF IndInv, ReadPtrInFile, IsOpen, InodeOf
  <2>7. QED
    BY <2>2, <2>4, <2>5, <2>6
<1>7. QED
  BY <1>5, <1>6

(* The rest of the invariant does not look at descriptors between calls. *)
LEMMA DescriptorsOnly ==
  ASSUME IndInv, call = Idle, UNCHANGED <<inode_arr, dir_entry_arr, bitmap, disk, call>>,
         file_descriptor_table' \in [Slots -> FileType],
         FilesInv', OneDescriptorPerFile', ReadPtrInFile'
  PROVE  Kept
<1>1. ~Opening' /\ ~Removing' /\ ~Writing' /\ ~Removing
  BY DEF Idle, Opening, Removing, Writing, OpenCall, RemoveCall, WriteCall
<1>2. TypeOK'
  BY DEF IndInv, TypeOK, disk
<1>3. CallInv'
  BY <1>1 DEF CallInv
<1>4. DirectoryInv'
  BY DEF IndInv, DirectoryInv, Listed
<1>5. UnsetInv'
  BY <1>1 DEF IndInv, UnsetInv
<1>6. ContentsKept
  BY <1>1 DEF ContentsKept, ContentsInv, DirBlocks, disk
<1>7. OwnersKept
  BY <1>1 DEF OwnersKept, OwnersInv, OneOwner, MarkedInv, BeingRemoved, Live, Listed, Owned, Pointers
<1>8. BitmapSaved' /\ SavedInv'
  BY <1>1 DEF IndInv, BitmapSaved, SavedInv, Live, Listed, disk
<1>9. QED
  BY <1>2, <1>3, <1>4, <1>5, <1>6, <1>7, <1>8 DEF Kept, IndInv

LEMMA FOpenExistingKeeps ==
  ASSUME IndInv, NEW n \in Names, FOpenExisting(n)
  PROVE  Kept
<1> DEFINE e == find_dir_index_by_fname(n)
<1>1. n # 0
  BY ClientsAssumption
<1>2. e \in Slots /\ dir_entry_arr[e].fname = n
  BY DirIndex DEF FOpenExisting
<1>3. e \in Listed
  BY <1>1, <1>2 DEF IndInv, DirectoryInv
<1>4. ASSUME NEW f \in Slots
      PROVE  file_descriptor_table[f].inode_index # dir_entry_arr[e].inode_index
  BY <1>2, <1>3 DEF FOpenExisting, IndInv, FilesInv, Listed, IsOpen
<1>5. OpenFile(n, e) /\ call = Idle
      /\ UNCHANGED <<inode_arr, dir_entry_arr, bitmap, disk, call>>
  BY DEF FOpenExisting
<1> HIDE DEF e
<1>6. QED
  BY <1>2, <1>3, <1>4, <1>5, OpenFileKeeps, DescriptorsOnly

(* One descriptor that is open gets another offset, or is closed. *)
LEMMA OneDescriptorChanges ==
  ASSUME IndInv, NEW f \in Slots, IsOpen(f), call = Idle,
         UNCHANGED <<inode_arr, dir_entry_arr, bitmap, disk, call>>,
         NEW d \in FileType, file_descriptor_table' = [file_descriptor_table EXCEPT ![f] = d],
         \/ d = NoFile
         \/ /\ d.inode_index = file_descriptor_table[f].inode_index
            /\ d.fname = file_descriptor_table[f].fname
            /\ d.read_ptr <= InodeOf(f).file_end
  PROVE  Kept
<1>1. file_descriptor_table \in [Slots -> FileType] /\ NoFile.inode_index = NULL
  BY DEF IndInv, TypeOK, NoFile
<1>2. /\ file_descriptor_table' \in [Slots -> FileType]
      /\ file_descriptor_table'[f] = d
      /\ \A g \in Slots \ {f} : file_descriptor_table'[g] = file_descriptor_table[g]
  BY <1>1
<1>3. FilesInv'
  BY <1>1, <1>2 DEF IndInv, FilesInv, InUse, Listed, IsOpen
<1>4. OneDescriptorPerFile'
  BY <1>1, <1>2 DEF IndInv, OneDescriptorPerFile, IsOpen
<1>5. ReadPtrInFile'
  BY <1>1, <1>2 DEF IndInv, ReadPtrInFile, IsOpen, InodeOf
<1>6. QED
  BY <1>2, <1>3, <1>4, <1>5, DescriptorsOnly

LEMMA UseKeeps == ASSUME IndInv, Use PROVE Kept
<1> PICK f \in Slots : \/ FClose(f)
                       \/ \E loc \in WriteSeeks : FWSeek(f, loc)
                       \/ \E loc \in ReadSeeks : FRSeek(f, loc)
                       \/ \E length \in Reads : FRead(f, length)
  BY DEF Use
<1> DEFINE d == file_descriptor_table[f]
<1>1. /\ inode_arr \in [Inodes -> InodeType]
      /\ file_descriptor_table \in [Slots -> FileType] /\ d \in FileType
      /\ IsOpen(f) => InodeOf(f).file_end \in 0 .. MaxOffset /\ d.read_ptr <= InodeOf(f).file_end
  BY DEF IndInv, TypeOK, ReadPtrInFile, IsOpen, InodeOf, InodeType, FileType
<1>2. CASE FClose(f)
  <2>1. NoFile \in FileType
    BY Sizes DEF NoFile, FileType
  <2>2. QED
    BY <1>2, <2>1, OneDescriptorChanges DEF FClose
<1>3. ASSUME NEW loc \in WriteSeeks, FWSeek(f, loc) PROVE Kept
  <2> DEFINE moved == [d EXCEPT !.write_ptr = loc]
  <2>1. loc \in 0 .. MaxOffset
    BY <1>3, ClientsAssumption, Sizes DEF FWSeek
  <2>2. moved \in FileType /\ moved.inode_index = d.inode_index /\ moved.fname = d.fname
        /\ moved.read_ptr = d.read_ptr
    BY <1>1, <2>1 DEF FileType
  <2>3. file_descriptor_table' = [file_descriptor_table EXCEPT ![f] = moved]
    BY <1>3 DEF FWSeek
  <2> HIDE DEF moved
  <2>4. QED
    BY <1>1, <1>3, <2>2, <2>3, OneDescriptorChanges DEF FWSeek
<1>4. ASSUME NEW loc \in Nat, IsOpen(f), loc <= InodeOf(f).file_end, call = Idle,
             file_descriptor_table' = [file_descriptor_table EXCEPT ![f].read_ptr = loc],
             UNCHANGED <<inode_arr, dir_entry_arr, bitmap, disk, call>>
      PROVE  Kept
  <2> DEFINE moved == [d EXCEPT !.read_ptr = loc]
  <2>1. moved \in FileType /\ moved.inode_index = d.inode_index /\ moved.fname = d.fname
        /\ moved.read_ptr = loc
    BY <1>1 DEF FileType
  <2>2. file_descriptor_table' = [file_descriptor_table EXCEPT ![f] = moved]
    BY <1>4
  <2> HIDE DEF moved
  <2>3. QED
    BY <1>1, <1>4, <2>1, <2>2, OneDescriptorChanges
<1>5. ASSUME NEW loc \in ReadSeeks, FRSeek(f, loc) PROVE Kept
  BY <1>4, <1>5, ClientsAssumption DEF FRSeek
<1>6. ASSUME NEW length \in Reads, FRead(f, length) PROVE Kept
  <2> DEFINE loc == Min({d.read_ptr + length, InodeOf(f).file_end})
  <2>1. d.read_ptr \in Nat /\ length \in Nat /\ InodeOf(f).file_end \in Nat
    BY <1>1, <1>6, ClientsAssumption, Sizes DEF FRead, FileType
  <2>2. loc \in Nat /\ loc <= InodeOf(f).file_end
    BY <2>1, MinOfTwo
  <2>3. file_descriptor_table' = [file_descriptor_table EXCEPT ![f].read_ptr = loc]
    BY <1>6 DEF FRead
  <2> HIDE DEF loc
  <2>4. QED
    BY <1>4, <1>6, <2>2, <2>3 DEF FRead
<1>7. QED
  BY <1>2, <1>3, <1>5, <1>6

-----------------------------------------------------------------------------
(* Starting a write, and saving *)

LEMMA FWriteKeeps ==
  ASSUME IndInv, NEW f \in Slots, NEW d \in Data, NEW length \in Writes, FWrite(f, d, length)
  PROVE  Kept
<1>1. InodeOf(f) \in InodeType /\ InodeOf(f).data_blocks[LastPointer].id = 0
  BY DEF FWrite, IsOpen, InodeOf, IndInv, TypeOK, UnsetInv, FileType
<1>2. call' \in WriteCall /\ call'.fd = f /\ call'.inode = InodeOf(f) /\ call'.step = "write"
  BY <1>1, ClientsAssumption DEF FWrite, WriteCall, NULL
<1>3. ~Opening' /\ ~Removing' /\ call' # Idle
  BY <1>2 DEF Opening, Removing, OpenCall, RemoveCall, Idle
<1>4. ~Removing
  BY DEF FWrite, Removing, RemoveCall, Idle
<1>5. UNCHANGED <<inode_arr, dir_entry_arr, file_descriptor_table, bitmap, disk>> /\ IsOpen(f)
  BY DEF FWrite
<1>6. TypeOK'
  BY <1>2, <1>5 DEF IndInv, TypeOK, disk
<1>7. CallInv'
  BY <1>2, <1>3, <1>5 DEF CallInv, IsOpen
<1>8. DirectoryInv' /\ FilesInv' /\ OneDescriptorPerFile' /\ ReadPtrInFile'
  BY <1>5 DEF IndInv, DirectoryInv, FilesInv, OneDescriptorPerFile, ReadPtrInFile, InUse,
              Listed, IsOpen, InodeOf
<1>9. UnsetInv'
  BY <1>1, <1>2, <1>5 DEF IndInv, UnsetInv
<1>10. ContentsKept
  BY <1>2, <1>5 DEF ContentsKept, ContentsInv, DirBlocks, disk
<1>11. OwnersKept
  BY <1>3, <1>4, <1>5
  DEF OwnersKept, OwnersInv, OneOwner, MarkedInv, BeingRemoved, Live, Listed, Owned, Pointers
<1>12. BitmapSaved' /\ SavedInv'
  <2>1. bitmap = disk_bitmap
    BY DEF IndInv, BitmapSaved, FWrite, Idle
  <2>2. QED
    BY <1>3, <1>5, <2>1 DEF BitmapSaved, SavedInv, disk
<1>13. QED
  BY <1>6, <1>7, <1>8, <1>9, <1>10, <1>11, <1>12 DEF Kept, IndInv

(* The four kinds of call, told apart by their first fields. *)
LEMMA CallKinds ==
  ASSUME TypeOK
  PROVE  /\ call.step = "idle" <=> call = Idle
         /\ call.step \in {"write", "new_table", "pointer", "table", "data"} <=> Writing
         /\ call.step \in {"save_dir", "save_inode", "save_bitmap"}
              <=> call \in OpenCall \cup RemoveCall
         /\ call = Idle => ~Writing /\ ~Opening /\ ~Removing
         /\ Writing => ~Opening /\ ~Removing
         /\ Opening => ~Removing
<1>1. CASE call = Idle
  BY <1>1 DEF Idle, WriteCall, OpenCall, RemoveCall, Writing, Opening, Removing
<1>2. CASE call \in WriteCall
  BY <1>2 DEF Idle, WriteCall, OpenCall, RemoveCall, Writing, Opening, Removing
<1>3. CASE call \in OpenCall
  BY <1>3 DEF Idle, WriteCall, OpenCall, RemoveCall, Writing, Opening, Removing
<1>4. CASE call \in RemoveCall
  BY <1>4 DEF Idle, WriteCall, OpenCall, RemoveCall, Writing, Opening, Removing
<1>5. QED
  BY <1>1, <1>2, <1>3, <1>4 DEF TypeOK

LEMMA SaveDirKeeps == ASSUME IndInv, SaveDir PROVE Kept
<1>1. TypeOK /\ call \in OpenCall \cup RemoveCall /\ call.step = "save_dir"
  BY CallKinds DEF IndInv, SaveDir
<1>2. UNCHANGED <<inode_arr, dir_entry_arr, file_descriptor_table, bitmap,
                  disk_inodes, disk_bitmap>>
      /\ call' = [call EXCEPT !.step = "save_inode"]
  BY DEF SaveDir
<1>3. /\ call \in OpenCall => /\ call' \in OpenCall
                              /\ call'.entry = call.entry /\ call'.name = call.name
      /\ call \in RemoveCall => call' \in RemoveCall
      /\ call'.step = "save_inode"
  BY <1>1, <1>2 DEF OpenCall, RemoveCall
<1>4. /\ Opening' => Opening /\ call'.entry = call.entry /\ call'.name = call.name
      /\ ~Removing /\ ~Removing' /\ ~Writing' /\ call' # Idle
  BY <1>1, <1>3 DEF Opening, Removing, Writing, OpenCall, RemoveCall, WriteCall, Idle
<1>5. /\ disk_blocks' \in BlocksType
      /\ \A b \in Blocks : (\A k \in Direct : inode_arr[ROOT].data_blocks[k].id # b)
                             => disk_blocks'[b] = disk_blocks[b]
  BY <1>1, DirSavedWrites DEF TypeOK, SaveDir
<1>6. TypeOK'
  BY <1>1, <1>2, <1>3, <1>5 DEF TypeOK
<1>7. CallInv'
  BY <1>2, <1>4 DEF IndInv, CallInv, Listed
<1>8. DirectoryInv' /\ FilesInv' /\ OneDescriptorPerFile' /\ ReadPtrInFile'
  BY <1>2 DEF IndInv, DirectoryInv, FilesInv, OneDescriptorPerFile, ReadPtrInFile, InUse,
              Listed, IsOpen, InodeOf
<1>9. UnsetInv'
  BY <1>2, <1>4 DEF IndInv, UnsetInv
<1>10. ContentsKept
  BY <1>2, <1>4, <1>5 DEF ContentsKept, ContentsInv, DirBlocks
<1>11. OwnersKept
  BY <1>2, <1>4
  DEF OwnersKept, OwnersInv, OneOwner, MarkedInv, BeingRemoved, Live, Listed, Owned, Pointers
<1>12. BitmapSaved' /\ SavedInv'
  <2>1. bitmap = disk_bitmap
    BY <1>1 DEF IndInv, BitmapSaved
  <2>2. QED
    BY <1>2, <1>3, <1>4, <2>1 DEF BitmapSaved, SavedInv
<1>13. QED
  BY <1>6, <1>7, <1>8, <1>9, <1>10, <1>11, <1>12 DEF Kept, IndInv

LEMMA SaveInodeKeeps == ASSUME IndInv, SaveInode PROVE Kept
<1>1. TypeOK /\ call \in OpenCall \cup RemoveCall /\ call.step = "save_inode"
  BY CallKinds DEF IndInv, SaveInode
<1>2. UNCHANGED <<inode_arr, dir_entry_arr, file_descriptor_table, bitmap,
                  disk_blocks, disk_bitmap>> /\ disk_inodes' = inode_arr
  BY DEF SaveInode
<1>3. \/ /\ Opening /\ Opening' /\ call' \in OpenCall /\ call'.step = "save_bitmap"
         /\ call'.entry = call.entry /\ call'.name = call.name /\ call'.op = "open"
      \/ call' = Idle /\ ~Opening'
  BY <1>1 DEF SaveInode, Opening, OpenCall, RemoveCall, Idle
<1>4. ~Removing /\ ~Removing' /\ ~Writing'
  BY <1>1, <1>3 DEF Opening, Removing, Writing, OpenCall, RemoveCall, WriteCall, Idle
<1>5. TypeOK'
  BY <1>1, <1>2, <1>3 DEF TypeOK
<1>6. CallInv'
  BY <1>2, <1>3, <1>4 DEF IndInv, CallInv, Listed
<1>7. DirectoryInv' /\ FilesInv' /\ OneDescriptorPerFile' /\ ReadPtrInFile'
  BY <1>2 DEF IndInv, DirectoryInv, FilesInv, OneDescriptorPerFile, ReadPtrInFile, InUse,
              Listed, IsOpen, InodeOf
<1>8. UnsetInv'
  BY <1>2, <1>4 DEF IndInv, UnsetInv
<1>9. ContentsKept
  BY <1>2, <1>4 DEF ContentsKept, ContentsInv, DirBlocks
<1>10. OwnersKept
  BY <1>2, <1>4
  DEF OwnersKept, OwnersInv, OneOwner, MarkedInv, BeingRemoved, Live, Listed, Owned, Pointers
<1>11. BitmapSaved' /\ SavedInv'
  <2>1. bitmap = disk_bitmap
    BY <1>1 DEF IndInv, BitmapSaved
  <2>2. QED
    BY <1>2, <2>1 DEF BitmapSaved, SavedInv
<1>12. QED
  BY <1>5, <1>6, <1>7, <1>8, <1>9, <1>10, <1>11 DEF Kept, IndInv

LEMMA FOpenEndKeeps == ASSUME IndInv, FOpenEnd PROVE Kept
<1> DEFINE e == call.entry
<1>1. TypeOK /\ call \in OpenCall /\ call.step = "save_bitmap"
  BY CallKinds DEF IndInv, FOpenEnd, RemoveCall
<1>2. /\ UNCHANGED <<inode_arr, dir_entry_arr, bitmap, disk_inodes, disk_blocks>>
      /\ disk_bitmap' = bitmap /\ OpenFile(call.name, e) /\ call' = Idle
  BY DEF FOpenEnd
<1>3. Opening /\ ~Removing /\ ~Opening' /\ ~Removing' /\ ~Writing'
  BY <1>1, <1>2 DEF Opening, Removing, Writing, OpenCall, RemoveCall, WriteCall, Idle
<1>4. /\ e \in Listed /\ dir_entry_arr[e].fname = call.name
      /\ \A f \in Slots : file_descriptor_table[f].inode_index # dir_entry_arr[e].inode_index
  BY <1>3 DEF IndInv, CallInv
<1>5. /\ file_descriptor_table' \in [Slots -> FileType]
      /\ FilesInv' /\ OneDescriptorPerFile' /\ ReadPtrInFile'
  <2> HIDE DEF e
  <2>1. QED
    BY <1>2, <1>4, OpenFileKeeps
<1>6. TypeOK'
  BY <1>1, <1>2, <1>5 DEF TypeOK
<1>7. CallInv' /\ UnsetInv'
  BY <1>2, <1>3 DEF IndInv, CallInv, UnsetInv
<1>8. DirectoryInv' /\ ContentsKept
  BY <1>2, <1>3 DEF IndInv, DirectoryInv, Listed, ContentsKept, ContentsInv, DirBlocks
<1>9. OwnersKept
  BY <1>2, <1>3
  DEF OwnersKept, OwnersInv, OneOwner, MarkedInv, BeingRemoved, Live, Listed, Owned, Pointers
<1>10. BitmapSaved' /\ SavedInv'
  BY <1>1, <1>2, <1>3 DEF IndInv, BitmapSaved, SavedInv, Live, Listed
<1>11. QED
  BY <1>5, <1>6, <1>7, <1>8, <1>9, <1>10 DEF Kept, IndInv

-----------------------------------------------------------------------------
(* Who owns which block *)

(* At most inode j gets a pointer k to block b. *)
Gains(j, k, b) ==
  /\ b \in Blocks => bitmap[b] = 0 /\ bitmap'[b] = 1
  /\ \A c \in Blocks : bitmap[c] = 1 => bitmap'[c] = 1
  /\ \A m \in Live' : \A p \in Owned(m)' : \/ m \in Live /\ p \in Owned(m)
                                           \/ m = j /\ p = <<k, b>>

LEMMA OwnerGains ==
  ASSUME ~Removing, ~Removing', NEW j, NEW k, NEW b, Gains(j, k, b)
  PROVE  OwnersKept
<1> SUFFICES ASSUME OneOwner, MarkedInv PROVE OneOwner' /\ MarkedInv'
  BY DEF OwnersKept, OwnersInv
<1>1. \A m \in Live : \A p \in Owned(m) : p[2] \in Blocks /\ bitmap[p[2]] = 1
  BY DEF MarkedInv, BeingRemoved, Owned
<1>2. OneOwner'
  BY <1>1 DEF OneOwner, Gains
<1>3. MarkedInv'
  BY <1>1 DEF MarkedInv, BeingRemoved, Owned, Gains
<1>4. QED
  BY <1>2, <1>3

(* A pointer of an inode is set. *)
WithPointer(inodes, j, k, b) == [inodes EXCEPT ![j].data_blocks[k].id = b]
WithTable(inodes, j, b)      == [inodes EXCEPT ![j].singly_indirect_ptr.id = b]

LEMMA PointerSet ==
  ASSUME NEW inodes \in [Inodes -> InodeType], NEW j \in Inodes, NEW k \in Direct,
         NEW b \in Blocks \cup {NULL}
  PROVE  LET new == WithPointer(inodes, j, k, b)
         IN  /\ new \in [Inodes -> InodeType]
             /\ \A m \in Inodes \ {j} : new[m] = inodes[m]
             /\ new[j].link_count = inodes[j].link_count
             /\ new[j].file_end = inodes[j].file_end
             /\ new[j].singly_indirect_ptr = inodes[j].singly_indirect_ptr
             /\ \A x \in Direct : new[j].data_blocks[x].id =
                                    IF x = k THEN b ELSE inodes[j].data_blocks[x].id
             /\ inodes[j].data_blocks[k].id = b => new = inodes
<1> DEFINE new == [inodes EXCEPT ![j].data_blocks[k].id = b]
           old == inodes[j].data_blocks
<1>1. old \in [Direct -> PtrType] /\ old[k] \in PtrType
  BY DEF InodeType
<1>2. [old[k] EXCEPT !.id = b] \in PtrType /\ [old[k] EXCEPT !.id = b].id = b
      /\ (old[k].id = b => [old[k] EXCEPT !.id = b] = old[k])
  BY <1>1 DEF PtrType
<1> DEFINE ptr == [old[k] EXCEPT !.id = b]
           ptrs == [old EXCEPT ![k] = ptr]
<1>3. ptrs \in [Direct -> PtrType] /\ (old[k].id = b => ptrs = old)
      /\ \A x \in Direct : ptrs[x].id = IF x = k THEN b ELSE old[x].id
  <2> HIDE DEF ptr, old
  <2>1. ptr \in PtrType /\ ptr.id = b /\ (old[k].id = b => ptr = old[k])
    BY <1>2 DEF ptr, old
  <2>2. QED
    BY <1>1, <2>1
<1>4. new = [inodes EXCEPT ![j] = [inodes[j] EXCEPT !.data_blocks = ptrs]]
  OBVIOUS
<1> HIDE DEF ptrs
<1> DEFINE inode == [inodes[j] EXCEPT !.data_blocks = ptrs]
<1>5. inode \in InodeType /\ inode.data_blocks = ptrs
      /\ inode.link_count = inodes[j].link_count /\ inode.file_end = inodes[j].file_end
      /\ inode.singly_indirect_ptr = inodes[j].singly_indirect_ptr
      /\ (ptrs = old => inode = inodes[j])
  BY <1>3 DEF InodeType
<1> HIDE DEF inode
<1>6. new = [inodes EXCEPT ![j] = inode]
  BY <1>4 DEF inode
<1>7. QED
  BY <1>3, <1>5, <1>6 DEF WithPointer

LEMMA IndirectSet ==
  ASSUME NEW inodes \in [Inodes -> InodeType], NEW j \in Inodes, NEW b \in Blocks \cup {NULL}
  PROVE  LET new == WithTable(inodes, j, b)
         IN  /\ new \in [Inodes -> InodeType]
             /\ \A m \in Inodes \ {j} : new[m] = inodes[m]
             /\ new[j].link_count = inodes[j].link_count
             /\ new[j].file_end = inodes[j].file_end
             /\ new[j].data_blocks = inodes[j].data_blocks
             /\ new[j].singly_indirect_ptr.id = b
<1> DEFINE ptr == [inodes[j].singly_indirect_ptr EXCEPT !.id = b]
           inode == [inodes[j] EXCEPT !.singly_indirect_ptr = ptr]
<1>1. ptr \in PtrType /\ ptr.id = b
  BY DEF InodeType, PtrType
<1> HIDE DEF ptr
<1>2. inode \in InodeType /\ inode.singly_indirect_ptr = ptr
      /\ inode.link_count = inodes[j].link_count /\ inode.file_end = inodes[j].file_end
      /\ inode.data_blocks = inodes[j].data_blocks
  BY <1>1 DEF InodeType
<1> HIDE DEF inode
<1>3. [inodes EXCEPT ![j].singly_indirect_ptr.id = b] = [inodes EXCEPT ![j] = inode]
  BY DEF inode, ptr
<1>4. QED
  BY <1>1, <1>2, <1>3 DEF WithTable

-----------------------------------------------------------------------------
(* A new file *)

LEMMA DivSlice ==
  ASSUME NEW k \in Nat, NEW b \in Nat \ {0}, NEW x \in b * k .. b * k + b - 1
  PROVE  x \div b = k
<1>1. x \in Nat
  BY SMT
<1>2. x \div b \in Nat /\ x % b \in 0 .. b - 1 /\ x = b * (x \div b) + (x % b)
  BY <1>1, DivMod
<1>3. x < b * (k + 1) /\ b * k <= x
  OBVIOUS
<1>4. x \div b < k + 1
  BY <1>1, <1>3, DivLess
<1>5. ~(x \div b < k)
  <2>1. SUFFICES ASSUME x \div b + 1 <= k PROVE FALSE
    BY <1>2
  <2>2. b * (x \div b + 1) <= b * k
    BY <1>2, <2>1
  <2>3. QED
    BY <1>2, <1>3, <2>2
<1>6. QED
  BY <1>2, <1>4, <1>5

(* Clearing the slice of a new directory block clears no listed entry. *)
LEMMA SliceIsFree ==
  ASSUME IndInv, find_free_dir_entry # NULL,
         inode_arr[ROOT].data_blocks[find_free_dir_entry \div DIR_ENTRIES_PER_BLOCK].id = NULL,
         NEW x \in Slots,
         x \in find_free_dir_entry .. find_free_dir_entry + DIR_ENTRIES_PER_BLOCK - 1
  PROVE  dir_entry_arr[x].inode_index = NULL
<1> DEFINE e == find_free_dir_entry
           D == DIR_ENTRIES_PER_BLOCK
           k == e \div D
<1>1. e \in Slots /\ \A y \in Slots : dir_entry_arr[y].inode_index = NULL => e <= y
  BY FreeDirEntry
<1>2. e \in Nat /\ D \in Nat \ {0} /\ k \in Nat /\ e % D \in 0 .. D - 1 /\ e = D * k + (e % D)
  BY <1>1, Sizes, DivMod
<1>3. ASSUME NEW y \in Slots, y \div D = k PROVE dir_entry_arr[y].inode_index = NULL
  BY <1>3 DEF IndInv, DirectoryInv, Listed
<1> HIDE DEF e, k
<1>4. D * k \in Nat /\ D * k <= e
  BY <1>2
<1>5. D * k \in Slots
  BY <1>1, <1>2, <1>4, Sizes DEF Slots
<1>6. (D * k) \div D = k
  BY <1>2, <1>4, DivSlice
<1>7. e = D * k
  BY <1>1, <1>2, <1>3, <1>4, <1>5, <1>6
<1>8. x \div D = k
  BY <1>2, <1>7, DivSlice DEF e
<1>9. QED
  BY <1>3, <1>8

(* An inode that has never been in use is, and if no block was missing     *)
(* there is an entry for it.                                               *)
FileMade(n) ==
  \E j \in Inodes \ {ROOT} :
    /\ inode_arr[j].link_count = 0 /\ inode_arr'[j].link_count = 1
    /\ \A m \in Inodes \ {j} : inode_arr'[m].link_count = inode_arr[m].link_count
    /\ UNCHANGED file_descriptor_table
    /\ \/ \E e \in Slots \ Listed :
            /\ dir_entry_arr'[e].inode_index = j /\ dir_entry_arr'[e].fname = n
            /\ \A x \in Slots \ {e} :
                 /\ dir_entry_arr'[x].inode_index = dir_entry_arr[x].inode_index
                 /\ dir_entry_arr'[x].fname = dir_entry_arr[x].fname
       \/ UNCHANGED dir_entry_arr

LEMMA FOpenNewKeeps ==
  ASSUME IndInv, NEW n \in Names, FOpenNew(n)
  PROVE  Kept /\ FileMade(n)
<1> DEFINE e == find_free_dir_entry
           j == find_free_inode
           k == e \div DIR_ENTRIES_PER_BLOCK
           b == FreeBlock(disk_bitmap)
           withFile == [inode_arr EXCEPT ![j] = init_new_file(inode_arr[j])]
           needsBlock == inode_arr[ROOT].data_blocks[k].id = NULL
           slice == e .. e + DIR_ENTRIES_PER_BLOCK - 1
           cleared == [x \in Slots |-> IF needsBlock /\ x \in slice
                                         THEN [dir_entry_arr[x] EXCEPT !.inode_index = NULL]
                                         ELSE dir_entry_arr[x]]
           new == init_new_file(ZeroInode)
<1>1. /\ inode_arr \in [Inodes -> InodeType] /\ dir_entry_arr \in [Slots -> EntryType]
      /\ bitmap \in BitmapType /\ disk_bitmap \in BitmapType
      /\ file_descriptor_table \in [Slots -> FileType]
  BY DEF IndInv, TypeOK
<1>2. /\ call = Idle /\ find_dir_index_by_fname(n) = NULL /\ e # NULL /\ j # NULL /\ k \in Direct
      /\ UNCHANGED <<file_descriptor_table, disk_inodes, disk_blocks>>
  BY DEF FOpenNew
<1>3. /\ e \in Slots /\ e \notin Listed
      /\ j \in Inodes /\ j # ROOT /\ inode_arr[j] = ZeroInode
      /\ n # 0 /\ \A x \in Slots : dir_entry_arr[x].fname # n
  <2>1. e \in Slots /\ e \notin Listed
    BY <1>2, FreeDirEntry DEF Listed
  <2>2. j \in Inodes /\ j # ROOT /\ inode_arr[j].link_count < 1
    BY <1>2, FreeInode
  <2>3. inode_arr[j].link_count = 0
    BY <1>1, <2>2 DEF InodeType
  <2>4. QED
    BY <1>2, <2>1, <2>2, <2>3, DirIndex, ClientsAssumption DEF IndInv, FilesInv
<1>4. /\ ~InUse(j) /\ j \notin Live
      /\ \A f \in Slots : file_descriptor_table[f].inode_index # j
  <2>1. ~InUse(j) /\ j # NULL
    BY <1>2, <1>3 DEF InUse, ZeroInode
  <2>2. QED
    BY <1>3, <2>1 DEF IndInv, FilesInv, Live, Listed, IsOpen
<1>5. ~Writing /\ ~Opening /\ ~Removing /\ bitmap = disk_bitmap
  <2>1. call.step = "idle"
    BY <1>2 DEF Idle
  <2>2. QED
    BY <1>2, <2>1, CallKinds DEF IndInv, BitmapSaved
<1>6. /\ inode_arr' = IF needsBlock THEN [withFile EXCEPT ![ROOT].data_blocks[k].id = b]
                      ELSE withFile
      /\ disk_bitmap' = (IF needsBlock THEN Taken(disk_bitmap, b) ELSE disk_bitmap)
      /\ bitmap' = disk_bitmap'
      /\ IF needsBlock /\ b = NULL
           THEN UNCHANGED <<dir_entry_arr, call>>
           ELSE /\ dir_entry_arr' = [cleared EXCEPT ![e] = [inode_index |-> j, fname |-> n]]
                /\ call' = [step |-> "save_dir", op |-> "open", name |-> n, entry |-> e]
  <2>1. FOpenNew(n) /\ bitmap = disk_bitmap
    BY <1>5
  <2>2. QED
    BY <2>1 DEF FOpenNew
<1>7. /\ b \in Blocks \cup {NULL} /\ (b \in Blocks => bitmap[b] = 0)
      /\ disk_bitmap' \in BitmapType
      /\ \A c \in Blocks : bitmap[c] = 1 \/ (needsBlock /\ c = b) => bitmap'[c] = 1
  BY <1>1, <1>5, <1>6, Allocation, Sizes
<1> HIDE DEF e, j, k, b, new
<1>8. /\ withFile \in [Inodes -> InodeType] /\ withFile[j] = new
      /\ \A m \in Inodes \ {j} : withFile[m] = inode_arr[m]
  BY <1>1, <1>3, NewInode DEF new
(* The inodes: that of the file, which has no blocks, and the root's. *)
<1>9. /\ inode_arr' \in [Inodes -> InodeType]
      /\ inode_arr'[j] = new
      /\ \A m \in Inodes \ {j, ROOT} : inode_arr'[m] = inode_arr[m]
      /\ inode_arr'[ROOT].link_count = inode_arr[ROOT].link_count
      /\ inode_arr'[ROOT].file_end = inode_arr[ROOT].file_end
      /\ inode_arr'[ROOT].singly_indirect_ptr = inode_arr[ROOT].singly_indirect_ptr
      /\ \A x \in Direct : inode_arr'[ROOT].data_blocks[x].id =
           IF needsBlock /\ x = k THEN b ELSE inode_arr[ROOT].data_blocks[x].id
      /\ needsBlock /\ b = NULL => inode_arr'[ROOT] = inode_arr[ROOT]
  <2> HIDE DEF withFile
  <2>1. ROOT \in Inodes /\ withFile[ROOT] = inode_arr[ROOT]
    BY <1>3, <1>8, Sizes
  <2>2. CASE needsBlock
    <3>1. inode_arr' = [withFile EXCEPT ![ROOT].data_blocks[k].id = b]
      BY <1>6, <2>2
    <3>2. /\ inode_arr' \in [Inodes -> InodeType]
          /\ \A m \in Inodes \ {ROOT} : inode_arr'[m] = withFile[m]
          /\ inode_arr'[ROOT].link_count = withFile[ROOT].link_count
          /\ inode_arr'[ROOT].file_end = withFile[ROOT].file_end
          /\ inode_arr'[ROOT].singly_indirect_ptr = withFile[ROOT].singly_indirect_ptr
          /\ \A x \in Direct : inode_arr'[ROOT].data_blocks[x].id =
                                 IF x = k THEN b ELSE withFile[ROOT].data_blocks[x].id
          /\ withFile[ROOT].data_blocks[k].id = b => inode_arr' = withFile
      <4>1. withFile \in [Inodes -> InodeType] /\ ROOT \in Inodes /\ k \in Direct
            /\ b \in Blocks \cup {NULL}
        BY <1>2, <1>7, <1>8, <2>1
      <4>2. inode_arr' = WithPointer(withFile, ROOT, k, b)
        BY <3>1 DEF WithPointer
      <4>3. QED
        BY <4>1, <4>2, PointerSet
    <3>3. QED
      BY <1>3, <1>8, <2>1, <2>2, <3>2
  <2>3. CASE ~needsBlock
    BY <1>3, <1>6, <1>8, <2>1, <2>3
  <2>4. QED
    BY <2>2, <2>3
<1>10. /\ new \in InodeType /\ new.link_count = 1 /\ new.file_end = 0
       /\ \A x \in Direct : new.data_blocks[x].id \in {0, NULL}
       /\ new.data_blocks[LastPointer].id = 0 /\ new.singly_indirect_ptr.id = NULL
  BY NewInode DEF new
<1>11. k # LastPointer \/ ~needsBlock
  BY Sizes DEF IndInv, UnsetInv
(* The directory: one more entry, or none. *)
<1>12. \/ /\ dir_entry_arr' \in [Slots -> EntryType]
          /\ dir_entry_arr'[e] = [inode_index |-> j, fname |-> n]
          /\ \A x \in Slots \ {e} : /\ dir_entry_arr'[x].inode_index = dir_entry_arr[x].inode_index
                                    /\ dir_entry_arr'[x].fname = dir_entry_arr[x].fname
          /\ call' \in OpenCall /\ call'.step = "save_dir" /\ call'.name = n /\ call'.entry = e
          /\ inode_arr'[ROOT].data_blocks[k].id # NULL
       \/ UNCHANGED <<dir_entry_arr, call>> /\ needsBlock /\ b = NULL
  <2>1. ASSUME NEW x \in Slots, needsBlock /\ x \in slice
        PROVE  dir_entry_arr[x].inode_index = NULL
    BY <1>2, <2>1, SliceIsFree DEF e, k
  <2>2. ASSUME NEW x \in Slots
        PROVE  cleared[x] \in EntryType /\ cleared[x].inode_index = dir_entry_arr[x].inode_index
               /\ cleared[x].fname = dir_entry_arr[x].fname
    BY <1>1, <2>1 DEF EntryType
  <2>3. cleared \in [Slots -> EntryType]
    BY <2>2
  <2>4. [inode_index |-> j, fname |-> n] \in EntryType
    BY <1>3 DEF EntryType
  <2>5. [step |-> "save_dir", op |-> "open", name |-> n, entry |-> e] \in OpenCall
    BY <1>3 DEF OpenCall
  <2> HIDE DEF cleared
  <2>6. QED
    BY <1>2, <1>3, <1>6, <1>9, <2>2, <2>3, <2>4, <2>5
<1> HIDE DEF needsBlock, cleared, withFile
(* In both cases: *)
<1>13. /\ Live' \subseteq Live \cup {j} /\ ~Removing' /\ ~Writing'
       /\ \A x \in Listed' : \/ x = e /\ dir_entry_arr'[x].inode_index = j
                                       /\ dir_entry_arr'[x].fname = n
                             \/ /\ x \in Listed
                                /\ dir_entry_arr'[x].inode_index = dir_entry_arr[x].inode_index
                                /\ dir_entry_arr'[x].fname = dir_entry_arr[x].fname
  <2>1. ~Removing' /\ ~Writing'
    BY <1>5, <1>12 DEF Removing, Writing, OpenCall, RemoveCall, WriteCall
  <2>2. \A x \in Listed' : \/ x = e /\ dir_entry_arr'[x].inode_index = j
                                    /\ dir_entry_arr'[x].fname = n
                          \/ /\ x \in Listed
                             /\ dir_entry_arr'[x].inode_index = dir_entry_arr[x].inode_index
                             /\ dir_entry_arr'[x].fname = dir_entry_arr[x].fname
    BY <1>12 DEF Listed
  <2>3. QED
    BY <2>1, <2>2 DEF Live
<1>14. /\ \A m \in Inodes : inode_arr'[m].link_count = 0 => inode_arr'[m] = ZeroInode
       /\ \A m \in Inodes : InUse(m) => m # j /\ inode_arr'[m].link_count = 1
                                        /\ inode_arr'[m].file_end = inode_arr[m].file_end
       /\ inode_arr'[j].link_count = 1
  <2>1. inode_arr'[ROOT].link_count = 0 => inode_arr'[ROOT] = ZeroInode
    <3>1. inode_arr[ROOT].link_count = 0 => inode_arr[ROOT] = ZeroInode
      BY Sizes DEF IndInv, FilesInv
    <3>2. ZeroInode.data_blocks[k].id # NULL
      BY <1>2, Sizes DEF ZeroInode, Zero, Word
    <3>3. ~needsBlock => inode_arr'[ROOT] = inode_arr[ROOT]
      BY <1>3, <1>6, <1>8, Sizes
    <3>4. QED
      BY <1>9, <3>1, <3>2, <3>3 DEF needsBlock
  <2>2. \A m \in Inodes : inode_arr'[m].link_count = 0 => inode_arr'[m] = ZeroInode
    BY <1>9, <1>10, <2>1 DEF IndInv, FilesInv
  <2>3. inode_arr'[j].link_count = 1
    BY <1>9, <1>10
  <2>4. ASSUME NEW m \in Inodes, InUse(m)
        PROVE  m # j /\ inode_arr'[m].link_count = 1
               /\ inode_arr'[m].file_end = inode_arr[m].file_end
    BY <1>4, <1>9, <2>4 DEF InUse
  <2>5. QED
    BY <2>2, <2>3, <2>4
<1>15. FilesInv' /\ OneDescriptorPerFile' /\ ReadPtrInFile'
  <2>1. \A x \in Listed : dir_entry_arr[x].inode_index \in Inodes
    BY <1>1 DEF Listed, EntryType
  <2>2. \A f \in Slots : IsOpen(f) => file_descriptor_table[f].inode_index \in Inodes
    BY <1>1 DEF IsOpen, FileType
  <2>3. FilesInv'
    <3>1. ASSUME NEW x \in Listed'
          PROVE  /\ dir_entry_arr'[x].inode_index # ROOT
                 /\ inode_arr'[dir_entry_arr'[x].inode_index].link_count = 1
      BY <1>3, <1>13, <1>14, <2>1 DEF IndInv, FilesInv, InUse
    <3>2. ASSUME NEW f \in Slots, IsOpen(f)
          PROVE  /\ file_descriptor_table[f].inode_index # ROOT
                 /\ inode_arr'[file_descriptor_table[f].inode_index].link_count = 1
                 /\ \A x \in Listed' :
                      dir_entry_arr'[x].inode_index = file_descriptor_table[f].inode_index
                        => dir_entry_arr'[x].fname = file_descriptor_table[f].fname
      BY <1>4, <1>13, <1>14, <2>2, <3>2 DEF IndInv, FilesInv, InUse
    <3>3. QED
      BY <1>2, <1>14, <3>1, <3>2 DEF FilesInv, InUse, IsOpen
  <2>4. OneDescriptorPerFile'
    BY <1>2 DEF IndInv, OneDescriptorPerFile, IsOpen
  <2>5. ReadPtrInFile'
    BY <1>2, <1>14, <2>2 DEF IndInv, FilesInv, ReadPtrInFile, IsOpen, InodeOf
  <2>6. QED
    BY <2>3, <2>4, <2>5
<1>16. UnsetInv' /\ ContentsKept /\ BitmapSaved'
  <2>1. UnsetInv'
    BY <1>9, <1>10, <1>11, <1>13, Sizes DEF IndInv, UnsetInv
  <2>2. Blocks \ DirBlocks' \subseteq Blocks \ DirBlocks
    <3>1. \A x \in Direct : inode_arr[ROOT].data_blocks[x].id \in Blocks =>
                             inode_arr'[ROOT].data_blocks[x].id = inode_arr[ROOT].data_blocks[x].id
      BY <1>9, Sizes DEF needsBlock
    <3>2. QED
      BY <3>1 DEF DirBlocks
  <2>3. ContentsKept
    BY <1>2, <1>13, <2>2 DEF ContentsKept, ContentsInv
  <2>4. BitmapSaved'
    BY <1>6 DEF BitmapSaved
  <2>5. QED
    BY <2>1, <2>3, <2>4
<1>17. OwnersKept
  <2>1. ASSUME NEW m \in Live', NEW p \in Owned(m)'
        PROVE  \/ m \in Live /\ p \in Owned(m)
               \/ needsBlock /\ m = ROOT /\ p = <<k, b>>
    <3>1. p[2] \in Blocks \ {0}
          /\ \/ \E x \in Direct : p = <<x, inode_arr'[m].data_blocks[x].id>>
             \/ p = <<NULL, inode_arr'[m].singly_indirect_ptr.id>>
      BY DEF Owned, Pointers
    <3>2. m # j
      BY <1>9, <1>10, <3>1, Sizes
    <3>3. m \in Live /\ m \in Inodes
      BY <1>1, <1>13, <3>2, Sizes DEF Live, Listed, EntryType
    <3>4. CASE m = ROOT
      <4>1. \/ \E x \in Direct : p = <<x, inode_arr[ROOT].data_blocks[x].id>>
            \/ p = <<NULL, inode_arr[ROOT].singly_indirect_ptr.id>>
            \/ needsBlock /\ p = <<k, b>>
        BY <1>9, <3>1, <3>4
      <4>2. QED
        BY <3>1, <3>3, <3>4, <4>1, OwnedIs
    <3>5. CASE m # ROOT
      BY <1>9, <3>1, <3>2, <3>3, <3>5, OwnedIs
    <3>6. QED
      BY <3>4, <3>5
  <2>2. Gains(ROOT, k, IF needsBlock THEN b ELSE NULL)
    BY <1>7, <2>1, Sizes DEF Gains
  <2>3. QED
    BY <1>5, <1>13, <2>2, OwnerGains
<1>18. ASSUME dir_entry_arr' \in [Slots -> EntryType],
              dir_entry_arr'[e] = [inode_index |-> j, fname |-> n],
              \A x \in Slots \ {e} : /\ dir_entry_arr'[x].inode_index = dir_entry_arr[x].inode_index
                                     /\ dir_entry_arr'[x].fname = dir_entry_arr[x].fname,
              call' \in OpenCall, call'.step = "save_dir", call'.name = n, call'.entry = e,
              inode_arr'[ROOT].data_blocks[k].id # NULL
       PROVE  IndInv'
  <2>1. Listed' = Listed \cup {e} /\ Live' = Live \cup {j}
    <3>1. Listed' = Listed \cup {e}
      BY <1>2, <1>3, <1>18 DEF Listed
    <3>2. \A x \in Listed : x # e /\ x \in Slots
      BY <1>3 DEF Listed
    <3>3. QED
      BY <1>18, <3>1, <3>2 DEF Live
  <2>2. Opening' /\ ~Removing' /\ ~Writing' /\ call' # Idle
    BY <1>18 DEF Opening, Removing, Writing, OpenCall, RemoveCall, WriteCall, Idle
  <2>3. TypeOK'
    BY <1>2, <1>6, <1>7, <1>9, <1>18 DEF IndInv, TypeOK
  <2>4. CallInv'
    BY <1>2, <1>4, <1>18, <2>1, <2>2 DEF CallInv
  <2>5. DirectoryInv'
    <3> SUFFICES ASSUME NEW x \in Slots
                 PROVE  /\ x \in Listed' <=> dir_entry_arr'[x].fname # 0
                        /\ x \in Listed' =>
                             /\ x \div DIR_ENTRIES_PER_BLOCK \in Direct
                             /\ inode_arr'[ROOT].data_blocks[x \div DIR_ENTRIES_PER_BLOCK].id # NULL
                             /\ \A y \in Listed' \ {x} :
                                  /\ dir_entry_arr'[y].fname # dir_entry_arr'[x].fname
                                  /\ dir_entry_arr'[y].inode_index # dir_entry_arr'[x].inode_index
      BY DEF DirectoryInv
    <3>1. \A y \in Listed : y \in Slots /\ y # e /\ dir_entry_arr[y].inode_index # j
      BY <1>3, <1>4 DEF Listed, Live
    <3>2. CASE x = e
      BY <1>2, <1>3, <1>18, <2>1, <3>1, <3>2 DEF k
    <3>3. CASE x # e
      <4>1. /\ x \in Listed <=> dir_entry_arr[x].fname # 0
            /\ x \in Listed =>
                 /\ x \div DIR_ENTRIES_PER_BLOCK \in Direct
                 /\ inode_arr[ROOT].data_blocks[x \div DIR_ENTRIES_PER_BLOCK].id # NULL
                 /\ \A y \in Listed \ {x} :
                      /\ dir_entry_arr[y].fname # dir_entry_arr[x].fname
                      /\ dir_entry_arr[y].inode_index # dir_entry_arr[x].inode_index
        BY DEF IndInv, DirectoryInv
      <4>2. x \in Listed => inode_arr'[ROOT].data_blocks[x \div DIR_ENTRIES_PER_BLOCK].id # NULL
        BY <1>9, <1>18, <4>1
      <4>3. QED
        BY <1>3, <1>18, <2>1, <3>1, <3>3, <4>1, <4>2
    <3>4. QED
      BY <3>2, <3>3
  <2>6. SavedInv'
    BY <1>18, <2>2 DEF SavedInv, OpenCall
  <2>7. QED
    BY <1>15, <1>16, <2>3, <2>4, <2>5, <2>6 DEF IndInv
<1>19. ASSUME UNCHANGED <<dir_entry_arr, call>>, needsBlock, b = NULL
       PROVE  IndInv'
  <2>1. Listed' = Listed /\ Live' = Live /\ ~Opening'
    BY <1>5, <1>19 DEF Listed, Live, Opening
  <2>2. TypeOK'
    BY <1>2, <1>6, <1>7, <1>9, <1>19 DEF IndInv, TypeOK
  <2>3. CallInv'
    BY <1>13, <2>1 DEF CallInv
  <2>4. inode_arr'[ROOT] = inode_arr[ROOT]
    BY <1>9, <1>19
  <2>5. DirectoryInv'
    BY <1>19, <2>1, <2>4 DEF IndInv, DirectoryInv
  <2>6. SavedInv'
    <3>1. \A m \in Live : m \in Inodes /\ m # j /\ inode_arr'[m] = inode_arr[m]
      BY <1>1, <1>4, <1>9, <2>4, Sizes DEF Live, Listed, EntryType
    <3>2. QED
      BY <1>2, <2>1, <3>1 DEF IndInv, SavedInv
  <2>7. QED
    BY <1>15, <1>16, <2>2, <2>3, <2>5, <2>6 DEF IndInv
<1>20. FileMade(n)
  <2>1. /\ inode_arr[j].link_count = 0 /\ inode_arr'[j].link_count = 1
        /\ \A m \in Inodes \ {j} : inode_arr'[m].link_count = inode_arr[m].link_count
    BY <1>3, <1>9, <1>10 DEF ZeroInode
  <2>2. j \in Inodes \ {ROOT} /\ e \in Slots \ Listed /\ UNCHANGED file_descriptor_table
    BY <1>2, <1>3
  <2>3. \/ /\ dir_entry_arr'[e].inode_index = j /\ dir_entry_arr'[e].fname = n
           /\ \A x \in Slots \ {e} :
                /\ dir_entry_arr'[x].inode_index = dir_entry_arr[x].inode_index
                /\ dir_entry_arr'[x].fname = dir_entry_arr[x].fname
        \/ UNCHANGED dir_entry_arr
    BY <1>12
  <2>4. QED
    BY <2>1, <2>2, <2>3 DEF FileMade
<1>21. QED
  BY <1>12, <1>16, <1>17, <1>18, <1>19, <1>20 DEF Kept

-----------------------------------------------------------------------------
(* Writing *)

(* In the middle of a write: between its saves, or with more to write. *)
InTurn == Writing /\ (call.step = "write" => MoreToWrite)

LEMMA WriteFacts ==
  ASSUME IndInv, InTurn
  PROVE  /\ ~Removing /\ bitmap = disk_bitmap /\ call \in WriteCall
         /\ call.fd \in Slots /\ call.inode \in InodeType /\ call.data \in Data /\ call.left \in Nat
         /\ inode_index \in Inodes /\ inode_index # ROOT /\ inode_arr[inode_index].link_count = 1
         /\ write_ptr < MaxOffset /\ block_num \in Nat
         /\ block_num \notin Direct => table_index \in Offset
         /\ table_id \in Blocks \cup {NULL}
         /\ block_index \in Offset /\ num_bytes_to_write \in Nat
         /\ call.left - num_bytes_to_write \in Nat
         /\ write_ptr + num_bytes_to_write \in 0 .. MaxOffset
<1>1. TypeOK /\ call \in WriteCall /\ ~Removing
  BY CallKinds DEF IndInv, InTurn, Writing
<1>2. write_ptr < MaxOffset
  BY DEF InTurn, MoreToWrite, IndInv, CallInv
<1>3. call.fd \in Slots /\ call.inode \in InodeType /\ call.data \in Data /\ call.left \in Nat
  BY <1>1 DEF WriteCall
<1>4. bitmap = disk_bitmap
  BY <1>1 DEF IndInv, BitmapSaved, WriteCall
<1>5. IsOpen(call.fd) /\ file_descriptor_table[call.fd] \in FileType
  BY <1>1, <1>3 DEF IndInv, CallInv, TypeOK, InTurn
<1>6. inode_index \in Inodes /\ inode_index # ROOT /\ inode_arr[inode_index].link_count = 1
  BY <1>3, <1>5 DEF IndInv, FilesInv, InUse, IsOpen, inode_index, FileType
<1>7. write_ptr \in 0 .. MaxOffset
  BY <1>5 DEF write_ptr, FileType
<1>8. /\ block_num \in Nat /\ block_num < NUM_DATA_BLOCKS_PER_INODE + BLOCK_SIZE
      /\ block_index \in Offset /\ num_bytes_to_write \in Nat
      /\ call.left - num_bytes_to_write \in Nat
      /\ write_ptr + num_bytes_to_write \in 0 .. MaxOffset
  BY <1>2, <1>3, <1>7, WritePlace DEF block_num, block_index, num_bytes_to_write
<1>9. block_num \notin Direct => table_index \in Offset
  BY <1>8, Sizes DEF Direct, Offset, table_index
<1>10. table_id \in Blocks \cup {NULL}
  BY <1>3 DEF table_id, InodeType, PtrType
<1>11. QED
  BY <1>1, <1>2, <1>3, <1>4, <1>6, <1>8, <1>9, <1>10

(* Of names, files and open descriptors nothing changes. *)
Unseen ==
  /\ UNCHANGED dir_entry_arr
  /\ \A f \in Slots : file_descriptor_table'[f].inode_index = file_descriptor_table[f].inode_index
  /\ \A j \in Inodes : inode_arr'[j].link_count = inode_arr[j].link_count

(* What every step in the middle of a write does: the call goes on, and of *)
(* descriptors only a write_ptr moves, at the end of a turn.               *)
Turn ==
  /\ disk_blocks' \in BlocksType
  /\ file_descriptor_table' \in [Slots -> FileType]
  /\ \A f \in Slots :
       /\ file_descriptor_table'[f].inode_index = file_descriptor_table[f].inode_index
       /\ file_descriptor_table'[f].fname = file_descriptor_table[f].fname
       /\ file_descriptor_table'[f].read_ptr = file_descriptor_table[f].read_ptr
  /\ call' \in WriteCall /\ call'.fd = call.fd /\ call'.inode = call.inode
  /\ call'.step = "write" \/ UNCHANGED file_descriptor_table
  /\ UNCHANGED <<dir_entry_arr, disk_inodes>>

(* It puts no wild words into blocks that have none. *)
Harmless ==
  /\ \A b \in Blocks \ DirBlocks : \A o \in Offset : disk_blocks'[b][o].id \notin WildWord
  /\ call'.step \in {"new_table", "pointer", "table"} => table_id \in DirBlocks \cup {NULL}

LEMMA TurnKeeps ==
  ASSUME IndInv, InTurn, Turn, ContentsAreNoPointers /\ ContentsInv => Harmless,
         NEW j, j = inode_index, NEW k, NEW b, Gains(j, k, b),
         inode_arr' \in [Inodes -> InodeType],
         \A m \in Inodes \ {j} : inode_arr'[m] = inode_arr[m],
         inode_arr'[j].link_count = inode_arr[j].link_count,
         inode_arr'[j].file_end = inode_arr[j].file_end,
         inode_arr'[j].data_blocks[LastPointer].id = inode_arr[j].data_blocks[LastPointer].id,
         bitmap' = disk_bitmap', disk_bitmap' \in BitmapType
  PROVE  Kept /\ Unseen
<1>1. /\ Writing /\ ~Removing /\ call.fd \in Slots /\ write_ptr < MaxOffset
      /\ j \in Inodes /\ j # ROOT /\ inode_arr[j].link_count = 1
  BY WriteFacts DEF InTurn
<1>2. Writing' /\ ~Opening' /\ ~Removing' /\ call' # Idle
  BY DEF Turn, Writing, Opening, Removing, WriteCall, OpenCall, RemoveCall, Idle
<1>3. TypeOK'
  BY DEF IndInv, TypeOK, Turn
<1>4. CallInv'
  <2>1. IsOpen(call.fd)'
    BY <1>1 DEF IndInv, CallInv, IsOpen, Turn
  <2>2. call'.step # "write" => write_ptr' < MaxOffset
    BY <1>1 DEF Turn, write_ptr
  <2>3. QED
    BY <1>2, <2>1, <2>2 DEF CallInv, Turn
<1>5. inode_arr'[ROOT] = inode_arr[ROOT]
  BY <1>1, Sizes
<1>6. DirectoryInv'
  BY <1>5 DEF IndInv, DirectoryInv, Listed, Turn
<1>7. \A m \in Inodes : /\ inode_arr'[m].link_count = inode_arr[m].link_count
                        /\ inode_arr'[m].file_end = inode_arr[m].file_end
                        /\ inode_arr'[m].data_blocks[LastPointer].id
                             = inode_arr[m].data_blocks[LastPointer].id
  OBVIOUS
<1>8. \A f \in Slots : IsOpen(f)' <=> IsOpen(f)
  BY DEF IsOpen, Turn
<1>9. \A f \in Slots : IsOpen(f) => file_descriptor_table[f].inode_index \in Inodes
  BY DEF IsOpen, IndInv, TypeOK, FileType
<1>10. FilesInv'
  <2>1. \A m \in Inodes : inode_arr'[m].link_count = 0 => inode_arr'[m] = ZeroInode
    BY <1>1, <1>7 DEF IndInv, FilesInv
  <2>2. \A e \in Listed : dir_entry_arr[e].inode_index \in Inodes
    BY DEF Listed, IndInv, TypeOK, EntryType
  <2>3. QED
    BY <1>7, <1>8, <1>9, <2>1, <2>2 DEF IndInv, FilesInv, InUse, Listed, Turn
<1>11. OneDescriptorPerFile'
  BY <1>8 DEF IndInv, OneDescriptorPerFile, Turn
<1>12. ReadPtrInFile'
  BY <1>7, <1>8, <1>9 DEF IndInv, ReadPtrInFile, InodeOf, Turn
<1>13. UnsetInv'
  BY <1>1, <1>7 DEF IndInv, UnsetInv, Turn
<1>14. ContentsKept
  <2>1. DirBlocks' = DirBlocks
    BY <1>5 DEF DirBlocks
  <2>2. table_id' = table_id
    BY DEF table_id, Turn
  <2>3. QED
    BY <2>1, <2>2 DEF ContentsKept, ContentsInv, Harmless
<1>15. OwnersKept
  BY <1>1, <1>2, OwnerGains
<1>16. BitmapSaved' /\ SavedInv'
  BY <1>2 DEF BitmapSaved, SavedInv
<1>17. Unseen
  BY <1>7 DEF Unseen, Turn
<1>18. QED
  BY <1>3, <1>4, <1>6, <1>10, <1>11, <1>12, <1>13, <1>14, <1>15, <1>16, <1>17 DEF Kept, IndInv

(* Inode j gets block b at its pointer k, or nothing. *)
LEMMA PointerGains ==
  ASSUME TypeOK, UNCHANGED dir_entry_arr, NEW j \in Inodes, NEW k, NEW b,
         \A m \in Inodes \ {j} : inode_arr'[m] = inode_arr[m],
         \A x \in Direct :
           \/ inode_arr'[j].data_blocks[x].id = inode_arr[j].data_blocks[x].id
           \/ x = k /\ inode_arr'[j].data_blocks[x].id = b,
         \/ inode_arr'[j].singly_indirect_ptr.id = inode_arr[j].singly_indirect_ptr.id
         \/ k = NULL /\ inode_arr'[j].singly_indirect_ptr.id = b,
         b \in Blocks => bitmap[b] = 0 /\ bitmap'[b] = 1,
         \A c \in Blocks : bitmap[c] = 1 => bitmap'[c] = 1
  PROVE  Gains(j, k, b)
<1>1. Live' = Live /\ Live \subseteq Inodes
  BY Sizes DEF Live, Listed, TypeOK, EntryType
<1>2. ASSUME NEW m \in Live, NEW p \in Owned(m)'
      PROVE  p \in Owned(m) \/ (m = j /\ p = <<k, b>>)
  <2>1. p[2] \in Blocks \ {0}
        /\ \/ \E x \in Direct : p = <<x, inode_arr'[m].data_blocks[x].id>>
           \/ p = <<NULL, inode_arr'[m].singly_indirect_ptr.id>>
    BY DEF Owned, Pointers
  <2>2. \/ \E x \in Direct : p = <<x, inode_arr[m].data_blocks[x].id>>
        \/ p = <<NULL, inode_arr[m].singly_indirect_ptr.id>>
        \/ m = j /\ p = <<k, b>>
    BY <1>1, <2>1
  <2>3. QED
    BY <2>1, <2>2, OwnedIs
<1>3. QED
  BY <1>1, <1>2 DEF Gains

(* A step in the middle of a write that changes no inode. *)
LEMMA BlocksKeep ==
  ASSUME IndInv, InTurn, Turn, ContentsAreNoPointers /\ ContentsInv => Harmless,
         UNCHANGED inode_arr, bitmap' = disk_bitmap', disk_bitmap' \in BitmapType,
         \A c \in Blocks : bitmap[c] = 1 => bitmap'[c] = 1
  PROVE  Kept /\ Unseen
<1>1. PICK j : j = inode_index
  OBVIOUS
<1>2. TypeOK /\ inode_arr \in [Inodes -> InodeType] /\ j \in Inodes
  BY <1>1, WriteFacts DEF IndInv, TypeOK
<1>3. Gains(j, NULL, NULL)
  BY <1>2, Sizes, PointerGains DEF Turn
<1>4. QED
  BY <1>1, <1>2, <1>3, TurnKeeps

(* Only the call goes on, or ends early. *)
CallGoesOn == Break \/ \E to \in {"new_table", "pointer", "table", "data"}, b \in Int : GoOn(to, b)

LEMMA CallTurns ==
  ASSUME IndInv, InTurn, CallGoesOn,
         UNCHANGED <<dir_entry_arr, file_descriptor_table, disk_inodes, disk_blocks>>
  PROVE  /\ Turn
         /\ (call'.step \in {"new_table", "pointer", "table"} => table_id \in DirBlocks \cup {NULL})
              => (ContentsInv => Harmless)
<1>1. call \in WriteCall /\ disk_blocks \in BlocksType
      /\ file_descriptor_table \in [Slots -> FileType]
  BY WriteFacts DEF IndInv, TypeOK
<1>2. call' \in WriteCall /\ call'.fd = call.fd /\ call'.inode = call.inode
  BY <1>1, Sizes DEF CallGoesOn, Break, GoOn, WriteCall
<1>3. Turn
  BY <1>1, <1>2 DEF Turn
<1>4. QED
  BY <1>3 DEF ContentsInv, Harmless

(* alloc_block() in the middle of a write *)
LEMMA AllocateTurns ==
  ASSUME IndInv, InTurn, NEW b, b = FreeBlock(disk_bitmap),
         NEW to \in {"new_table", "pointer", "table", "data"}, NEW with \in Int,
         Allocate(b, to, with)
  PROVE  /\ Turn /\ b \in Blocks \cup {NULL}
         /\ b \in Blocks => bitmap[b] = 0 /\ bitmap'[b] = 1
         /\ \A c \in Blocks : bitmap[c] = 1 => bitmap'[c] = 1
         /\ bitmap' = disk_bitmap' /\ disk_bitmap' \in BitmapType
         /\ (to \in {"new_table", "pointer", "table"} => table_id \in DirBlocks \cup {NULL})
              => (ContentsInv => Harmless)
<1>1. bitmap = disk_bitmap /\ disk_bitmap \in BitmapType
  BY WriteFacts DEF IndInv, TypeOK
<1>2. /\ b \in Blocks \cup {NULL} /\ (b \in Blocks => bitmap[b] = 0 /\ bitmap'[b] = 1)
      /\ \A c \in Blocks : bitmap[c] = 1 => bitmap'[c] = 1
      /\ bitmap' = disk_bitmap' /\ disk_bitmap' \in BitmapType
  BY <1>1, Allocation, Sizes DEF Allocate
<1>3. CallGoesOn /\ UNCHANGED <<dir_entry_arr, file_descriptor_table, disk_inodes, disk_blocks>>
  BY DEF CallGoesOn, Allocate
<1>4. call'.step \in {"write", to}
  <2>1. call \in WriteCall
    BY WriteFacts
  <2>2. QED
    BY <2>1 DEF Allocate, Break, GoOn, WriteCall
<1>5. QED
  BY <1>2, <1>3, <1>4, CallTurns

LEMMA FWriteDirectKeeps == ASSUME IndInv, FWriteDirect PROVE Kept /\ Unseen
<1> DEFINE b == FreeBlock(disk_bitmap)
<1>1. TypeOK /\ inode_arr \in [Inodes -> InodeType]
  BY DEF IndInv, TypeOK
<1>2. InTurn /\ block_num \in Direct /\ call.inode.data_blocks[block_num].id = NULL
  BY <1>1, CallKinds DEF FWriteDirect, InDirect, MoreToWrite, InTurn
<1>3. Writing /\ inode_index \in Inodes
  BY <1>2, WriteFacts DEF InTurn
<1>4. PICK j : j = inode_index
  OBVIOUS
<1>5. inode_arr' = WithPointer(inode_arr, j, block_num, b) /\ Allocate(b, "data", NULL)
  BY <1>4 DEF FWriteDirect, WithPointer
<1>6. block_num # LastPointer
  BY <1>2, <1>3, Sizes DEF IndInv, UnsetInv
<1>7. PICK c : c = b
  OBVIOUS
<1> HIDE DEF b
<1>8. /\ Turn /\ c \in Blocks \cup {NULL} /\ (c \in Blocks => bitmap[c] = 0 /\ bitmap'[c] = 1)
      /\ \A d \in Blocks : bitmap[d] = 1 => bitmap'[d] = 1
      /\ bitmap' = disk_bitmap' /\ disk_bitmap' \in BitmapType
      /\ ContentsInv => Harmless
  BY <1>2, <1>5, <1>7, Sizes, AllocateTurns DEF b
<1>9. /\ inode_arr' \in [Inodes -> InodeType]
      /\ \A m \in Inodes \ {j} : inode_arr'[m] = inode_arr[m]
      /\ inode_arr'[j].link_count = inode_arr[j].link_count
      /\ inode_arr'[j].file_end = inode_arr[j].file_end
      /\ inode_arr'[j].singly_indirect_ptr = inode_arr[j].singly_indirect_ptr
      /\ \A x \in Direct : inode_arr'[j].data_blocks[x].id =
           IF x = block_num THEN c ELSE inode_arr[j].data_blocks[x].id
  BY <1>1, <1>2, <1>3, <1>4, <1>5, <1>7, <1>8, PointerSet
<1>10. inode_arr'[j].data_blocks[LastPointer].id = inode_arr[j].data_blocks[LastPointer].id
  BY <1>6, <1>9, Sizes
<1>11. Gains(j, block_num, c)
  BY <1>1, <1>3, <1>4, <1>8, <1>9, PointerGains DEF Turn
<1>12. QED
  BY <1>2, <1>4, <1>8, <1>9, <1>10, <1>11, TurnKeeps

LEMMA FWriteIndirectKeeps == ASSUME IndInv, FWriteIndirect PROVE Kept /\ Unseen
<1> DEFINE b == FreeBlock(disk_bitmap)
<1>1. TypeOK /\ inode_arr \in [Inodes -> InodeType]
  BY DEF IndInv, TypeOK
<1>2. InTurn /\ table_id = NULL
  BY <1>1, CallKinds DEF FWriteIndirect, InIndirect, MoreToWrite, InTurn
<1>3. inode_index \in Inodes
  BY <1>2, WriteFacts
<1>4. PICK j : j = inode_index
  OBVIOUS
<1>5. inode_arr' = WithTable(inode_arr, j, b) /\ Allocate(b, "new_table", NULL)
  BY <1>4 DEF FWriteIndirect, WithTable
<1>6. PICK c : c = b
  OBVIOUS
<1> HIDE DEF b
<1>7. /\ Turn /\ c \in Blocks \cup {NULL} /\ (c \in Blocks => bitmap[c] = 0 /\ bitmap'[c] = 1)
      /\ \A d \in Blocks : bitmap[d] = 1 => bitmap'[d] = 1
      /\ bitmap' = disk_bitmap' /\ disk_bitmap' \in BitmapType
      /\ ContentsInv => Harmless
  BY <1>2, <1>5, <1>6, Sizes, AllocateTurns DEF b
<1>8. /\ inode_arr' \in [Inodes -> InodeType]
      /\ \A m \in Inodes \ {j} : inode_arr'[m] = inode_arr[m]
      /\ inode_arr'[j].link_count = inode_arr[j].link_count
      /\ inode_arr'[j].file_end = inode_arr[j].file_end
      /\ inode_arr'[j].data_blocks = inode_arr[j].data_blocks
      /\ inode_arr'[j].singly_indirect_ptr.id = c
  BY <1>1, <1>3, <1>4, <1>5, <1>6, <1>7, IndirectSet
<1>9. Gains(j, NULL, c)
  BY <1>1, <1>3, <1>4, <1>7, <1>8, PointerGains DEF Turn
<1>10. QED
  BY <1>2, <1>4, <1>7, <1>8, <1>9, TurnKeeps

LEMMA FWriteNewTableKeeps == ASSUME IndInv, FWriteNewTable PROVE Kept /\ Unseen
<1>1. InTurn /\ call.step = "new_table"
  BY CallKinds DEF IndInv, FWriteNewTable, InTurn
<1>2. call \in WriteCall /\ bitmap = disk_bitmap /\ TypeOK
  BY <1>1, WriteFacts DEF IndInv
<1>3. /\ call' = [call EXCEPT !.step = "pointer", !.over = TRUE]
      /\ UNCHANGED <<inode_arr, dir_entry_arr, file_descriptor_table, bitmap, disk_inodes,
                     disk_blocks, disk_bitmap>>
  BY DEF FWriteNewTable, disk
<1>4. call' \in WriteCall /\ call'.fd = call.fd /\ call'.inode = call.inode
  BY <1>2, <1>3 DEF WriteCall
<1>5. Turn
  BY <1>2, <1>3, <1>4 DEF Turn, TypeOK
<1>6. ContentsInv => Harmless
  BY <1>1, <1>3 DEF ContentsInv, Harmless, InTurn
<1>7. QED
  BY <1>1, <1>2, <1>3, <1>5, <1>6, BlocksKeep DEF TypeOK

LEMMA FWritePointerKeeps == ASSUME IndInv, FWritePointer PROVE Kept /\ Unseen
<1>1. /\ UNCHANGED inode_arr /\ Allocate(FreeBlock(disk_bitmap), "table", FreeBlock(disk_bitmap))
      /\ \/ call.step = "pointer"
         \/ InIndirect /\ table_id # NULL /\ disk_blocks[table_id][table_index].id = NULL
  BY DEF FWritePointer
<1>2. InTurn
  BY <1>1, CallKinds DEF IndInv, InTurn, InIndirect, MoreToWrite
<1>3. ContentsInv => table_id \in DirBlocks \cup {NULL}
  <2>1. CASE call.step = "pointer"
    BY <1>2, <2>1 DEF ContentsInv, InTurn
  <2>2. CASE InIndirect /\ table_id # NULL /\ disk_blocks[table_id][table_index].id = NULL
    <3>1. table_id \in Blocks /\ table_index \in Offset
      BY <1>2, <2>2, WriteFacts DEF InIndirect
    <3>2. QED
      BY <2>2, <3>1 DEF ContentsInv, WildWord
  <2>3. QED
    BY <1>1, <2>1, <2>2
<1>4. PICK b : b = FreeBlock(disk_bitmap)
  OBVIOUS
<1>5. b \in Int
  <2>1. disk_bitmap \in BitmapType
    BY DEF IndInv, TypeOK
  <2>2. QED
    BY <1>4, <2>1, Allocation, IdsAreNumbers
<1>6. /\ Turn /\ (ContentsInv => Harmless)
      /\ bitmap' = disk_bitmap' /\ disk_bitmap' \in BitmapType
      /\ \A c \in Blocks : bitmap[c] = 1 => bitmap'[c] = 1
  BY <1>1, <1>2, <1>3, <1>4, <1>5, AllocateTurns
<1>7. QED
  BY <1>1, <1>2, <1>6, BlocksKeep

(* The pointer in the table gets another block_end, and if it is new its   *)
(* block; only a block with wild words gets a new one.                     *)
LEMMA FWriteTableKeeps == ASSUME IndInv, FWriteTable PROVE Kept /\ Unseen
<1>1. UNCHANGED <<inode_arr, dir_entry_arr, file_descriptor_table, bitmap,
                  disk_inodes, disk_bitmap>>
  BY DEF FWriteTable
<1>2. PICK b : /\ WriteTable(b)
               /\ \/ call.step = "table" /\ b = call.block
                  \/ InIndirect /\ table_id # NULL /\ b = disk_blocks[table_id][table_index].id
  BY DEF FWriteTable
<1>3. InTurn
  BY <1>2, CallKinds DEF IndInv, InTurn, InIndirect, MoreToWrite
<1>4. /\ call \in WriteCall /\ bitmap = disk_bitmap /\ TypeOK
      /\ table_id \in Blocks \cup {NULL} /\ block_index \in Offset /\ num_bytes_to_write \in Nat
      /\ InIndirect => table_index \in Offset
  BY <1>3, WriteFacts DEF IndInv, InIndirect
<1> DEFINE new == [disk_blocks EXCEPT ![table_id][table_index] =
                     Word(b, Max({block_index + num_bytes_to_write, @.end}))]
<1>5. /\ call' = [call EXCEPT !.step = "data", !.block = b, !.over = @ \/ table_id = NULL]
      /\ disk_blocks' = IF table_id = NULL THEN disk_blocks ELSE new
  BY <1>2 DEF WriteTable
<1>6. b \in Int
  <2>1. CASE call.step = "table" /\ b = call.block
    BY <1>4, <2>1 DEF WriteCall
  <2>2. CASE InIndirect /\ table_id # NULL /\ b = disk_blocks[table_id][table_index].id
    BY <1>4, <2>2 DEF TypeOK, BlocksType, WordType
  <2>3. QED
    BY <1>2, <2>1, <2>2
<1>7. call' \in WriteCall /\ call'.fd = call.fd /\ call'.inode = call.inode /\ call'.step = "data"
  BY <1>4, <1>5, <1>6 DEF WriteCall
<1>8. ASSUME table_id # NULL
      PROVE  /\ new \in BlocksType
             /\ \A c \in Blocks \ {table_id} : new[c] = disk_blocks[c]
             /\ \A o \in Offset : \/ new[table_id][o] = disk_blocks[table_id][o]
                                  \/ new[table_id][o].id = b /\ o = table_index
  <2> DEFINE s == table_id
             w == Word(b, Max({block_index + num_bytes_to_write, disk_blocks[s][table_index].end}))
             row == [disk_blocks[s] EXCEPT ![table_index] = w]
  <2>1. s \in Blocks /\ disk_blocks[s] \in [Offset -> WordType] /\ disk_blocks \in BlocksType
    BY <1>4, <1>8 DEF TypeOK, BlocksType
  <2>2. new = [disk_blocks EXCEPT ![s] = row]
    OBVIOUS
  <2>3. ASSUME table_index \in Offset PROVE w \in WordType /\ w.id = b
    <3> DEFINE end == Max({block_index + num_bytes_to_write, disk_blocks[s][table_index].end})
    <3>1. end \in Nat
      <4>1. block_index + num_bytes_to_write \in Nat /\ disk_blocks[s][table_index].end \in Nat
        BY <1>4, <2>1, <2>3, Sizes DEF WordType
      <4>2. QED
        BY <4>1, MaxOfTwo
    <3>2. w = Word(b, end)
      OBVIOUS
    <3> HIDE DEF end, w
    <3>3. QED
      BY <1>6, <3>1, <3>2 DEF Word, WordType
  <2> HIDE DEF w
  <2>4. row \in [Offset -> WordType] /\ \A o \in Offset : \/ row[o] = disk_blocks[s][o]
                                                          \/ row[o].id = b /\ o = table_index
    BY <2>1, <2>3
  <2> HIDE DEF row, s, new
  <2>5. /\ new \in BlocksType /\ new[s] = row
        /\ \A c \in Blocks \ {s} : new[c] = disk_blocks[c]
    BY <2>1, <2>2, <2>4 DEF BlocksType
  <2>6. QED
    BY <2>4, <2>5 DEF s
<1> HIDE DEF new
<1>9. Turn
  BY <1>1, <1>4, <1>5, <1>7, <1>8 DEF Turn, TypeOK
<1>10. ASSUME ContentsInv PROVE Harmless
  <2> SUFFICES ASSUME NEW c \in Blocks \ DirBlocks, NEW o \in Offset
               PROVE  disk_blocks'[c][o].id \notin WildWord
    BY <1>7 DEF Harmless
  <2>1. disk_blocks[c][o].id \notin WildWord
    BY <1>10 DEF ContentsInv
  <2>2. CASE disk_blocks'[c][o] = disk_blocks[c][o]
    BY <2>1, <2>2
  <2>3. CASE disk_blocks'[c][o] # disk_blocks[c][o]
    <3>1. c = table_id /\ table_id # NULL /\ o = table_index /\ disk_blocks'[c][o].id = b
      BY <1>5, <1>8, <2>3
    <3>2. call.step # "table"
      BY <1>3, <1>10, <3>1 DEF ContentsInv, InTurn
    <3>3. QED
      BY <1>2, <2>1, <3>1, <3>2
  <2>4. QED
    BY <2>2, <2>3
<1>11. QED
  BY <1>1, <1>3, <1>4, <1>9, <1>10, BlocksKeep DEF TypeOK

LEMMA FWriteDataKeeps == ASSUME IndInv, FWriteData PROVE Kept /\ Unseen
<1>1. UNCHANGED <<inode_arr, dir_entry_arr, bitmap, disk_inodes, disk_bitmap>>
  BY DEF FWriteData
<1>2. PICK b : Transfer(b) /\ (call.step = "data" \/ InDirect)
  BY DEF FWriteData
<1>3. InTurn
  BY <1>2, CallKinds DEF IndInv, InTurn, InDirect, MoreToWrite
<1> DEFINE n == num_bytes_to_write
           f == call.fd
           moved == [file_descriptor_table[f] EXCEPT !.write_ptr = @ + n]
           filled == [o \in Offset |-> IF o \in block_index .. block_index + n - 1
                                         THEN Word(call.data, 0) ELSE disk_blocks[b][o]]
<1>4. /\ call \in WriteCall /\ bitmap = disk_bitmap /\ TypeOK
      /\ f \in Slots /\ n \in Nat /\ call.data \in Data /\ call.left - n \in Nat
      /\ file_descriptor_table[f].write_ptr + n \in 0 .. MaxOffset
  BY <1>3, WriteFacts DEF IndInv, write_ptr
<1>5. CASE ~OnDisk(b)
  <2>1. CallGoesOn /\ UNCHANGED <<disk_blocks, file_descriptor_table>> /\ call'.step = "write"
    BY <1>2, <1>4, <1>5 DEF Transfer, CallGoesOn, Break, WriteCall
  <2>2. Turn /\ (ContentsInv => Harmless)
    BY <1>1, <1>3, <2>1, CallTurns
  <2>3. QED
    BY <1>1, <1>3, <1>4, <2>2, BlocksKeep DEF TypeOK
<1>6. CASE OnDisk(b)
  <2>1. /\ disk_blocks' = IF b = NULL THEN disk_blocks ELSE [disk_blocks EXCEPT ![b] = filled]
        /\ file_descriptor_table' = [file_descriptor_table EXCEPT ![f] = moved]
        /\ call' = [call EXCEPT !.step = "write", !.left = call.left - n,
                                !.block = NULL, !.over = @ \/ b = NULL]
    BY <1>2, <1>6 DEF Transfer
  <2>2. /\ moved \in FileType
        /\ moved.inode_index = file_descriptor_table[f].inode_index
        /\ moved.fname = file_descriptor_table[f].fname
        /\ moved.read_ptr = file_descriptor_table[f].read_ptr
    BY <1>4 DEF TypeOK, FileType
  <2> HIDE DEF moved
  <2>3. /\ file_descriptor_table' \in [Slots -> FileType]
        /\ \A g \in Slots :
             /\ file_descriptor_table'[g].inode_index = file_descriptor_table[g].inode_index
             /\ file_descriptor_table'[g].fname = file_descriptor_table[g].fname
             /\ file_descriptor_table'[g].read_ptr = file_descriptor_table[g].read_ptr
    BY <1>4, <2>1, <2>2 DEF TypeOK
  <2>4. call' \in WriteCall /\ call'.fd = call.fd /\ call'.inode = call.inode
        /\ call'.step = "write"
    BY <1>4, <2>1, Sizes DEF WriteCall
  <2>5. Word(call.data, 0) \in WordType /\ Word(call.data, 0).id \in Data
    <3>1. call.data \in Nat
      BY <1>4, ClientsAssumption
    <3>2. QED
      BY <1>4, <3>1 DEF Word, WordType
  <2>6. ASSUME b # NULL
        PROVE  /\ b \in Blocks /\ filled \in [Offset -> WordType]
               /\ \A o \in Offset : filled[o].id = disk_blocks[b][o].id \/ filled[o].id \in Data
    <3>1. b \in Blocks
      BY <1>6, <2>6 DEF OnDisk
    <3>2. disk_blocks[b] \in [Offset -> WordType]
      BY <1>4, <3>1 DEF TypeOK, BlocksType
    <3> HIDE DEF n
    <3>3. QED
      BY <2>5, <3>1, <3>2
  <2> HIDE DEF filled
  <2>7. /\ disk_blocks' \in BlocksType
        /\ \A c \in Blocks, o \in Offset :
             disk_blocks'[c][o].id = disk_blocks[c][o].id \/ disk_blocks'[c][o].id \in Data
    BY <1>4, <2>1, <2>6 DEF TypeOK, BlocksType
  <2>8. Turn
    BY <1>1, <2>3, <2>4, <2>7 DEF Turn
  <2>9. ASSUME ContentsAreNoPointers, ContentsInv PROVE Harmless
    <3>1. \A d \in Data : d \notin WildWord
      BY <2>9, ClientsAssumption, Sizes DEF ContentsAreNoPointers, WildWord
    <3>2. QED
      BY <2>4, <2>7, <2>9, <3>1 DEF ContentsInv, Harmless
  <2>10. QED
    BY <1>1, <1>3, <1>4, <2>8, <2>9, BlocksKeep DEF TypeOK
<1>7. QED
  BY <1>5, <1>6

LEMMA FWriteEndKeeps == ASSUME IndInv, FWriteEnd PROVE Kept /\ Unseen
<1> DEFINE old == inode_arr[inode_index]
           size == get_new_file_size(old)
           end == Max({write_ptr, old.file_end})
           ended == [old EXCEPT !.file_size = size, !.file_end = end]
<1>1. TypeOK /\ inode_arr \in [Inodes -> InodeType] /\ call.step = "write"
  BY DEF IndInv, TypeOK, FWriteEnd
<1>2. /\ inode_arr' = [inode_arr EXCEPT ![inode_index] = ended]
      /\ disk_inodes' = inode_arr' /\ call' = Idle
      /\ UNCHANGED <<dir_entry_arr, file_descriptor_table, bitmap, disk_blocks, disk_bitmap>>
  BY DEF FWriteEnd
<1>3. Writing /\ ~Removing /\ bitmap = disk_bitmap
  BY <1>1, CallKinds DEF IndInv, BitmapSaved
<1>4. ~Writing' /\ ~Opening' /\ ~Removing'
  BY <1>2 DEF Writing, Opening, Removing, WriteCall, OpenCall, RemoveCall, Idle
<1>5. /\ IsOpen(call.fd) /\ call.fd \in Slots /\ file_descriptor_table[call.fd] \in FileType
      /\ write_ptr \in 0 .. MaxOffset
  BY <1>1, <1>3 DEF IndInv, CallInv, TypeOK, Writing, WriteCall, write_ptr, FileType
<1>6. inode_index \in Inodes /\ inode_index # ROOT /\ inode_arr[inode_index].link_count = 1
  BY <1>5 DEF IndInv, FilesInv, InUse, IsOpen, inode_index, FileType
<1>7. PICK j : j = inode_index
  OBVIOUS
<1>8. size \in Nat
  BY <1>1, <1>6, SizeIsNat
<1>9. end \in 0 .. MaxOffset /\ old.file_end <= end
  <2>1. old.file_end \in 0 .. MaxOffset
    BY <1>1, <1>6 DEF InodeType
  <2>2. QED
    BY <1>5, <2>1, MaxOfTwo, Sizes
<1> HIDE DEF size, end
<1>10. /\ ended \in InodeType /\ ended.link_count = old.link_count /\ ended.file_end = end
       /\ ended.data_blocks = old.data_blocks
       /\ ended.singly_indirect_ptr = old.singly_indirect_ptr
  BY <1>1, <1>6, <1>8, <1>9 DEF InodeType
<1> HIDE DEF ended
<1>11. /\ inode_arr' \in [Inodes -> InodeType]
       /\ \A m \in Inodes \ {j} : inode_arr'[m] = inode_arr[m]
       /\ inode_arr'[j].link_count = 1 /\ inode_arr[j].link_count = 1
       /\ inode_arr[j].file_end <= inode_arr'[j].file_end
       /\ inode_arr'[j].data_blocks = inode_arr[j].data_blocks
       /\ inode_arr'[j].singly_indirect_ptr = inode_arr[j].singly_indirect_ptr
       /\ j \in Inodes /\ j # ROOT
  BY <1>1, <1>2, <1>6, <1>7, <1>9, <1>10
<1>12. TypeOK'
  BY <1>1, <1>2, <1>11 DEF TypeOK
<1>13. CallInv' /\ SavedInv' /\ BitmapSaved'
  BY <1>2, <1>3, <1>4 DEF CallInv, SavedInv, BitmapSaved
<1>14. inode_arr'[ROOT] = inode_arr[ROOT]
  BY <1>11, Sizes
<1>15. DirectoryInv' /\ ContentsKept
  BY <1>2, <1>4, <1>14
  DEF IndInv, DirectoryInv, Listed, ContentsKept, ContentsInv, DirBlocks
<1>16. FilesInv'
  <2>1. \A m \in Inodes : inode_arr'[m].link_count = 0 => inode_arr'[m] = ZeroInode
    BY <1>11 DEF IndInv, FilesInv
  <2>2. \A m \in Inodes : inode_arr'[m].link_count = inode_arr[m].link_count
    BY <1>11
  <2>3. /\ \A e \in Listed : dir_entry_arr[e].inode_index \in Inodes
        /\ \A f \in Slots : IsOpen(f) => file_descriptor_table[f].inode_index \in Inodes
    BY <1>1 DEF Listed, IsOpen, TypeOK, EntryType, FileType
  <2>4. QED
    BY <1>2, <2>1, <2>2, <2>3 DEF IndInv, FilesInv, InUse, Listed, IsOpen
<1>17. OneDescriptorPerFile'
  BY <1>2 DEF IndInv, OneDescriptorPerFile, IsOpen
<1>18. ReadPtrInFile'
  <2> SUFFICES ASSUME NEW f \in Slots, IsOpen(f)
               PROVE  file_descriptor_table[f].read_ptr
                        <= inode_arr'[file_descriptor_table[f].inode_index].file_end
    BY <1>2 DEF ReadPtrInFile, IsOpen, InodeOf
  <2> DEFINE i == file_descriptor_table[f].inode_index
  <2>1. i \in Inodes /\ file_descriptor_table[f].read_ptr \in Nat
        /\ file_descriptor_table[f].read_ptr <= inode_arr[i].file_end
    BY <1>1 DEF IndInv, ReadPtrInFile, InodeOf, IsOpen, TypeOK, FileType
  <2>2. inode_arr[i].file_end \in Nat /\ inode_arr'[i].file_end \in Nat
    <3>1. \A inode \in InodeType : inode.file_end \in Nat
      BY Sizes DEF InodeType
    <3>2. QED
      BY <1>1, <1>11, <2>1, <3>1
  <2>3. inode_arr[i].file_end <= inode_arr'[i].file_end
    BY <1>11, <2>1, <2>2
  <2>4. QED
    BY <2>1, <2>2, <2>3
<1>19. UnsetInv'
  BY <1>4, <1>11 DEF IndInv, UnsetInv
<1>20. OwnersKept
  <2>1. Gains(j, NULL, NULL)
    BY <1>1, <1>2, <1>11, Sizes, PointerGains
  <2>2. QED
    BY <1>3, <1>4, <2>1, OwnerGains
<1>21. Unseen
  BY <1>2, <1>11 DEF Unseen
<1>22. QED
  BY <1>12, <1>13, <1>15, <1>16, <1>17, <1>18, <1>19, <1>20, <1>21 DEF Kept, IndInv

-----------------------------------------------------------------------------
(* Removing a file *)

(* What a file's table of pointers names, once the blocks that its direct  *)
(* pointers name are cleared: nothing, or block 0.  One direct pointer     *)
(* names block 0 itself; any other block of the file is not the            *)
(* directory's, and has no words that name a block, if contents are none.  *)
LEMMA TableIsHarmless ==
  ASSUME IndInv, OneOwner, ContentsInv, NEW j \in Live \ {ROOT}, NEW blocks1,
         blocks1 = Cleared(disk_blocks, Ids(inode_arr[j].data_blocks)),
         inode_arr[j].singly_indirect_ptr.id # NULL
  PROVE  Ids(blocks1[inode_arr[j].singly_indirect_ptr.id]) \subseteq {0}
<1> DEFINE s == inode_arr[j].singly_indirect_ptr.id
           cleared == Ids(inode_arr[j].data_blocks)
<1>1. TypeOK /\ j \in Inodes /\ ROOT \in Live
  BY Sizes DEF IndInv, TypeOK, Live, Listed, EntryType
<1>2. s \in Blocks
  BY <1>1 DEF TypeOK, InodeType, PtrType
<1>3. inode_arr[j].data_blocks \in [Direct -> PtrType]
  BY <1>1 DEF TypeOK, InodeType
<1>4. 0 \in cleared
  <2>1. inode_arr[j].data_blocks[LastPointer].id = 0
    BY <1>1 DEF IndInv, UnsetInv
  <2>2. QED
    BY <1>3, <2>1, Sizes DEF Ids
<1>5. \A o \in Offset : blocks1[s][o].id \notin Blocks \ {0}
  <2>1. CASE s \in cleared
    BY <1>2, <2>1 DEF Cleared, Zero, Word
  <2>2. CASE s \notin cleared
    <3>1. s # 0 /\ blocks1[s] = disk_blocks[s]
      BY <1>2, <1>4, <2>2 DEF Cleared
    <3>2. <<NULL, s>> \in Owned(j)
      BY <1>2, <3>1, OwnedIs
    <3>3. ASSUME NEW k \in Direct, inode_arr[ROOT].data_blocks[k].id = s PROVE FALSE
      <4>1. <<k, s>> \in Owned(ROOT)
        BY <1>2, <3>1, <3>3, OwnedIs
      <4>2. QED
        BY <1>1, <3>2, <4>1 DEF OneOwner
    <3>4. s \notin DirBlocks
      BY <3>1, <3>3 DEF DirBlocks
    <3>5. QED
      BY <1>2, <3>1, <3>4 DEF ContentsInv, WildWord
  <2>3. QED
    BY <2>1, <2>2
<1>6. DOMAIN blocks1[s] = Offset
  BY <1>1, <1>2 DEF TypeOK, BlocksType, Cleared
<1> HIDE DEF s
<1>7. Ids(blocks1[s]) \subseteq {0}
  BY <1>5, <1>6 DEF Ids
<1>8. QED
  BY <1>7 DEF s

(* The file of entry e is removed, up to the first save: the blocks its     *)
(* direct pointers name are cleared, then those its table names.           *)
DirectIds(j)     == Ids(inode_arr[j].data_blocks)
DirectCleared(j) == Cleared(disk_blocks, DirectIds(j))
TableIds(j)      == LET s == inode_arr[j].singly_indirect_ptr.id
                    IN  IF s = NULL THEN {} ELSE Ids(DirectCleared(j)[s])
Removal(e, j) ==
  /\ e \in Slots /\ e \in Listed /\ j = dir_entry_arr[e].inode_index
  /\ j \in Live \ {ROOT} /\ j \in Inodes
  /\ disk_blocks' = Cleared(DirectCleared(j), TableIds(j))
  /\ bitmap' = [b \in Blocks |-> IF b \in DirectIds(j) \cup TableIds(j) THEN 0 ELSE bitmap[b]]
  /\ call' \in RemoveCall /\ call'.step = "save_bitmap" /\ call'.op = "remove"
  /\ call'.entry = e

LEMMA FRemoveDoes ==
  ASSUME IndInv, NEW n \in Names, FRemove(n)
  PROVE  \E e, j : Removal(e, j)
<1> DEFINE e == find_dir_index_by_fname(n)
           j == dir_entry_arr[e].inode_index
<1>1. /\ TypeOK /\ e # NULL
      /\ call' = [step |-> "save_bitmap", op |-> "remove", entry |-> e]
  BY DEF IndInv, FRemove
<1>2. e \in Slots /\ e \in Listed
  <2>1. e \in Slots /\ dir_entry_arr[e].fname = n /\ n # 0
    BY <1>1, DirIndex, ClientsAssumption
  <2>2. QED
    BY <2>1 DEF IndInv, DirectoryInv
<1>3. call' \in RemoveCall /\ call'.step = "save_bitmap" /\ call'.op = "remove" /\ call'.entry = e
  BY <1>1, <1>2 DEF RemoveCall
<1>4. j \in Live \ {ROOT} /\ j \in Inodes
  <2>1. j \in Live /\ j \in Inodes /\ InUse(j)
    BY <1>1, <1>2 DEF Live, Listed, TypeOK, EntryType, IndInv, FilesInv
  <2>2. QED
    BY <2>1 DEF InUse
<1>5. /\ disk_blocks' = Cleared(DirectCleared(j), TableIds(j))
      /\ bitmap' = [b \in Blocks |-> IF b \in DirectIds(j) \cup TableIds(j) THEN 0 ELSE bitmap[b]]
  BY DEF FRemove, DirectCleared, TableIds, DirectIds
<1> HIDE DEF e
<1>6. Removal(e, j)
  BY <1>2, <1>3, <1>4, <1>5 DEF Removal
<1>7. QED
  BY <1>6

LEMMA FRemoveKeeps == ASSUME IndInv, NEW n \in Names, FRemove(n) PROVE Kept
<1>1. TypeOK /\ call = Idle
      /\ UNCHANGED <<inode_arr, dir_entry_arr, file_descriptor_table, disk_inodes, disk_bitmap>>
  BY DEF IndInv, FRemove
<1>2. PICK e, j : Removal(e, j)
  BY FRemoveDoes
<1>3. Removing' /\ ~Opening' /\ ~Writing' /\ call' # Idle /\ ~Removing
  BY <1>1, <1>2 DEF Removal, Removing, Opening, Writing, RemoveCall, OpenCall, WriteCall, Idle
<1>4. \A b \in Blocks : \A o \in Offset :
         disk_blocks'[b][o] = disk_blocks[b][o] \/ disk_blocks'[b][o] = Zero
  BY <1>2 DEF Removal, DirectCleared, Cleared
<1>5. TypeOK'
  <2>1. [o \in Offset |-> Zero] \in [Offset -> WordType]
    BY DEF Zero, Word, WordType
  <2>2. disk_blocks' \in BlocksType
    BY <1>1, <1>2, <2>1 DEF Removal, DirectCleared, TypeOK, BlocksType, Cleared
  <2>3. bitmap' \in BitmapType
    BY <1>1, <1>2 DEF Removal, TypeOK, BitmapType
  <2>4. QED
    BY <1>1, <1>2, <2>2, <2>3 DEF Removal, TypeOK
<1>6. CallInv'
  BY <1>1, <1>2, <1>3 DEF Removal, CallInv, Listed
<1>7. DirectoryInv' /\ FilesInv' /\ OneDescriptorPerFile' /\ ReadPtrInFile'
  BY <1>1 DEF IndInv, DirectoryInv, FilesInv, OneDescriptorPerFile, ReadPtrInFile, InUse,
              Listed, IsOpen, InodeOf
<1>8. UnsetInv' /\ BitmapSaved' /\ SavedInv'
  BY <1>1, <1>2, <1>3 DEF Removal, IndInv, UnsetInv, BitmapSaved, SavedInv
<1>9. ContentsKept
  <2>1. Zero.id \notin WildWord
    BY Sizes DEF Zero, Word, WildWord
  <2>2. QED
    BY <1>1, <1>3, <1>4, <2>1 DEF ContentsKept, ContentsInv, DirBlocks
<1>10. OwnersKept
  <2>1. SUFFICES ASSUME OneOwner, MarkedInv, ReleasesItsOwn PROVE OneOwner' /\ MarkedInv'
    BY DEF OwnersKept, OwnersInv
  <2>2. Live' = Live /\ \A m : Owned(m)' = Owned(m)
    BY <1>1 DEF Live, Listed, Owned, Pointers
  <2>3. OneOwner'
    BY <2>1, <2>2 DEF OneOwner
  <2>4. \A m \in Live : \A p \in Owned(m) : bitmap[p[2]] = 1
    BY <1>3, <2>1 DEF MarkedInv, BeingRemoved
  <2>5. MarkedInv'
    BY <2>1, <2>2, <2>4 DEF MarkedInv, ReleasesItsOwn
  <2>6. QED
    BY <2>3, <2>5
<1>11. QED
  BY <1>5, <1>6, <1>7, <1>8, <1>9, <1>10 DEF Kept, IndInv

LEMMA FRemoveEntryKeeps == ASSUME IndInv, FRemoveEntry PROVE Kept
<1> DEFINE e == call.entry
           j == dir_entry_arr[e].inode_index
<1>1. TypeOK /\ call \in RemoveCall /\ call.step = "save_bitmap"
  BY CallKinds DEF IndInv, FRemoveEntry, OpenCall
<1>2. /\ disk_bitmap' = bitmap /\ dir_entry_arr' = [dir_entry_arr EXCEPT ![e] = NoEntry]
      /\ call' = [call EXCEPT !.step = "save_dir"]
      /\ UNCHANGED <<inode_arr, file_descriptor_table, bitmap, disk_inodes, disk_blocks>>
  BY DEF FRemoveEntry
<1>3. Removing /\ e \in Listed /\ e \in Slots
  BY <1>1 DEF Removing, IndInv, CallInv, RemoveCall
<1>4. call' \in RemoveCall /\ call'.step = "save_dir"
  BY <1>1, <1>2 DEF RemoveCall
<1>5. ~Removing' /\ ~Opening' /\ ~Writing' /\ call' # Idle
  BY <1>4 DEF Removing, Opening, Writing, RemoveCall, OpenCall, WriteCall, Idle
<1>6. /\ dir_entry_arr' \in [Slots -> EntryType]
      /\ dir_entry_arr'[e].inode_index = NULL /\ dir_entry_arr'[e].fname = 0
      /\ \A x \in Slots \ {e} : dir_entry_arr'[x] = dir_entry_arr[x]
  <2>1. NoEntry \in EntryType /\ NoEntry.inode_index = NULL /\ NoEntry.fname = 0
    BY DEF NoEntry, EntryType
  <2>2. QED
    BY <1>1, <1>2, <1>3, <2>1 DEF TypeOK
<1> HIDE DEF e
<1>7. Listed' = Listed \ {e} /\ \A x \in Listed \ {e} : dir_entry_arr'[x] = dir_entry_arr[x]
  BY <1>6 DEF Listed
<1>8. Live' \subseteq Live \ BeingRemoved
  <2>1. BeingRemoved = {j} /\ j # ROOT
    BY <1>3 DEF BeingRemoved, e, IndInv, FilesInv, InUse
  <2>2. \A x \in Listed \ {e} : dir_entry_arr[x].inode_index # j
    BY <1>3 DEF IndInv, DirectoryInv
  <2>3. QED
    BY <1>7, <2>1, <2>2 DEF Live
<1>9. TypeOK'
  BY <1>1, <1>2, <1>4, <1>6 DEF TypeOK
<1>10. CallInv' /\ UnsetInv' /\ BitmapSaved' /\ SavedInv'
  BY <1>2, <1>5 DEF IndInv, CallInv, UnsetInv, BitmapSaved, SavedInv
<1>11. DirectoryInv'
  BY <1>2, <1>6, <1>7 DEF IndInv, DirectoryInv
<1>12. FilesInv' /\ OneDescriptorPerFile' /\ ReadPtrInFile'
  BY <1>2, <1>7 DEF IndInv, FilesInv, OneDescriptorPerFile, ReadPtrInFile, InUse, IsOpen, InodeOf
<1>13. ContentsKept
  BY <1>2, <1>5 DEF ContentsKept, ContentsInv, DirBlocks
<1>14. \A m : Owned(m)' = Owned(m)
  BY <1>2 DEF Owned, Pointers
<1>15. OwnersKept
  BY <1>2, <1>5, <1>8, <1>14 DEF OwnersKept, OwnersInv, OneOwner, MarkedInv, BeingRemoved
<1>16. QED
  BY <1>9, <1>10, <1>11, <1>12, <1>13, <1>15 DEF Kept, IndInv

-----------------------------------------------------------------------------
(* The invariant, and what follows from it *)

LEMMA StepKeeps == ASSUME IndInv, [Next]_vars PROVE Kept
<1>1. CASE Open
  BY <1>1, FOpenExistingKeeps, FOpenNewKeeps, FOpenEndKeeps DEF Open
<1>2. CASE Save
  BY <1>2, SaveDirKeeps, SaveInodeKeeps DEF Save
<1>3. CASE Use
  BY <1>3, UseKeeps
<1>4. CASE Write
  BY <1>4, FWriteKeeps, FWriteDirectKeeps, FWriteIndirectKeeps, FWriteNewTableKeeps,
     FWritePointerKeeps, FWriteTableKeeps, FWriteDataKeeps, FWriteEndKeeps DEF Write
<1>5. CASE Remove
  BY <1>5, FRemoveKeeps, FRemoveEntryKeeps DEF Remove
<1>6. CASE UNCHANGED vars
  <2>1. UNCHANGED <<inode_arr, dir_entry_arr, file_descriptor_table, bitmap, disk_inodes,
                    disk_blocks, disk_bitmap, call>>
    BY <1>6 DEF vars, disk
  <2>2. TypeOK' /\ CallInv' /\ DirectoryInv' /\ FilesInv'
    BY <2>1 DEF IndInv, TypeOK, CallInv, DirectoryInv, FilesInv, InUse, Listed, IsOpen,
                Opening, Removing, Writing, write_ptr
  <2>3. OneDescriptorPerFile' /\ ReadPtrInFile' /\ UnsetInv' /\ BitmapSaved' /\ SavedInv'
    BY <2>1 DEF IndInv, OneDescriptorPerFile, ReadPtrInFile, UnsetInv, BitmapSaved, SavedInv,
                IsOpen, InodeOf, Writing, Opening, Live, Listed
  <2>4. ContentsKept
    BY <2>1 DEF ContentsKept, ContentsInv, DirBlocks, Writing, table_id
  <2>5. OwnersKept
    BY <2>1 DEF OwnersKept, OwnersInv, OneOwner, MarkedInv, BeingRemoved, Live, Listed,
                Owned, Pointers, Removing
  <2>6. QED
    BY <2>2, <2>3, <2>4, <2>5 DEF Kept, IndInv
<1>7. QED
  BY <1>1, <1>2, <1>3, <1>4, <1>5, <1>6 DEF Next

(* What holds in every state, whatever the sizes of the disk, the blocks    *)
(* and the tables and whatever is written: after mksfs(1), any sequence of  *)
(* calls of sfs_api.c.                                                      *)
THEOREM Invariance == Spec => []IndInv
<1>1. Init => IndInv
  BY InitEstablishes
<1>2. IndInv /\ [Next]_vars => IndInv'
  BY StepKeeps DEF Kept
<1>3. QED
  BY <1>1, <1>2, PTL DEF Spec

(* Every variable keeps its type: pointers of inodes stay on the disk, also *)
(* when it is full.                                                         *)
THEOREM TypeCorrect == Spec => []TypeOK
<1>1. IndInv => TypeOK
  BY DEF IndInv
<1>2. QED
  BY <1>1, Invariance, PTL

(* sfs_fopen never gives a file a second descriptor, although it looks for  *)
(* the first by name, and names are used again after sfs_remove.            *)
THEOREM NoSecondDescriptor == Spec => []OneDescriptorPerFile
<1>1. IndInv => OneDescriptorPerFile
  BY DEF IndInv
<1>2. QED
  BY <1>1, Invariance, PTL

(* No read_ptr is ever past the end of its file: sfs_fread never computes   *)
(* a negative length.                                                       *)
THEOREM ReadPtrStaysInFile == Spec => []ReadPtrInFile
<1>1. IndInv => ReadPtrInFile
  BY DEF IndInv
<1>2. QED
  BY <1>1, Invariance, PTL

(* The bitmap on the disk, which alloc_block() reads back, lacks nothing    *)
(* but what sfs_remove is about to save.                                    *)
THEOREM BitmapIsSaved == Spec => []BitmapSaved
<1>1. IndInv => BitmapSaved
  BY DEF IndInv
<1>2. QED
  BY <1>1, Invariance, PTL

(* Between calls the inodes of the files in the directory are on the disk,  *)
(* also after calls that failed half way.                                   *)
THEOREM InodesAreSaved == Spec => []InodesSaved
<1>1. IndInv => InodesSaved
  BY DEF IndInv, SavedInv, InodesSaved
<1>2. QED
  BY <1>1, Invariance, PTL

-----------------------------------------------------------------------------
(* Who owns which block, whatever is written, up to the first removal that *)
(* takes a block from another file                                          *)

LEMMA OwnersInvariance == OwnSpec => [](IndInv /\ OwnersInv)
<1>1. Init => IndInv /\ OwnersInv
  BY InitEstablishes
<1>2. IndInv /\ OwnersInv /\ [Next /\ ReleasesItsOwn]_vars => (IndInv /\ OwnersInv)'
  <2>1. SUFFICES ASSUME IndInv, OwnersInv, [Next /\ ReleasesItsOwn]_vars
                 PROVE  IndInv' /\ OwnersInv'
    OBVIOUS
  <2>2. Kept
    BY <2>1, StepKeeps
  <2>3. CASE ReleasesItsOwn
    BY <2>1, <2>2, <2>3 DEF Kept, OwnersKept
  <2>4. CASE UNCHANGED vars
    <3>1. UNCHANGED <<inode_arr, dir_entry_arr, bitmap, call>>
      BY <2>4 DEF vars
    <3>2. OwnersInv'
      BY <2>1, <3>1 DEF OwnersInv, OneOwner, MarkedInv, BeingRemoved, Live, Listed,
                        Owned, Pointers, Removing
    <3>3. QED
      BY <2>2, <3>2 DEF Kept
  <2>5. QED
    BY <2>1, <2>3, <2>4
<1>3. QED
  BY <1>1, <1>2, PTL DEF OwnSpec

(* As long as no removal takes a block from another file, no block but      *)
(* block 0 belongs to two pointers of files that are in the directory.      *)
THEOREM BlocksHaveOneOwner == OwnSpec => []OneOwner
<1>1. OwnersInv => OneOwner
  BY DEF OwnersInv
<1>2. QED
  BY <1>1, OwnersInvariance, PTL

(* Between calls such a block is then marked in the bitmap, so that         *)
(* alloc_block() never gives it away.                                       *)
THEOREM OwnedBlocksAreMarked == OwnSpec => []OwnedIsMarked
<1>1. IndInv /\ OwnersInv => OwnedIsMarked
  <2>1. SUFFICES ASSUME IndInv, OwnersInv, call = Idle
                 PROVE  \A j \in Live : \A p \in Owned(j) : bitmap[p[2]] = 1
    BY DEF OwnedIsMarked
  <2>2. ~Removing
    BY <2>1, CallKinds DEF IndInv
  <2>3. QED
    BY <2>1, <2>2 DEF OwnersInv, MarkedInv, BeingRemoved
<1>2. QED
  BY <1>1, OwnersInvariance, PTL

-----------------------------------------------------------------------------
(* Contents that are no numbers of blocks: no removal takes a block then *)

LEMMA FRemoveReleases ==
  ASSUME IndInv, OwnersInv, ContentsInv, NEW n \in Names, FRemove(n)
  PROVE  ReleasesItsOwn
<1>1. PICK e, j : Removal(e, j)
  BY FRemoveDoes
<1>2. TableIds(j) \subseteq {0}
  BY <1>1, TableIsHarmless DEF Removal, TableIds, DirectCleared, DirectIds, OwnersInv
<1>3. bitmap' = [b \in Blocks |-> IF b \in DirectIds(j) \cup TableIds(j) THEN 0 ELSE bitmap[b]]
      /\ j \in Live /\ j \in Inodes
  BY <1>1 DEF Removal
<1>4. BeingRemoved' = {j}
  <2>1. UNCHANGED dir_entry_arr
    BY DEF FRemove
  <2>2. QED
    BY <1>1, <2>1 DEF Removal, BeingRemoved, Removing
<1>5. ASSUME NEW m \in Live \ {j}, NEW p \in Owned(m), bitmap[p[2]] = 1
      PROVE  bitmap'[p[2]] = 1
  <2>1. p[2] \in Blocks \ {0}
    BY OwnedIs
  <2>2. p[2] \notin DirectIds(j)
    <3>1. SUFFICES ASSUME NEW k \in Direct, inode_arr[j].data_blocks[k].id = p[2] PROVE FALSE
      <4>1. DOMAIN inode_arr[j].data_blocks = Direct
        BY <1>3 DEF IndInv, TypeOK, InodeType
      <4>2. QED
        BY <3>1, <4>1 DEF DirectIds, Ids
    <3>2. <<k, p[2]>> \in Owned(j)
      BY <2>1, <3>1, OwnedIs
    <3>3. QED
      BY <1>3, <1>5, <3>2 DEF OwnersInv, OneOwner
  <2>3. QED
    BY <1>2, <1>3, <1>5, <2>1, <2>2
<1>6. QED
  BY <1>4, <1>5 DEF ReleasesItsOwn

(* No other step marks a block free. *)
LEMMA OthersRelease ==
  ASSUME IndInv, [Next]_vars, \A n \in Names : ~FRemove(n)
  PROVE  ReleasesItsOwn
<1>1. \A c \in Blocks : bitmap[c] = 1 => bitmap'[c] = 1
  <2>1. TypeOK /\ disk_bitmap \in BitmapType
    BY DEF IndInv, TypeOK
  <2>2. CASE UNCHANGED bitmap
    BY <2>2
  <2>3. ASSUME NEW b, b = FreeBlock(disk_bitmap), bitmap' = Taken(disk_bitmap, b), ~Removing
        PROVE  \A c \in Blocks : bitmap[c] = 1 => bitmap'[c] = 1
    <3>1. bitmap = disk_bitmap
      BY <2>1, <2>3, CallKinds DEF IndInv, BitmapSaved, Removing, OpenCall
    <3>2. QED
      BY <2>1, <2>3, <3>1, Allocation
  <2>4. ASSUME NEW n \in Names, FOpenNew(n) PROVE \A c \in Blocks : bitmap[c] = 1 => bitmap'[c] = 1
    <3>1. ~Removing
      BY <2>1, <2>4, CallKinds DEF FOpenNew
    <3>2. bitmap' = Taken(disk_bitmap, FreeBlock(disk_bitmap)) \/ UNCHANGED bitmap
      BY <2>4 DEF FOpenNew
    <3>3. QED
      BY <2>3, <3>1, <3>2
  <2>5. ASSUME NEW to, NEW with, Allocate(FreeBlock(disk_bitmap), to, with),
               call.step \in {"write", "pointer"}
        PROVE  \A c \in Blocks : bitmap[c] = 1 => bitmap'[c] = 1
    <3>1. ~Removing
      BY <2>1, <2>5, CallKinds
    <3>2. QED
      BY <2>3, <2>5, <3>1 DEF Allocate
  <2>6. CASE FWriteDirect \/ FWriteIndirect \/ FWritePointer
    <3>1. call.step \in {"write", "pointer"}
      BY <2>6 DEF FWriteDirect, FWriteIndirect, FWritePointer, InDirect, InIndirect, MoreToWrite
    <3>2. \E to, with : Allocate(FreeBlock(disk_bitmap), to, with)
      BY <2>6 DEF FWriteDirect, FWriteIndirect, FWritePointer
    <3>3. QED
      BY <2>5, <3>1, <3>2
  <2>7. \/ UNCHANGED bitmap \/ FWriteDirect \/ FWriteIndirect \/ FWritePointer
        \/ \E n \in Names : FOpenNew(n)
    <3>1. CASE Open
      BY <3>1 DEF Open, FOpenExisting, FOpenEnd
    <3>2. CASE Save \/ Use
      BY <3>2 DEF Save, Use, SaveDir, SaveInode, FClose, FWSeek, FRSeek, FRead
    <3>3. CASE Write
      BY <3>3 DEF Write, FWrite, FWriteNewTable, FWriteTable, FWriteData, FWriteEnd
    <3>4. CASE Remove
      BY <3>4 DEF Remove, FRemoveEntry
    <3>5. QED
      BY <3>1, <3>2, <3>3, <3>4 DEF Next, vars
  <2>8. QED
    BY <2>2, <2>4, <2>6, <2>7
<1>2. QED
  BY <1>1 DEF ReleasesItsOwn, Owned

(* As long as no file contents, read as a block pointer, name a block of    *)
(* the disk, no call marks a block of another file free: what is read as a  *)
(* table of pointers, of a disk of any size, is one, or names block 0 only. *)
THEOREM ReleasedIsOwn == ContentsAreNoPointers => (Spec => ReleasesOnlyItsOwn)
<1> SUFFICES ASSUME ContentsAreNoPointers PROVE Spec => ReleasesOnlyItsOwn
  OBVIOUS
<1> DEFINE Inv == IndInv /\ OwnersInv /\ ContentsInv
<1>1. Init => Inv
  BY InitEstablishes
<1>2. Inv /\ [Next]_vars => ReleasesItsOwn
  BY FRemoveReleases, OthersRelease
<1>3. Inv /\ [Next]_vars => Inv'
  BY <1>2, StepKeeps DEF Kept, OwnersKept, ContentsKept
<1>4. QED
  BY <1>1, <1>2, <1>3, PTL DEF Spec, ReleasesOnlyItsOwn

=============================================================================
