---------------------- MODULE SimpleFileSystem_refinement ----------------------
(***************************************************************************)
(* sfs_api.c implements FileTable for clients that close a file before     *)
(* they remove it: every step of a call creates, opens, closes or removes  *)
(* a file, or does nothing that FileTable sees.                            *)
(***************************************************************************)
EXTENDS SimpleFileSystem_proofs

(* The variables of FileTable, as the tables of sfs_api.c have them. *)
named  == {<<dir_entry_arr[e].fname, dir_entry_arr[e].inode_index>> : e \in Listed}
opened == {<<f, file_descriptor_table[f].inode_index>> : f \in {f \in Slots : IsOpen(f)}}

seen == <<named, opened>>

LEMMA NamedIs == \A p : p \in named <=>
  \E e \in Slots : /\ dir_entry_arr[e].inode_index # NULL
                   /\ p = <<dir_entry_arr[e].fname, dir_entry_arr[e].inode_index>>
BY DEF named, Listed

LEMMA OpenedIs == \A q : q \in opened <=>
  \E f \in Slots : IsOpen(f) /\ q = <<f, file_descriptor_table[f].inode_index>>
BY DEF opened

(* What leaves entries and open descriptors alone. *)
LEMMA UnseenStep == ASSUME Unseen PROVE UNCHANGED seen
<1>1. named' = named
  BY DEF Unseen, named, Listed
<1>2. opened' = opened
  BY DEF Unseen, opened, IsOpen
<1>3. QED
  BY <1>1, <1>2 DEF seen

(* The end of sfs_fopen opens a descriptor, if one is free. *)
LEMMA OpenFileStep ==
  ASSUME IndInv, NEW n \in Names, NEW e \in Listed, dir_entry_arr[e].fname = n,
         \A f \in Slots : file_descriptor_table[f].inode_index # dir_entry_arr[e].inode_index,
         OpenFile(n, e), UNCHANGED <<inode_arr, dir_entry_arr>>
  PROVE  Table!Next \/ UNCHANGED seen
<1> DEFINE j == dir_entry_arr[e].inode_index
           d == find_free_fdt_entry
<1>1. e \in Slots /\ j # NULL /\ file_descriptor_table \in [Slots -> FileType]
  BY DEF Listed, IndInv, TypeOK
<1>2. UNCHANGED named
  BY DEF named, Listed
<1>3. CASE d = NULL
  <2>1. file_descriptor_table' = file_descriptor_table
    BY <1>3 DEF OpenFile
  <2>2. QED
    BY <1>2, <2>1 DEF seen, opened, IsOpen
<1>4. CASE d # NULL
  <2>1. d \in Slots /\ ~IsOpen(d)
    BY <1>4, FreeFdtEntry
  <2>2. /\ file_descriptor_table'[d].inode_index = j
        /\ \A f \in Slots \ {d} : file_descriptor_table'[f] = file_descriptor_table[f]
    BY <1>1, <1>4, <2>1 DEF OpenFile
  <2>3. PICK f : f = d
    OBVIOUS
  <2>4. opened' = opened \cup {<<f, j>>}
    BY <1>1, <2>1, <2>2, <2>3 DEF opened, IsOpen
  <2>5. \A q \in opened : q[1] # f /\ q[2] # j
    BY <2>1, <2>3, OpenedIs
  <2>6. <<n, j>> \in named
    BY <1>1, NamedIs
  <2>7. Table!OpenFile(f, n)
    BY <1>2, <2>4, <2>5, <2>6 DEF Table!OpenFile, named, opened
  <2>8. QED
    BY <2>1, <2>3, <2>7 DEF Table!Next
<1>5. QED
  BY <1>3, <1>4

(* A new file is created, if there is a block for its entry. *)
LEMMA FileMadeStep ==
  ASSUME IndInv, NEW n \in Names, FileMade(n), \A e \in Slots : dir_entry_arr[e].fname # n
  PROVE  Table!Next \/ UNCHANGED seen
<1>1. PICK j \in Inodes \ {ROOT} :
        /\ inode_arr[j].link_count = 0 /\ inode_arr'[j].link_count = 1
        /\ \A m \in Inodes \ {j} : inode_arr'[m].link_count = inode_arr[m].link_count
        /\ UNCHANGED file_descriptor_table
        /\ \/ \E e \in Slots \ Listed :
                /\ dir_entry_arr'[e].inode_index = j /\ dir_entry_arr'[e].fname = n
                /\ \A x \in Slots \ {e} :
                     /\ dir_entry_arr'[x].inode_index = dir_entry_arr[x].inode_index
                     /\ dir_entry_arr'[x].fname = dir_entry_arr[x].fname
           \/ UNCHANGED dir_entry_arr
  BY DEF FileMade
<1>2. opened' = opened /\ j # NULL
  BY <1>1, Sizes DEF opened, IsOpen
<1>3. CASE UNCHANGED dir_entry_arr
  BY <1>2, <1>3 DEF seen, named, Listed
<1>4. ASSUME NEW e \in Slots \ Listed,
             dir_entry_arr'[e].inode_index = j, dir_entry_arr'[e].fname = n,
             \A x \in Slots \ {e} :
               /\ dir_entry_arr'[x].inode_index = dir_entry_arr[x].inode_index
               /\ dir_entry_arr'[x].fname = dir_entry_arr[x].fname
      PROVE  Table!Next
  <2>1. named' = named \cup {<<n, j>>}
    <3>1. Listed' = Listed \cup {e}
      BY <1>2, <1>4 DEF Listed
    <3>2. \A x \in Listed : /\ dir_entry_arr'[x].inode_index = dir_entry_arr[x].inode_index
                            /\ dir_entry_arr'[x].fname = dir_entry_arr[x].fname
      BY <1>4 DEF Listed
    <3>3. QED
      BY <1>4, <3>1, <3>2 DEF named
  <2>2. \A p \in named : p[1] # n /\ p[2] # j
    BY <1>1, NamedIs DEF IndInv, FilesInv, InUse, Listed
  <2>3. \A q \in opened : q[2] # j
    BY <1>1, OpenedIs DEF IndInv, FilesInv, InUse
  <2>4. Table!Create(n, j)
    BY <1>2, <2>1, <2>2, <2>3 DEF Table!Create, named, opened
  <2>5. QED
    BY <1>1, <2>4 DEF Table!Next
<1>5. QED
  BY <1>1, <1>3, <1>4

(* sfs_fclose closes the descriptor; seeking and reading are not seen. *)
LEMMA UseStep == ASSUME IndInv, Use PROVE Table!Next \/ UNCHANGED seen
<1>1. file_descriptor_table \in [Slots -> FileType]
  BY DEF IndInv, TypeOK
<1>2. PICK f \in Slots : \/ FClose(f)
                         \/ \E loc \in WriteSeeks : FWSeek(f, loc)
                         \/ \E loc \in ReadSeeks : FRSeek(f, loc)
                         \/ \E length \in Reads : FRead(f, length)
  BY DEF Use
<1>3. CASE FClose(f)
  <2> DEFINE j == file_descriptor_table[f].inode_index
  <2>1. /\ IsOpen(f) /\ UNCHANGED <<inode_arr, dir_entry_arr>>
        /\ file_descriptor_table'[f].inode_index = NULL
        /\ \A g \in Slots \ {f} : file_descriptor_table'[g] = file_descriptor_table[g]
    BY <1>1, <1>3 DEF FClose, NoFile
  <2>2. UNCHANGED named
    BY <2>1 DEF named, Listed
  <2>3. <<f, j>> \in opened
    BY <2>1, OpenedIs
  <2>4. opened' = opened \ {<<f, j>>}
    BY <2>1 DEF opened, IsOpen
  <2>5. Table!Close(f)
    BY <2>2, <2>3, <2>4 DEF Table!Close, named, opened
  <2>6. QED
    BY <2>5 DEF Table!Next
<1>4. CASE ~FClose(f)
  <2>1. UNCHANGED <<inode_arr, dir_entry_arr>>
    BY <1>2, <1>4 DEF FWSeek, FRSeek, FRead
  <2>2. \E p : \/ file_descriptor_table' = [file_descriptor_table EXCEPT ![f].read_ptr = p]
               \/ file_descriptor_table' = [file_descriptor_table EXCEPT ![f].write_ptr = p]
    BY <1>2, <1>4 DEF FWSeek, FRSeek, FRead
  <2>3. Unseen
    BY <1>1, <2>1, <2>2 DEF Unseen, FileType
  <2>4. QED
    BY <2>3, UnseenStep
<1>5. QED
  BY <1>3, <1>4

(* What clients that close files first have for sure. *)
ClosedInv ==
  Removing => \A f \in Slots : file_descriptor_table[f].inode_index
                                 # dir_entry_arr[call.entry].inode_index

(* sfs_remove takes the name away when it resets the entry. *)
LEMMA FRemoveEntryStep == ASSUME IndInv, ClosedInv, FRemoveEntry PROVE Table!Next
<1>1. TypeOK /\ call \in RemoveCall /\ call.step = "save_bitmap"
  BY CallKinds DEF IndInv, FRemoveEntry, OpenCall
<1>2. PICK e : e = call.entry
  OBVIOUS
<1>3. PICK n, j : n = dir_entry_arr[e].fname /\ j = dir_entry_arr[e].inode_index
  OBVIOUS
<1>4. e \in Slots /\ e \in Listed
  BY <1>1, <1>2 DEF Removing, IndInv, CallInv, RemoveCall
<1>5. n \in Names
  BY <1>1, <1>3, <1>4 DEF IndInv, DirectoryInv, TypeOK, EntryType
<1>6. /\ UNCHANGED <<inode_arr, file_descriptor_table>>
      /\ dir_entry_arr'[e].inode_index = NULL
      /\ \A x \in Slots \ {e} : dir_entry_arr'[x] = dir_entry_arr[x]
  BY <1>1, <1>2, <1>4 DEF FRemoveEntry, TypeOK, NoEntry
<1>7. UNCHANGED opened /\ opened = {q \in opened : q[2] # j}
  <2>1. \A q \in opened : q[2] # j
    BY <1>1, <1>2, <1>3, OpenedIs DEF ClosedInv, Removing
  <2>2. QED
    BY <1>6, <2>1 DEF opened, IsOpen
<1>8. <<n, j>> \in named
  BY <1>3, <1>4 DEF named
<1>9. named' = named \ {<<n, j>>}
  <2>1. Listed' = Listed \ {e}
    BY <1>6 DEF Listed
  <2>2. \A x \in Listed \ {e} : dir_entry_arr'[x] = dir_entry_arr[x] /\ dir_entry_arr[x].fname # n
    BY <1>3, <1>4, <1>6 DEF IndInv, DirectoryInv, Listed
  <2>3. QED
    BY <1>3, <1>4, <2>1, <2>2 DEF named
<1>10. Table!Remove(n)
  BY <1>7, <1>8, <1>9 DEF Table!Remove, named, opened
<1>11. QED
  BY <1>5, <1>10 DEF Table!Next

LEMMA TableInit == Init => Table!Init
<1> SUFFICES ASSUME Init PROVE Table!Init
  OBVIOUS
<1>1. named = {} /\ opened = {}
  BY DEF Init, NoEntry, NoFile, named, opened, Listed, IsOpen
<1>2. QED
  BY <1>1 DEF Table!Init, named, opened

LEMMA TableStep == ASSUME IndInv, ClosedInv, [Next]_vars PROVE Table!Next \/ UNCHANGED seen
<1>1. TypeOK
  BY DEF IndInv
<1>2. ASSUME NEW n \in Names, FOpenExisting(n) PROVE Table!Next \/ UNCHANGED seen
  <2>1. PICK e : e = find_dir_index_by_fname(n)
    OBVIOUS
  <2>2. e \in Slots /\ dir_entry_arr[e].fname = n /\ n # 0
    BY <1>2, <2>1, DirIndex, ClientsAssumption DEF FOpenExisting
  <2>3. e \in Listed
    BY <2>2 DEF IndInv, DirectoryInv
  <2>4. \A f \in Slots : file_descriptor_table[f].inode_index # dir_entry_arr[e].inode_index
    BY <1>2, <2>2, <2>3 DEF FOpenExisting, IndInv, FilesInv, Listed, IsOpen
  <2>5. QED
    BY <1>2, <2>1, <2>2, <2>3, <2>4, OpenFileStep DEF FOpenExisting
<1>3. ASSUME NEW n \in Names, FOpenNew(n) PROVE Table!Next \/ UNCHANGED seen
  <2>1. \A e \in Slots : dir_entry_arr[e].fname # n
    BY <1>3, DirIndex DEF FOpenNew
  <2>2. QED
    BY <1>3, <2>1, FOpenNewKeeps, FileMadeStep
<1>4. ASSUME FOpenEnd PROVE Table!Next \/ UNCHANGED seen
  <2>1. call \in OpenCall
    BY <1>1, <1>4, CallKinds DEF FOpenEnd, RemoveCall
  <2>2. /\ call.name \in Names /\ call.entry \in Listed
        /\ dir_entry_arr[call.entry].fname = call.name
        /\ \A f \in Slots : file_descriptor_table[f].inode_index
                              # dir_entry_arr[call.entry].inode_index
    BY <2>1 DEF IndInv, CallInv, Opening, OpenCall
  <2>3. QED
    BY <1>4, <2>2, OpenFileStep DEF FOpenEnd
<1>5. CASE Open
  BY <1>2, <1>3, <1>4, <1>5 DEF Open
<1>6. CASE Save
  <2>1. Unseen
    BY <1>6 DEF Save, SaveDir, SaveInode, Unseen
  <2>2. QED
    BY <2>1, UnseenStep
<1>7. CASE Use
  BY <1>7, UseStep
<1>8. CASE Write
  <2>1. Unseen
    <3>1. ASSUME NEW f \in Slots, NEW d \in Data, NEW length \in Writes, FWrite(f, d, length)
          PROVE  Unseen
      BY <3>1 DEF FWrite, Unseen
    <3>2. QED
      BY <1>8, <3>1, FWriteDirectKeeps, FWriteIndirectKeeps, FWriteNewTableKeeps,
         FWritePointerKeeps, FWriteTableKeeps, FWriteDataKeeps, FWriteEndKeeps DEF Write
  <2>2. QED
    BY <2>1, UnseenStep
<1>9. CASE Remove
  <2>1. ASSUME NEW n \in Names, FRemove(n) PROVE Unseen
    BY <2>1 DEF FRemove, Unseen
  <2>2. QED
    BY <1>9, <2>1, UnseenStep, FRemoveEntryStep DEF Remove
<1>10. CASE UNCHANGED vars
  <2>1. Unseen
    BY <1>10 DEF vars, Unseen
  <2>2. QED
    BY <2>1, UnseenStep
<1>11. QED
  BY <1>5, <1>6, <1>7, <1>8, <1>9, <1>10 DEF Next

(* Only sfs_remove itself starts a removal, and it sees every descriptor. *)
LEMMA ClosedStep ==
  ASSUME IndInv, ClosedInv, [Next /\ ClosedFirst]_vars
  PROVE  ClosedInv'
<1>1. TypeOK
  BY DEF IndInv
<1>2. CASE UNCHANGED vars
  BY <1>2 DEF vars, ClosedInv, Removing
<1>3. CASE Next /\ ClosedFirst
  <2>1. ASSUME NEW n \in Names, FRemove(n) PROVE ClosedInv'
    BY <1>3, <2>1 DEF FRemove, ClosedInv, ClosedFirst
  <2>2. ~Removing' \/ \E n \in Names : FRemove(n)
    <3>1. CASE Open
      BY <1>1, <3>1, CallKinds
      DEF Open, FOpenExisting, FOpenNew, FOpenEnd, Removing, RemoveCall, Idle
    <3>2. CASE Save
      <4>1. call \in OpenCall \cup RemoveCall
        BY <1>1, <3>2, CallKinds DEF Save, SaveDir, SaveInode
      <4>2. call' \notin RemoveCall \/ call'.step # "save_bitmap"
        BY <3>2, <4>1 DEF Save, SaveDir, SaveInode, OpenCall, RemoveCall, Idle
      <4>3. QED
        BY <4>2 DEF Removing
    <3>3. CASE Use
      <4>1. call' = Idle
        BY <3>3 DEF Use, FClose, FWSeek, FRSeek, FRead
      <4>2. QED
        BY <4>1 DEF Removing, RemoveCall, Idle
    <3>4. CASE Write
      <4>1. CASE \E f \in Slots, d \in Data, length \in Writes : FWrite(f, d, length)
        BY <4>1 DEF FWrite, Removing, RemoveCall
      <4>2. CASE FWriteEnd
        BY <4>2 DEF FWriteEnd, Removing, RemoveCall, Idle
      <4>3. CASE FWriteDirect \/ FWriteIndirect \/ FWritePointer
        <5>1. call \in WriteCall
          BY <1>1, <4>3, CallKinds DEF FWriteDirect, FWriteIndirect, FWritePointer, InDirect,
                                       InIndirect, MoreToWrite, Writing
        <5>2. call'.step \in {"write", "data", "new_table", "table"}
          BY <4>3, <5>1 DEF FWriteDirect, FWriteIndirect, FWritePointer, Allocate, Break, GoOn,
                            WriteCall
        <5>3. QED
          BY <5>2 DEF Removing
      <4>4. CASE FWriteNewTable \/ FWriteTable \/ FWriteData
        <5>1. call \in WriteCall
          BY <1>1, <4>4, CallKinds DEF FWriteNewTable, FWriteTable, FWriteData, InDirect,
                                       InIndirect, MoreToWrite, Writing
        <5>2. call'.step \in {"write", "pointer", "data"}
          BY <4>4, <5>1 DEF FWriteNewTable, FWriteTable, WriteTable, FWriteData, Transfer, Break,
                            WriteCall
        <5>3. QED
          BY <5>2 DEF Removing
      <4>5. QED
        BY <3>4, <4>1, <4>2, <4>3, <4>4 DEF Write
    <3>5. ASSUME FRemoveEntry PROVE ~Removing'
      <4>1. call \in RemoveCall
        BY <1>1, <3>5, CallKinds DEF FRemoveEntry, OpenCall
      <4>2. call'.step = "save_dir"
        BY <3>5, <4>1 DEF FRemoveEntry, RemoveCall
      <4>3. QED
        BY <4>2 DEF Removing
    <3>6. QED
      BY <1>3, <3>1, <3>2, <3>3, <3>4, <3>5 DEF Next, Remove
  <2>3. QED
    BY <2>1, <2>2 DEF ClosedInv
<1>4. QED
  BY <1>2, <1>3

(* For clients that close files before they remove them: a name stands for  *)
(* one file at a time, a file has one name and at most one descriptor, and  *)
(* a new file gets no inode that another is named by or open on.  FileTable *)
(* is what sfs_fopen, sfs_fclose and sfs_remove do, for tables of any size. *)
THEOREM Implementation == ClosedSpec => ImplementsFileTable
<1> DEFINE Inv == IndInv /\ ClosedInv
<1>1. Init => Inv /\ Table!Init
  BY TableInit, InitEstablishes DEF Init, ClosedInv, Removing, RemoveCall, Idle
<1>2. Inv /\ [Next /\ ClosedFirst]_vars => Inv'
  BY StepKeeps, ClosedStep DEF Kept
<1>3. Inv /\ [Next /\ ClosedFirst]_vars => [Table!Next]_(Table!vars)
  <2>1. Inv /\ [Next /\ ClosedFirst]_vars => Table!Next \/ UNCHANGED seen
    BY TableStep
  <2>2. UNCHANGED seen => UNCHANGED Table!vars
    BY DEF Table!vars, seen, named, opened
  <2>3. QED
    BY <2>1, <2>2
<1>4. QED
  BY <1>1, <1>2, <1>3, PTL DEF ClosedSpec, ImplementsFileTable, Table!Spec

=============================================================================
