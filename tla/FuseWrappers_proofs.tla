-------------------------- MODULE FuseWrappers_proofs --------------------------
(***************************************************************************)
(* Proofs about fuse_wrappers.c, for any names, contents and sizes of the  *)
(* disk: what SimpleFileSystem_proofs shows of the calls carries over to   *)
(* sequences of them.                                                      *)
(***************************************************************************)
EXTENDS FuseWrappers, SimpleFileSystem_proofs

OpTypes ==
  /\ dir_curr \in 0 .. NUM_DATA_BLOCKS /\ returned \subseteq Inodes
  /\ op \in [what : {"none", "open", "read", "write", "unlink", "truncate", "create", "readdir"},
             path : Names \cup {0}, fd : Slots \cup {NULL},
             step : {"none", "fopen", "opening", "seek", "fread", "fwrite", "fclose", "remove",
                     "getnextfilename"}]
  /\ leaked \subseteq Slots

OpInv == OpTypes /\ StepsInv /\ OpenInv /\ RightFile /\ TruncateInv /\ ListInv

LEMMA FuseInvIs == FuseInv <=> IndInv /\ OpInv /\ handles \subseteq Names
BY DEF FuseInv, OpInv, OpTypes, FuseTypeOK, IndInv

(* A file is found by its name if an entry has it. *)
LEMMA FoundIs ==
  ASSUME IndInv, NEW n \in Names
  PROVE  Found(n) <=> \E e \in Slots : dir_entry_arr[e].fname = n
<1> DEFINE e == find_dir_index_by_fname(n)
<1>1. e = NULL => ~Found(n) /\ \A x \in Slots : dir_entry_arr[x].fname # n
  BY DirIndex DEF Found, sfs_getfilesize
<1>2. ASSUME e # NULL PROVE Found(n) /\ e \in Slots /\ dir_entry_arr[e].fname = n
  <2>1. e \in Slots /\ dir_entry_arr[e].fname = n /\ n # 0
    BY <1>2, DirIndex, ClientsAssumption
  <2>2. e \in Listed
    BY <2>1 DEF IndInv, DirectoryInv
  <2>3. dir_entry_arr[e].inode_index \in Inodes
    BY <2>1, <2>2 DEF IndInv, TypeOK, EntryType, Listed
  <2>4. inode_arr[dir_entry_arr[e].inode_index].file_size \in Nat
    BY <2>3 DEF IndInv, TypeOK, InodeType
  <2>5. QED
    BY <1>2, <2>1, <2>4 DEF Found, sfs_getfilesize
<1>3. QED
  BY <1>1, <1>2

-----------------------------------------------------------------------------
(* The steps of a write in progress. *)
WriteGoesOn == FWriteDirect \/ FWriteIndirect \/ FWriteNewTable \/ FWritePointer
                 \/ FWriteTable \/ FWriteData \/ FWriteEnd

(* The steps of an operation are steps of the library. *)
LEMMA FuseStepIsStep == ASSUME IndInv, OpInv, FuseNext PROVE [Next]_vars
<1>1. HasFd => op.fd \in Slots
  BY DEF OpInv, StepsInv
<1>2. HasFd \/ op.step \in {"fopen", "opening", "remove"} => op.path \in Names
  BY DEF OpInv, StepsInv
<1>3. CASE Request
  BY <1>3 DEF Request, Ask
<1>4. CASE FopenFound \/ FopenFails \/ Readdir
  BY <1>4 DEF FopenFound, FopenFails, Readdir, sfs_getnextfilename
<1>5. CASE FopenExisting \/ FopenNew \/ FopenNewEnd
  BY <1>2, <1>5 DEF FopenExisting, FopenNew, FopenNewEnd, Next, Open
<1>6. CASE Frseek \/ Fwseek
  BY <1>1, <1>6 DEF Frseek, Fwseek, SeekFails, Step, HasFd, Next, Use
<1>7. CASE Fread \/ Fclose
  BY <1>1, <1>7 DEF Fread, Fclose, Step, HasFd, Next, Use
<1>8. CASE Fwrite
  BY <1>1, <1>8 DEF Fwrite, Step, HasFd, Next, Write
<1>9. CASE Unlink \/ Truncate
  BY <1>2, <1>9 DEF Unlink, Truncate, Remove1, Step, Next, Remove
<1>10. CASE Continue
  <2>1. CASE SaveDir \/ SaveInode \/ FRemoveEntry
    BY <2>1 DEF Next, Save, Remove
  <2>2. CASE WriteGoesOn
    BY <2>2 DEF Next, Write, WriteGoesOn
  <2>3. QED
    BY <1>10, <2>1, <2>2 DEF Continue, WriteGoesOn
<1>11. QED
  BY <1>3, <1>4, <1>5, <1>6, <1>7, <1>8, <1>9, <1>10 DEF FuseNext, Operation

-----------------------------------------------------------------------------
(* What each step keeps of the rest *)

OpType == [what : {"none", "open", "read", "write", "unlink", "truncate", "create", "readdir"},
           path : Names \cup {0}, fd : Slots \cup {NULL},
           step : {"none", "fopen", "opening", "seek", "fread", "fwrite", "fclose", "remove",
                   "getnextfilename"}]

SameOp == op'.what = op.what /\ op'.path = op.path

LEMMA OpenedGives ==
  ASSUME op \in OpType, NEW f \in Slots \cup {NULL}, Opened(f)
  PROVE  /\ op' \in OpType /\ SameOp /\ op'.fd = f
         /\ f = NULL => op'.step = "none"
         /\ f # NULL => op'.step \in {"seek", "fclose"}
         /\ op.what = "truncate" => op'.step # "seek"
BY DEF OpType, Opened, SameOp

LEMMA StepGives ==
  ASSUME op \in OpType, NEW s, op' = [op EXCEPT !.step = s],
         s \in {"none", "fopen", "opening", "seek", "fread", "fwrite", "fclose", "remove",
                "getnextfilename"}
  PROVE  op' \in OpType /\ SameOp /\ op'.fd = op.fd /\ op'.step = s
BY DEF OpType, SameOp

(* Outside a listing the directory may change: either it has not begun, or *)
(* it has come to the end.                                                 *)
LEMMA ListKeeps ==
  ASSUME OpInv, UNCHANGED listVars, op.step # "getnextfilename"
  PROVE  ListInv'
<1>1. /\ dir_curr' = dir_curr /\ dir_curr \in Nat
      /\ dir_curr < num_inode_blocks => dir_curr = 0
  BY Sizes DEF OpInv, OpTypes, ListInv, listVars
<1>2. Slots \subseteq Nat
  BY Sizes
<1>3. QED
  BY <1>1, <1>2 DEF ListInv, Listed

LEMMA FoundSame ==
  ASSUME UNCHANGED <<dir_entry_arr, inode_arr>>, NEW n PROVE Found(n)' = Found(n)
BY DEF Found, sfs_getfilesize, find_dir_index_by_fname

LEMMA RequestKeeps == ASSUME IndInv, OpInv, Request PROVE OpInv'
<1>1. PICK what \in {"open", "read", "write", "unlink", "truncate", "create", "readdir"},
           n \in Names \cup {0}, step \in {"fopen", "remove", "getnextfilename"} :
        /\ Ask(what, n, step)
        /\ step \in {"fopen", "remove"} => n \in Names
        /\ what = "truncate" => step = "remove"
  BY DEF Request
<1>2. /\ op.step = "none" /\ call = Idle /\ UNCHANGED vars /\ UNCHANGED listVars
      /\ leaked' = leaked
      /\ op' = [what |-> what, path |-> n, step |-> step, fd |-> NULL]
  BY <1>1 DEF Ask, Returned
<1>3. UNCHANGED <<inode_arr, dir_entry_arr, file_descriptor_table, call>>
  BY <1>2 DEF vars
<1>4. OpTypes'
  BY <1>2 DEF OpInv, OpTypes, listVars
<1>5. StepsInv'
  <2>1. ~Writing' /\ call' \notin OpenCall
    BY <1>2, <1>3 DEF Idle, Writing, WriteCall, OpenCall
  <2>2. QED
    BY <1>1, <1>2, <1>3, <2>1 DEF StepsInv, HasFd
<1>6. OpenInv'
  BY <1>2, <1>3 DEF OpInv, OpenInv, Held, HasFd, IsOpen
<1>7. RightFile' /\ TruncateInv'
  BY <1>1, <1>2 DEF RightFile, TruncateInv
<1>8. ListInv'
  BY <1>2, ListKeeps
<1>9. QED
  BY <1>4, <1>5, <1>6, <1>7, <1>8 DEF OpInv

(* A call in progress excludes others, and so does none.                   *)
LEMMA NoCall == ASSUME call = Idle PROVE ~Writing /\ call \notin OpenCall /\ ~Removing
BY DEF Idle, Writing, WriteCall, OpenCall, Removing, RemoveCall

(* Before sfs_fopen returns the descriptors open have all been left so.    *)
LEMMA LeakedAreOpen ==
  ASSUME OpInv, ~HasFd
  PROVE  leaked \subseteq Slots /\ \A f \in Slots : IsOpen(f) <=> f \in leaked
<1>1. Held = {}
  BY DEF Held
<1>2. {f \in Slots : IsOpen(f)} = leaked /\ leaked \subseteq Slots
  BY <1>1 DEF OpInv, OpenInv, OpTypes
<1>3. QED
  BY <1>2

LEMMA FopenFoundKeeps == ASSUME IndInv, OpInv, FopenFound PROVE OpInv'
<1>1. /\ op.step = "fopen" /\ call = Idle /\ find_dir_index_by_fname(op.path) # NULL
      /\ UNCHANGED <<inode_arr, dir_entry_arr, file_descriptor_table, call>>
      /\ UNCHANGED listVars /\ leaked' = leaked
  BY DEF FopenFound, vars
<1>2. PICK f \in Slots : file_descriptor_table[f].fname = op.path /\ Opened(f)
  BY DEF FopenFound
<1>3. op \in OpType /\ op.path \in Names /\ op.path # 0 /\ ~HasFd
  BY <1>1, ClientsAssumption DEF OpInv, OpTypes, OpType, StepsInv, HasFd
<1>4. /\ op' \in OpType /\ SameOp /\ op'.fd = f /\ op'.step \in {"seek", "fclose"}
      /\ op.what = "truncate" => op'.step # "seek"
  BY <1>2, <1>3, OpenedGives, Sizes
<1>5. f \in leaked /\ leaked \subseteq Slots /\ \A g \in Slots : IsOpen(g) <=> g \in leaked
  <2>1. IsOpen(f)
    BY <1>2, <1>3 DEF OpInv, OpenInv
  <2>2. QED
    BY <1>3, <2>1, LeakedAreOpen
<1>6. OpTypes'
  BY <1>1, <1>4, <1>5 DEF OpInv, OpTypes, OpType, listVars
<1>7. StepsInv'
  BY <1>1, <1>3, <1>4, NoCall DEF StepsInv, HasFd, SameOp, Writing
<1>8. OpenInv'
  <2>1. Held' = {f}
    BY <1>4 DEF Held, HasFd
  <2>2. {g \in Slots : IsOpen(g)} = leaked
    BY <1>5
  <2>3. QED
    BY <1>1, <1>5, <2>1, <2>2 DEF OpInv, OpenInv, IsOpen
<1>9. RightFile'
  BY <1>1, <1>4, <1>5 DEF RightFile, IsOpen
<1>10. TruncateInv'
  <2>1. Found(op.path)
    BY <1>1, <1>3, FoundIs, DirIndex, Sizes
  <2>2. op'.path = op.path /\ op'.what = op.what
    BY <1>4 DEF SameOp
  <2>3. Found(op.path)'
    BY <1>1, <2>1, <2>2 DEF Found, sfs_getfilesize, find_dir_index_by_fname
  <2>4. QED
    BY <1>1, <1>4, <2>2, <2>3 DEF TruncateInv
<1>11. ListInv'
  BY <1>1, ListKeeps
<1>12. QED
  BY <1>6, <1>7, <1>8, <1>9, <1>10, <1>11 DEF OpInv

(* sfs_fopen gives the file that has an entry a free descriptor, if there  *)
(* is one.                                                                 *)
LEMMA OpenFileKeepsOp ==
  ASSUME IndInv, OpInv, op.step \in {"fopen", "opening"},
         NEW e \in Listed, dir_entry_arr[e].fname = op.path, OpenFile(op.path, e),
         Opened(find_free_fdt_entry),
         UNCHANGED <<inode_arr, dir_entry_arr, listVars, leaked>>, call' = Idle
  PROVE  OpInv'
<1>1. PICK f \in Slots \cup {NULL} : f = find_free_fdt_entry
  BY FreeFdtEntry
<1>2. /\ op \in OpType /\ op.path \in Names /\ op.path # 0 /\ ~HasFd
      /\ leaked \subseteq Slots /\ \A g \in Slots : IsOpen(g) <=> g \in leaked
  BY ClientsAssumption, LeakedAreOpen DEF OpInv, OpTypes, OpType, StepsInv, HasFd
<1>3. /\ op' \in OpType /\ SameOp /\ op'.fd = f
      /\ f = NULL => op'.step = "none"
      /\ f # NULL => op'.step \in {"seek", "fclose"}
      /\ op.what = "truncate" => op'.step # "seek"
  BY <1>1, <1>2, OpenedGives
<1>4. f # NULL => f \in Slots /\ ~IsOpen(f)
  BY <1>1, FreeFdtEntry
<1>5. /\ \A g \in Slots \ {f} : file_descriptor_table'[g] = file_descriptor_table[g]
      /\ f # NULL => /\ file_descriptor_table'[f].inode_index = dir_entry_arr[e].inode_index
                     /\ file_descriptor_table'[f].fname = op.path
  BY <1>1, <1>4 DEF OpenFile, IndInv, TypeOK
<1>6. dir_entry_arr[e].inode_index # NULL /\ e \in Slots
  BY DEF Listed
<1>7. NULL \notin Slots
  BY Sizes
<1>8. \A g \in Slots : IsOpen(g)' <=> IsOpen(g) \/ g = f
  BY <1>4, <1>5, <1>6, <1>7 DEF IsOpen
<1>9. Held' = {f} \ {NULL}
  BY <1>3, <1>7 DEF Held, HasFd
<1>10. OpTypes'
  BY <1>2, <1>3 DEF OpInv, OpTypes, OpType, listVars
<1>11. StepsInv'
  <2>1. ~Writing' /\ call' \notin OpenCall
    BY DEF Idle, Writing, WriteCall, OpenCall
  <2>2. QED
    BY <1>2, <1>3, <1>4, <2>1 DEF StepsInv, HasFd, SameOp
<1>12. OpenInv'
  <2>1. \A g \in Slots : ~IsOpen(g)' => file_descriptor_table'[g].fname = 0
    BY <1>5, <1>8 DEF OpInv, OpenInv
  <2>2. \A g \in Slots : IsOpen(g)' <=> g \in leaked' \cup Held'
    BY <1>2, <1>8, <1>7, <1>9
  <2>3. leaked' \cup Held' \subseteq Slots
    BY <1>2, <1>4, <1>9
  <2>4. {g \in Slots : IsOpen(g)'} = leaked' \cup Held'
    BY <2>2, <2>3
  <2>5. QED
    BY <2>1, <2>4 DEF OpenInv
<1>13. RightFile'
  <2>1. SUFFICES ASSUME op'.step \in {"seek", "fread", "fwrite", "fclose"}
                 PROVE  /\ f \in Slots /\ IsOpen(f)'
                        /\ e \in Listed' /\ dir_entry_arr'[e].fname = op'.path
                        /\ dir_entry_arr'[e].inode_index = file_descriptor_table'[f].inode_index
    BY <1>3 DEF RightFile, IsOpen
  <2>2. f # NULL
    BY <1>3, <2>1
  <2>3. QED
    BY <1>3, <1>4, <1>5, <1>6, <1>8, <2>2 DEF SameOp, Listed
<1>14. TruncateInv'
  <2>1. Found(op.path)
    BY <1>2, <1>6, FoundIs
  <2>2. op'.path = op.path /\ op'.what = op.what
    BY <1>3 DEF SameOp
  <2>3. Found(op.path)'
    BY <2>1, <2>2 DEF Found, sfs_getfilesize, find_dir_index_by_fname
  <2>4. QED
    BY <1>3, <2>2, <2>3 DEF TruncateInv
<1>15. ListInv'
  BY ListKeeps
<1>16. QED
  BY <1>10, <1>11, <1>12, <1>13, <1>14, <1>15 DEF OpInv

LEMMA FopenEndsKeep == ASSUME IndInv, OpInv, FopenExisting \/ FopenNewEnd PROVE OpInv'
<1>1. CASE FopenExisting
  <2>1. PICK e : e = find_dir_index_by_fname(op.path)
    OBVIOUS
  <2>2. /\ op.step = "fopen" /\ call = Idle /\ call' = Idle /\ e # NULL
        /\ OpenFile(op.path, e) /\ Opened(find_free_fdt_entry)
        /\ UNCHANGED <<inode_arr, dir_entry_arr, listVars, leaked>>
    BY <1>1, <2>1 DEF FopenExisting, FOpenExisting
  <2>3. op.path \in Names /\ op.path # 0
    BY <2>2, ClientsAssumption DEF OpInv, StepsInv
  <2>4. e \in Slots /\ dir_entry_arr[e].fname = op.path
    BY <2>1, <2>2, DirIndex
  <2>5. e \in Listed
    BY <2>3, <2>4 DEF IndInv, DirectoryInv
  <2>6. QED
    BY <2>2, <2>4, <2>5, OpenFileKeepsOp
<1>2. CASE FopenNewEnd
  <2>1. PICK e : e = call.entry
    OBVIOUS
  <2>2. /\ op.step = "opening" /\ call' = Idle
        /\ OpenFile(call.name, e) /\ Opened(find_free_fdt_entry)
        /\ UNCHANGED <<inode_arr, dir_entry_arr, listVars, leaked>>
    BY <1>2, <2>1 DEF FopenNewEnd, FOpenEnd
  <2>3. Opening /\ call.name = op.path
    BY <2>2 DEF OpInv, StepsInv, Opening
  <2>4. e \in Listed /\ dir_entry_arr[e].fname = op.path
    BY <2>1, <2>3 DEF IndInv, CallInv
  <2>5. QED
    BY <2>2, <2>3, <2>4, OpenFileKeepsOp
<1>3. QED
  BY <1>1, <1>2

(* Steps between sfs_fopen, sfs_remove and the end, which leave the        *)
(* descriptors alone.                                                      *)
LEMMA NoDescriptorKeeps ==
  ASSUME IndInv, OpInv, ~HasFd, op.step # "getnextfilename",
         UNCHANGED <<file_descriptor_table, listVars, leaked>>,
         op' \in OpType, ~HasFd'
  PROVE  OpTypes' /\ OpenInv' /\ RightFile' /\ ListInv'
<1>1. OpTypes'
  BY DEF OpInv, OpTypes, OpType, listVars
<1>2. OpenInv'
  BY DEF OpInv, OpenInv, Held, IsOpen
<1>3. RightFile'
  BY DEF RightFile, HasFd
<1>4. ListInv'
  BY ListKeeps
<1>5. QED
  BY <1>1, <1>2, <1>3, <1>4

LEMMA FopenFailsKeeps == ASSUME IndInv, OpInv, FopenFails PROVE OpInv'
<1>1. /\ op.step = "fopen" /\ call = Idle /\ op' = [op EXCEPT !.step = "none"]
      /\ NULL \in {find_free_dir_entry, find_free_inode}
      /\ UNCHANGED <<inode_arr, dir_entry_arr, file_descriptor_table, disk_bitmap, call>>
      /\ UNCHANGED <<listVars, leaked>>
  BY DEF FopenFails, Step, vars, disk
<1>2. op \in OpType
  BY DEF OpInv, OpTypes, OpType
<1>3. op' \in OpType /\ SameOp /\ op'.step = "none"
  BY <1>1, <1>2, StepGives
<1>4. OpTypes' /\ OpenInv' /\ RightFile' /\ ListInv'
  BY <1>1, <1>3, NoDescriptorKeeps DEF HasFd
<1>5. StepsInv'
  BY <1>1, <1>3, NoCall DEF StepsInv, HasFd, Writing
<1>6. TruncateInv'
  <2>1. SUFFICES ASSUME op.what = "truncate" PROVE find_free_inode' = NULL /\ call' = Idle
    BY <1>3 DEF TruncateInv, SameOp
  <2>2. PICK e \in Slots : e \notin Listed
    BY <1>1, <2>1, NoCall DEF OpInv, TruncateInv
  <2>3. {x \in Slots : dir_entry_arr[x].inode_index = NULL} \in SUBSET Nat
    BY Sizes
  <2>4. find_free_dir_entry # NULL
    BY <2>2, <2>3, FirstFinds DEF find_free_dir_entry, Listed
  <2>5. QED
    BY <1>1, <2>4 DEF find_free_inode
<1>7. QED
  BY <1>4, <1>5, <1>6 DEF OpInv

LEMMA FopenNewKeepsOp == ASSUME IndInv, OpInv, FopenNew PROVE OpInv'
<1> DEFINE e == find_free_dir_entry
           made == [step |-> "save_dir", op |-> "open", name |-> op.path, entry |-> e]
<1>1. /\ op.step = "fopen" /\ call = Idle /\ e # NULL
      /\ op' = [op EXCEPT !.step = IF call' = Idle THEN "none" ELSE "opening"]
      /\ UNCHANGED <<file_descriptor_table, listVars, leaked>>
  BY DEF FopenNew, FOpenNew
<1>2. \/ call' = Idle /\ disk_bitmap' = Taken(disk_bitmap, FreeBlock(disk_bitmap))
                      /\ FreeBlock(disk_bitmap) = NULL
      \/ call' = made
  BY <1>1 DEF FopenNew, FOpenNew
<1>3. op \in OpType /\ op.path \in Names
  BY <1>1 DEF OpInv, OpTypes, OpType, StepsInv
<1>4. made \in OpenCall /\ made.name = op.path /\ made # Idle /\ made \notin WriteCall
  BY <1>1, <1>3, FreeDirEntry DEF OpenCall, Idle, WriteCall
<1> HIDE DEF made
<1>5. op' \in OpType /\ SameOp /\ op'.step = IF call' = Idle THEN "none" ELSE "opening"
  BY <1>1, <1>3, StepGives
<1>6. OpTypes' /\ OpenInv' /\ RightFile' /\ ListInv'
  BY <1>1, <1>5, NoDescriptorKeeps DEF HasFd
<1>7. CASE call' = made
  <2>1. StepsInv'
    BY <1>3, <1>4, <1>5, <1>7 DEF StepsInv, HasFd, SameOp, Writing
  <2>2. TruncateInv'
    BY <1>4, <1>5, <1>7 DEF TruncateInv
  <2>3. QED
    BY <1>6, <2>1, <2>2 DEF OpInv
<1>8. CASE call' = Idle /\ disk_bitmap' = Taken(disk_bitmap, FreeBlock(disk_bitmap))
                        /\ FreeBlock(disk_bitmap) = NULL
  <2>1. StepsInv'
    BY <1>5, <1>8 DEF StepsInv, HasFd, Writing, Idle, WriteCall, OpenCall
  <2>2. FreeBlock(disk_bitmap') = NULL
    BY <1>8 DEF Taken
  <2>3. TruncateInv'
    BY <1>5, <1>8, <2>2 DEF TruncateInv
  <2>4. QED
    BY <1>6, <2>1, <2>3 DEF OpInv
<1>9. QED
  BY <1>2, <1>7, <1>8

LEMMA Remove1Keeps == ASSUME IndInv, OpInv, Unlink \/ Truncate PROVE OpInv'
<1> DEFINE e == find_dir_index_by_fname(op.path)
<1>1. PICK s \in {"none", "fopen"} :
        /\ op.step = "remove" /\ op' = [op EXCEPT !.step = s]
        /\ op.what = IF s = "none" THEN "unlink" ELSE "truncate"
        /\ FRemove(op.path) /\ UNCHANGED <<listVars, leaked>>
  BY DEF Unlink, Truncate, Remove1, Step
<1>2. /\ e # NULL /\ call' = [step |-> "save_bitmap", op |-> "remove", entry |-> e]
      /\ UNCHANGED file_descriptor_table
  BY <1>1 DEF FRemove
<1>3. e \in Slots
  BY <1>2, DirIndex
<1>4. Removing' /\ ~Writing' /\ call' \notin OpenCall
  BY <1>2, <1>3 DEF Removing, RemoveCall, Writing, WriteCall, OpenCall
<1>5. op \in OpType /\ op.path \in Names
  BY <1>1 DEF OpInv, OpTypes, OpType, StepsInv
<1>6. op' \in OpType /\ SameOp /\ op'.step = s
  BY <1>1, <1>5, StepGives
<1>7. OpTypes' /\ OpenInv' /\ RightFile' /\ ListInv'
  BY <1>1, <1>2, <1>6, NoDescriptorKeeps DEF HasFd
<1>8. StepsInv'
  BY <1>4, <1>5, <1>6 DEF StepsInv, HasFd, SameOp
<1>9. TruncateInv'
  BY <1>1, <1>4, <1>6 DEF TruncateInv, SameOp
<1>10. QED
  BY <1>7, <1>8, <1>9 DEF OpInv

(* Steps that leave alone which descriptors are open, for which files.     *)
SameFiles ==
  /\ UNCHANGED dir_entry_arr
  /\ \A f \in Slots :
       /\ file_descriptor_table'[f].inode_index = file_descriptor_table[f].inode_index
       /\ file_descriptor_table'[f].fname = file_descriptor_table[f].fname

LEMMA SameFilesKeep ==
  ASSUME IndInv, OpInv, SameFiles, UNCHANGED <<listVars, leaked>>,
         op.step # "getnextfilename", op' \in OpType, SameOp, op'.fd = op.fd, HasFd' = HasFd
  PROVE  OpTypes' /\ OpenInv' /\ RightFile' /\ ListInv'
<1>1. OpTypes'
  BY DEF OpInv, OpTypes, OpType, listVars
<1>2. \A f \in Slots : IsOpen(f)' <=> IsOpen(f)
  BY DEF SameFiles, IsOpen
<1>3. Held' = Held
  BY DEF Held
<1>4. OpenInv'
  BY <1>2, <1>3 DEF OpInv, OpenInv, SameFiles
<1>5. RightFile'
  <2>1. SUFFICES ASSUME HasFd, op.step \in {"seek", "fread", "fwrite", "fclose"}
                 PROVE  /\ IsOpen(op.fd)'
                        /\ \/ op.fd \in leaked
                           \/ \E e \in Listed :
                                /\ dir_entry_arr[e].fname = op.path
                                /\ dir_entry_arr[e].inode_index
                                     = file_descriptor_table'[op.fd].inode_index
    BY DEF RightFile, HasFd, SameOp, SameFiles, Listed, IsOpen
  <2>2. op.fd \in Slots
    BY <2>1 DEF OpInv, StepsInv
  <2>3. QED
    BY <1>2, <2>1, <2>2 DEF OpInv, RightFile, SameFiles
<1>6. ListInv'
  BY ListKeeps
<1>7. QED
  BY <1>1, <1>4, <1>5, <1>6

(* A seek or a read, and the start of a write.                             *)
LEMMA TransferKeeps ==
  ASSUME IndInv, OpInv, HasFd, op.step # "fclose", SameFiles, UNCHANGED <<listVars, leaked>>,
         op' \in OpType, SameOp, op'.fd = op.fd,
         op'.step \in {"fread", "fwrite", "fclose"},
         op'.step = "fwrite" => op.what = "write",
         call' \in WriteCall \/ call' = Idle,
         call' \in WriteCall => op'.step = "fclose" /\ op.what = "write"
  PROVE  OpInv'
<1>1. HasFd' /\ HasFd /\ op.step # "getnextfilename"
  BY DEF HasFd
<1>2. OpTypes' /\ OpenInv' /\ RightFile' /\ ListInv'
  BY <1>1, SameFilesKeep
<1>3. call' \notin OpenCall
  BY DEF WriteCall, OpenCall, Idle
<1>4. StepsInv'
  BY <1>1, <1>3 DEF OpInv, StepsInv, SameOp, Writing
<1>5. op.what # "truncate"
  BY DEF OpInv, TruncateInv, HasFd
<1>6. QED
  BY <1>2, <1>4, <1>5 DEF OpInv, TruncateInv, SameOp

LEMMA PointersMove ==
  ASSUME IndInv, NEW f \in Slots, NEW d,
         \/ file_descriptor_table' = [file_descriptor_table EXCEPT ![f].read_ptr = d]
         \/ file_descriptor_table' = [file_descriptor_table EXCEPT ![f].write_ptr = d],
         UNCHANGED dir_entry_arr
  PROVE  SameFiles
BY DEF IndInv, TypeOK, FileType, SameFiles

LEMMA FdIsOpen == ASSUME OpInv, HasFd PROVE op.fd \in Slots /\ IsOpen(op.fd)
BY DEF OpInv, StepsInv, RightFile, HasFd

LEMMA SeekFailsKeeps == ASSUME IndInv, OpInv, NEW bad, SeekFails(bad) PROVE OpInv'
<1>1. /\ op.step = "seek" /\ call = Idle /\ op' = [op EXCEPT !.step = "none"]
      /\ leaked' = leaked \cup {op.fd}
      /\ UNCHANGED <<dir_entry_arr, file_descriptor_table, call>> /\ UNCHANGED listVars
  BY DEF SeekFails, Step, vars
<1>2. op \in OpType /\ HasFd /\ op.what # "truncate"
  BY <1>1 DEF OpInv, OpTypes, OpType, HasFd, TruncateInv
<1>3. op' \in OpType /\ SameOp /\ op'.step = "none"
  BY <1>1, <1>2, StepGives
<1>4. op.fd \in Slots
  BY <1>2, FdIsOpen
<1>5. OpTypes'
  BY <1>1, <1>3, <1>4 DEF OpInv, OpTypes, OpType, listVars
<1>6. OpenInv'
  <2>1. Held' = {} /\ Held = {op.fd}
    BY <1>2, <1>3 DEF Held, HasFd
  <2>2. QED
    BY <1>1, <2>1 DEF OpInv, OpenInv, IsOpen
<1>7. StepsInv'
  BY <1>1, <1>3, NoCall DEF StepsInv, HasFd, Writing
<1>8. RightFile' /\ TruncateInv'
  BY <1>2, <1>3 DEF RightFile, TruncateInv, SameOp
<1>9. ListInv'
  BY <1>1, ListKeeps
<1>10. QED
  BY <1>5, <1>6, <1>7, <1>8, <1>9 DEF OpInv

LEMMA SeekKeeps == ASSUME IndInv, OpInv, Frseek \/ Fwseek PROVE OpInv'
<1>1. CASE \E loc : SeekFails(loc > InodeOf(op.fd).file_end) \/ SeekFails(loc > MaxOffset)
  BY <1>1, SeekFailsKeeps
<1>2. ASSUME NEW loc, NEW s \in {"fread", "fwrite"}, Step("seek", s),
             FRSeek(op.fd, loc) \/ FWSeek(op.fd, loc), s = "fwrite" => op.what = "write",
             UNCHANGED <<listVars, leaked>>
      PROVE  OpInv'
  <2>1. op.step = "seek" /\ call = Idle /\ op' = [op EXCEPT !.step = s] /\ HasFd
    BY <1>2 DEF Step, HasFd
  <2>2. op \in OpType /\ op.fd \in Slots
    BY <2>1, FdIsOpen DEF OpInv, OpTypes, OpType
  <2>3. op' \in OpType /\ SameOp /\ op'.fd = op.fd /\ op'.step = s
    BY <2>1, <2>2, StepGives
  <2>4. SameFiles /\ call' = Idle
    BY <1>2, <2>2, PointersMove DEF FRSeek, FWSeek
  <2>5. call' \notin WriteCall
    BY <2>4 DEF Idle, WriteCall
  <2>6. QED
    BY <1>2, <2>1, <2>3, <2>4, <2>5, TransferKeeps
<1>3. CASE Frseek
  BY <1>1, <1>2, <1>3 DEF Frseek
<1>4. CASE Fwseek
  BY <1>1, <1>2, <1>4 DEF Fwseek
<1>5. QED
  BY <1>3, <1>4

LEMMA FreadKeeps == ASSUME IndInv, OpInv, Fread PROVE OpInv'
<1>1. /\ op.step = "fread" /\ call = Idle /\ op' = [op EXCEPT !.step = "fclose"] /\ HasFd
      /\ UNCHANGED <<listVars, leaked>>
  BY DEF Fread, Step, HasFd
<1>2. op \in OpType /\ op.fd \in Slots
  BY <1>1, FdIsOpen DEF OpInv, OpTypes, OpType
<1>3. op' \in OpType /\ SameOp /\ op'.fd = op.fd /\ op'.step = "fclose"
  BY <1>1, <1>2, StepGives
<1>4. SameFiles /\ call' = Idle
  <2>1. CASE UNCHANGED vars
    BY <1>1, <2>1 DEF vars, SameFiles
  <2>2. CASE \E length \in Reads : FRead(op.fd, length)
    BY <1>2, <2>2, PointersMove DEF FRead
  <2>3. QED
    BY <2>1, <2>2 DEF Fread
<1>5. call' \notin WriteCall
  BY <1>4 DEF Idle, WriteCall
<1>6. QED
  BY <1>1, <1>3, <1>4, <1>5, TransferKeeps

LEMMA FwriteStarts == ASSUME IndInv, OpInv, Fwrite PROVE OpInv'
<1>1. /\ op.step = "fwrite" /\ call = Idle /\ op' = [op EXCEPT !.step = "fclose"] /\ HasFd
      /\ UNCHANGED <<listVars, leaked>>
  BY DEF Fwrite, Step, HasFd
<1>2. op \in OpType /\ op.fd \in Slots /\ IsOpen(op.fd) /\ op.what = "write"
  BY <1>1, FdIsOpen DEF OpInv, OpTypes, OpType, StepsInv
<1>3. op' \in OpType /\ SameOp /\ op'.fd = op.fd /\ op'.step = "fclose"
  BY <1>1, <1>2, StepGives
<1>4. PICK d \in Data, length \in Writes : FWrite(op.fd, d, length)
  BY DEF Fwrite
<1>5. SameFiles
  BY <1>4 DEF FWrite, SameFiles
<1>6. InodeOf(op.fd) \in InodeType
  BY <1>2 DEF IsOpen, InodeOf, IndInv, TypeOK, FileType
<1>7. call' \in WriteCall
  <2>1. length \in Nat /\ NULL \in Int
    BY ClientsAssumption DEF NULL
  <2>2. QED
    BY <1>2, <1>4, <1>6, <2>1 DEF FWrite, WriteCall
<1>8. QED
  BY <1>1, <1>2, <1>3, <1>5, <1>7, TransferKeeps

LEMMA FcloseKeeps == ASSUME IndInv, OpInv, Fclose PROVE OpInv'
<1>1. /\ op.step = "fclose" /\ call = Idle /\ op' = [op EXCEPT !.step = "none"] /\ HasFd
      /\ leaked' = leaked \ {op.fd} /\ FClose(op.fd) /\ UNCHANGED listVars
  BY DEF Fclose, Step, HasFd
<1>2. op \in OpType /\ op.fd \in Slots
  BY <1>1, FdIsOpen DEF OpInv, OpTypes, OpType
<1>3. op' \in OpType /\ SameOp /\ op'.fd = op.fd /\ op'.step = "none"
  BY <1>1, <1>2, StepGives
<1>4. /\ file_descriptor_table' = [file_descriptor_table EXCEPT ![op.fd] = NoFile]
      /\ UNCHANGED <<inode_arr, dir_entry_arr, call>>
  BY <1>1 DEF FClose
<1>5. OpTypes'
  BY <1>1, <1>3 DEF OpInv, OpTypes, OpType, listVars
<1>6. OpenInv'
  <2>1. Held' = {} /\ Held = {op.fd}
    BY <1>1, <1>3 DEF Held, HasFd
  <2>2. /\ file_descriptor_table'[op.fd].inode_index = NULL
        /\ file_descriptor_table'[op.fd].fname = 0
        /\ \A g \in Slots \ {op.fd} : file_descriptor_table'[g] = file_descriptor_table[g]
    BY <1>2, <1>4 DEF IndInv, TypeOK, NoFile
  <2>3. \A g \in Slots : IsOpen(g)' <=> IsOpen(g) /\ g # op.fd
    BY <2>2 DEF IsOpen
  <2>4. {g \in Slots : IsOpen(g)'} = {g \in Slots : IsOpen(g)} \ {op.fd}
    BY <2>3
  <2>5. QED
    BY <1>1, <2>1, <2>2, <2>3, <2>4 DEF OpInv, OpenInv
<1>7. StepsInv'
  BY <1>1, <1>3, <1>4, NoCall DEF StepsInv, HasFd, Writing
<1>8. RightFile'
  BY <1>3 DEF RightFile
<1>9. TruncateInv'
  <2>1. op'.path = op.path /\ op'.what = op.what
    BY <1>3 DEF SameOp
  <2>2. SUFFICES ASSUME op.what = "truncate" PROVE call' = Idle /\ Found(op.path)'
    BY <1>3, <2>1 DEF TruncateInv
  <2>3. Found(op.path)
    BY <1>1, <2>2 DEF OpInv, TruncateInv
  <2>4. QED
    BY <1>1, <1>4, <2>1, <2>3 DEF Found, sfs_getfilesize, find_dir_index_by_fname
<1>10. ListInv'
  BY <1>1, ListKeeps
<1>11. QED
  BY <1>5, <1>6, <1>7, <1>8, <1>9, <1>10 DEF OpInv

LEMMA ReaddirKeeps == ASSUME IndInv, OpInv, Readdir PROVE OpInv'
<1> DEFINE S == {e \in Slots : e >= dir_curr /\ e < num_inode_blocks
                               /\ dir_entry_arr[e].inode_index # NULL}
<1>1. PICK s \in {"none", "getnextfilename"} :
        /\ op.step = "getnextfilename" /\ call = Idle /\ op' = [op EXCEPT !.step = s]
        /\ s = IF NextListed = NULL THEN "none" ELSE "getnextfilename"
        /\ NextFilename \/ NoFilename
        /\ UNCHANGED <<dir_entry_arr, file_descriptor_table, call>> /\ leaked' = leaked
  BY DEF Readdir, Step, sfs_getnextfilename, vars
<1>2. op \in OpType
  BY DEF OpInv, OpTypes, OpType
<1>3. op' \in OpType /\ SameOp /\ op'.step = s
  BY <1>1, <1>2, StepGives
<1>4. /\ dir_curr \in Nat /\ dir_curr <= NUM_DATA_BLOCKS /\ num_inode_blocks \in Nat
      /\ num_inode_blocks <= NUM_DATA_BLOCKS /\ NUM_DATA_BLOCKS \in Nat /\ returned \subseteq Inodes
  BY Sizes, ListingAssumption DEF OpInv, OpTypes
<1>5. S \in SUBSET Nat /\ NextListed = First(S)
  BY Sizes DEF NextListed
<1>6. ASSUME NextFilename PROVE OpTypes' /\ ListInv'
  <2>1. PICK n : n = NextListed
    OBVIOUS
  <2>2. n # NULL /\ dir_curr' = n + 1 /\ returned' = returned \cup {dir_entry_arr[n].inode_index}
    BY <1>6, <2>1 DEF NextFilename
  <2>3. n \in S /\ \A x \in S : n <= x
    BY <1>5, <2>1, <2>2, FirstFinds
  <2>4. /\ n \in 0 .. NUM_DATA_BLOCKS - 1 /\ n >= dir_curr /\ n < num_inode_blocks
        /\ dir_entry_arr[n].inode_index \in Inodes
    BY <2>3 DEF IndInv, TypeOK, EntryType, Slots
  <2>5. OpTypes'
    BY <1>1, <1>3, <1>4, <2>2, <2>4 DEF OpInv, OpTypes, OpType
  <2>6. s = "getnextfilename"
    BY <1>1, <2>1, <2>2
  <2>7. ASSUME NEW e \in Listed, e < n + 1
        PROVE  dir_entry_arr[e].inode_index \in returned'
    <3>1. e \in Nat /\ n \in Nat /\ e <= n /\ e \in Slots /\ dir_entry_arr[e].inode_index # NULL
      BY <2>4, <2>7, Sizes DEF Listed
    <3>2. CASE e < dir_curr
      <4>1. dir_curr < num_inode_blocks
        BY <1>4, <2>4
      <4>2. QED
        BY <2>2, <3>2, <4>1 DEF OpInv, ListInv
    <3>3. CASE e >= dir_curr
      <4>1. e \in S
        BY <1>4, <2>4, <3>1, <3>3
      <4>2. e = n
        BY <2>3, <3>1, <4>1
      <4>3. QED
        BY <2>2, <4>2
    <3>4. QED
      BY <1>4, <3>1, <3>2, <3>3
  <2>8. ListInv'
    BY <1>1, <1>3, <2>2, <2>6, <2>7 DEF ListInv, Listed
  <2>9. QED
    BY <2>5, <2>8
<1>7. ASSUME NoFilename PROVE OpTypes' /\ ListInv'
  <2>1. dir_curr' \in Nat /\ dir_curr' >= num_inode_blocks /\ dir_curr' <= NUM_DATA_BLOCKS
    BY <1>4, <1>7, MaxOfTwo DEF NoFilename
  <2>2. OpTypes'
    BY <1>1, <1>3, <1>4, <1>7, <2>1 DEF OpInv, OpTypes, OpType, NoFilename
  <2>3. ListInv'
    BY <1>4, <2>1 DEF ListInv
  <2>4. QED
    BY <2>2, <2>3
<1>8. OpTypes' /\ ListInv'
  BY <1>1, <1>6, <1>7
<1>9. StepsInv'
  BY <1>1, <1>3, NoCall DEF StepsInv, HasFd, Writing
<1>10. OpenInv'
  BY <1>1, <1>3 DEF OpInv, OpenInv, Held, HasFd, IsOpen
<1>11. RightFile' /\ TruncateInv'
  BY <1>1, <1>3 DEF OpInv, RightFile, TruncateInv, SameOp
<1>12. QED
  BY <1>8, <1>9, <1>10, <1>11 DEF OpInv

(* The steps of a write in progress: a step of its loop leaves the write going, and the end *)
(* ends it; descriptors keep their names.                                  *)
LEMMA WriteStep ==
  ASSUME IndInv, IndInv', WriteGoesOn
  PROVE  /\ Writing /\ SameFiles
         /\ call' = Idle \/ call' \in WriteCall
<1>1. call.step \in {"write", "new_table", "pointer", "table", "data"}
  BY DEF WriteGoesOn, FWriteDirect, FWriteIndirect, FWriteNewTable, FWritePointer, FWriteTable,
         FWriteData, FWriteEnd, InDirect, InIndirect, MoreToWrite
<1>2. Writing /\ call \in WriteCall /\ call.fd \in Slots
  <2>1. Writing
    BY <1>1, CallKinds DEF IndInv
  <2>2. QED
    BY <2>1 DEF Writing, WriteCall
<1>3. UNCHANGED dir_entry_arr
  BY DEF WriteGoesOn, FWriteDirect, FWriteIndirect, FWriteNewTable, FWritePointer, FWriteTable,
         FWriteData, FWriteEnd, Allocate
<1>4. SameFiles
  <2>1. CASE UNCHANGED file_descriptor_table
    BY <1>3, <2>1 DEF SameFiles
  <2>2. CASE \E d : file_descriptor_table'
                      = [file_descriptor_table EXCEPT ![call.fd].write_ptr = d]
    BY <1>2, <1>3, <2>2, PointersMove
  <2>3. CASE FWriteData
    BY <2>1, <2>2, <2>3 DEF FWriteData, Transfer
  <2>4. CASE WriteGoesOn /\ ~FWriteData
    BY <2>1, <2>4 DEF WriteGoesOn, FWriteDirect, FWriteIndirect, FWriteNewTable, FWritePointer,
                      FWriteTable, FWriteEnd, Allocate
  <2>5. QED
    BY <2>3, <2>4
<1>5. call' = Idle \/ call'.step \in {"write", "new_table", "pointer", "table", "data"}
  <2>1. CASE FWriteDirect \/ FWriteIndirect \/ FWritePointer
    BY <1>2, <2>1 DEF FWriteDirect, FWriteIndirect, FWritePointer, Allocate, Break, GoOn, WriteCall
  <2>2. CASE FWriteNewTable \/ FWriteTable \/ FWriteData \/ FWriteEnd
    BY <1>2, <2>2 DEF FWriteNewTable, FWriteTable, FWriteData, FWriteEnd, WriteTable, Transfer,
                      Break, WriteCall
  <2>3. QED
    BY <2>1, <2>2 DEF WriteGoesOn
<1>6. call' \in {Idle} \cup WriteCall \cup OpenCall \cup RemoveCall
  BY DEF IndInv, TypeOK
<1>7. call' = Idle \/ call' \in WriteCall
  BY <1>5, <1>6 DEF OpenCall, RemoveCall
<1>8. QED
  BY <1>2, <1>4, <1>7

LEMMA WriteTurnKeeps == ASSUME IndInv, IndInv', OpInv, WriteGoesOn, KeepFuse PROVE OpInv'
<1>1. Writing /\ SameFiles /\ (call' = Idle \/ call' \in WriteCall)
  BY WriteStep
<1>2. op.step = "fclose" /\ op.what = "write" /\ HasFd /\ op.path \in Names /\ op.fd \in Slots
  BY <1>1 DEF OpInv, StepsInv, HasFd
<1>3. op' = op /\ op \in OpType /\ UNCHANGED <<listVars, leaked>>
  BY DEF KeepFuse, fuseVars, OpInv, OpTypes, OpType
<1>4. OpTypes' /\ OpenInv' /\ RightFile' /\ ListInv'
  BY <1>1, <1>2, <1>3, SameFilesKeep DEF SameOp, HasFd
<1>5. call' \notin OpenCall
  BY <1>1 DEF Idle, WriteCall, OpenCall
<1>6. StepsInv'
  BY <1>1, <1>2, <1>3, <1>5 DEF StepsInv, HasFd, Writing
<1>7. QED
  BY <1>2, <1>3, <1>4, <1>6 DEF OpInv, TruncateInv

LEMMA SaveKeepsOp ==
  ASSUME IndInv, IndInv', OpInv, SaveDir \/ SaveInode \/ FRemoveEntry, KeepFuse
  PROVE  OpInv'
<1>1. /\ call \in OpenCall \cup RemoveCall /\ call.step # "idle" /\ ~Writing
      /\ UNCHANGED file_descriptor_table
      /\ \/ /\ UNCHANGED dir_entry_arr /\ ~Removing
            /\ \/ call' = [call EXCEPT !.step = "save_inode"]
               \/ call' = [call EXCEPT !.step = "save_bitmap"] /\ call.op = "open"
               \/ call' = Idle /\ call.op # "open"
         \/ /\ dir_entry_arr' = [dir_entry_arr EXCEPT ![call.entry] = NoEntry]
            /\ call' = [call EXCEPT !.step = "save_dir"] /\ call.op = "remove"
  <2>1. call.step \in {"save_dir", "save_inode", "save_bitmap"}
    BY DEF SaveDir, SaveInode, FRemoveEntry
  <2>2. call \in OpenCall \cup RemoveCall /\ ~Writing
    BY <2>1, CallKinds DEF IndInv
  <2>3. QED
    BY <2>1, <2>2 DEF SaveDir, SaveInode, FRemoveEntry, Removing
<1>2. op' = op /\ op \in OpType /\ UNCHANGED <<listVars, leaked>>
  BY DEF KeepFuse, fuseVars, OpInv, OpTypes, OpType
<1>3. ~HasFd /\ op.step # "getnextfilename" /\ call # Idle
  BY <1>1 DEF OpInv, StepsInv, Idle
<1>4. OpTypes' /\ OpenInv' /\ RightFile' /\ ListInv'
  BY <1>1, <1>2, <1>3, NoDescriptorKeeps DEF HasFd
<1>5. /\ call' \notin WriteCall
      /\ call' \in OpenCall <=> call \in OpenCall
      /\ call \in OpenCall => call'.name = call.name
  BY <1>1 DEF OpenCall, RemoveCall, WriteCall, Idle
<1>6. StepsInv'
  BY <1>2, <1>3, <1>5 DEF OpInv, StepsInv, HasFd, Writing
<1>7. TruncateInv'
  <2>1. SUFFICES ASSUME op.what = "truncate", op.step = "fopen"
                 PROVE  \E e \in Slots : e \notin Listed'
    BY <1>2, <1>3 DEF OpInv, TruncateInv, HasFd
  <2>2. CASE UNCHANGED dir_entry_arr /\ ~Removing
    BY <2>1, <2>2 DEF OpInv, TruncateInv, Listed
  <2>3. CASE dir_entry_arr' = [dir_entry_arr EXCEPT ![call.entry] = NoEntry]
    <3>1. call.entry \in Slots
      BY <1>1 DEF OpenCall, RemoveCall
    <3>2. dir_entry_arr'[call.entry].inode_index = NULL
      BY <2>3, <3>1 DEF IndInv, TypeOK, NoEntry
    <3>3. QED
      BY <3>1, <3>2 DEF Listed
  <2>4. QED
    BY <1>1, <2>2, <2>3
<1>8. QED
  BY <1>4, <1>6, <1>7 DEF OpInv

LEMMA FuseStepKeeps == ASSUME IndInv, OpInv, [FuseNext]_allVars PROVE IndInv' /\ OpInv'
<1>1. CASE FuseNext
  <2>1. IndInv'
    BY <1>1, FuseStepIsStep, StepKeeps DEF Kept
  <2>2. CASE Request
    BY <2>1, <2>2, RequestKeeps
  <2>3. CASE FopenFound \/ FopenExisting \/ FopenNew \/ FopenNewEnd \/ FopenFails
    BY <2>1, <2>3, FopenFoundKeeps, FopenEndsKeep, FopenNewKeepsOp, FopenFailsKeeps
  <2>4. CASE Frseek \/ Fwseek \/ Fread \/ Fwrite \/ Fclose
    BY <2>1, <2>4, SeekKeeps, FreadKeeps, FwriteStarts, FcloseKeeps
  <2>5. CASE Unlink \/ Truncate \/ Readdir
    BY <2>1, <2>5, Remove1Keeps, ReaddirKeeps
  <2>6. CASE Continue
    BY <2>1, <2>6, WriteTurnKeeps, SaveKeepsOp DEF Continue, WriteGoesOn
  <2>7. QED
    BY <1>1, <2>2, <2>3, <2>4, <2>5, <2>6 DEF FuseNext, Operation
<1>2. CASE UNCHANGED allVars
  <2>1. UNCHANGED vars /\ UNCHANGED <<dir_curr, returned, op, leaked, handles>>
    BY <1>2 DEF allVars, listVars, fuseVars
  <2>2. IndInv'
    BY <2>1, StepKeeps DEF Kept
  <2>3. UNCHANGED <<inode_arr, dir_entry_arr, file_descriptor_table, bitmap, disk_inodes,
                    disk_blocks, disk_bitmap, call>>
    BY <2>1 DEF vars, disk
  <2>4. OpTypes' /\ StepsInv' /\ OpenInv'
    BY <2>1, <2>3 DEF OpInv, OpTypes, StepsInv, OpenInv, HasFd, Held, IsOpen, Writing
  <2>5. RightFile' /\ ListInv'
    BY <2>1, <2>3 DEF OpInv, RightFile, ListInv, Listed, IsOpen
  <2>6. TruncateInv'
    BY <2>1, <2>3 DEF OpInv, TruncateInv, Removing, Listed, Found, sfs_getfilesize,
                      find_dir_index_by_fname, find_free_inode
  <2>7. QED
    BY <2>2, <2>4, <2>5, <2>6 DEF OpInv
<1>3. QED
  BY <1>1, <1>2

(* Paths that have been opened are names. *)
LEMMA HandlesKeep ==
  ASSUME IndInv, OpInv, handles \subseteq Names, [FuseNext]_allVars PROVE handles' \subseteq Names
<1>1. CASE FopenFound \/ FopenExisting \/ FopenNewEnd
  <2>1. PICK f : Opened(f)
    BY <1>1 DEF FopenFound, FopenExisting, FopenNewEnd
  <2>2. op.path \in Names
    BY <1>1 DEF FopenFound, FopenExisting, FopenNewEnd, OpInv, StepsInv
  <2>3. QED
    BY <2>1, <2>2 DEF Opened
<1>2. CASE UNCHANGED handles
  BY <1>2
<1>3. CASE Request \/ FopenNew \/ FopenFails \/ Frseek \/ Fwseek \/ Fread \/ Fwrite \/ Fclose
  BY <1>2, <1>3 DEF Request, Ask, FopenNew, FopenFails, Frseek, Fwseek, SeekFails, Fread, Fwrite,
                    Fclose
<1>4. CASE Unlink \/ Truncate \/ Readdir \/ Continue \/ UNCHANGED allVars
  BY <1>2, <1>4 DEF Unlink, Truncate, Remove1, Readdir, Continue, KeepFuse, fuseVars, allVars
<1>5. QED
  BY <1>1, <1>3, <1>4 DEF FuseNext, Operation

LEMMA FuseInitEstablishes == FuseInit => IndInv /\ OpInv /\ handles = {}
<1> SUFFICES ASSUME FuseInit PROVE IndInv /\ OpInv /\ handles = {}
  OBVIOUS
<1>1. IndInv /\ call = Idle
  BY InitEstablishes DEF FuseInit, Init
<1>2. /\ op.what = "none" /\ op.path = 0 /\ op.step = "none" /\ op.fd = NULL /\ op \in OpType
      /\ leaked = {} /\ dir_curr = 0 /\ returned = {}
  BY DEF FuseInit, ListInit, OpType
<1>3. OpTypes
  BY <1>2, Sizes DEF OpTypes, OpType
<1>4. StepsInv
  BY <1>1, <1>2, NoCall DEF StepsInv, HasFd, Writing
<1>5. OpenInv
  <2>1. file_descriptor_table = [f \in Slots |-> NoFile]
    BY DEF FuseInit, Init
  <2>2. \A f \in Slots : ~IsOpen(f) /\ file_descriptor_table[f].fname = 0
    BY <2>1 DEF IsOpen, NoFile
  <2>3. QED
    BY <1>2, <2>2 DEF OpenInv, Held, HasFd
<1>6. RightFile /\ TruncateInv
  BY <1>2 DEF RightFile, TruncateInv
<1>7. ListInv
  <2>1. \A e \in Slots : ~(e < 0)
    BY Sizes
  <2>2. QED
    BY <1>2, <2>1 DEF ListInv, Listed
<1>8. QED
  BY <1>1, <1>3, <1>4, <1>5, <1>6, <1>7 DEF OpInv, FuseInit

-----------------------------------------------------------------------------
(* What holds of every sequence of operations that the kernel may ask for.  *)
THEOREM FuseInvariance == FuseSpec => []FuseInv
<1>1. FuseInit => FuseInv
  BY FuseInitEstablishes, FuseInvIs
<1>2. FuseInv /\ [FuseNext]_allVars => FuseInv'
  <2>1. SUFFICES ASSUME FuseInv, [FuseNext]_allVars PROVE FuseInv'
    OBVIOUS
  <2>2. IndInv' /\ OpInv' /\ handles' \subseteq Names
    BY <2>1, FuseInvIs, FuseStepKeeps, HandlesKeep
  <2>3. QED
    BY <2>2 DEF FuseInv, OpInv, OpTypes, FuseTypeOK, IndInv
<1>3. QED
  BY <1>1, <1>2, PTL DEF FuseSpec

(* Between operations the descriptors open are those that fuse_read() and   *)
(* fuse_write() did not close when a seek failed, and no others.            *)
THEOREM Leaks == FuseSpec => []OnlyFailedSeeksLeak
<1>1. FuseInv => OnlyFailedSeeksLeak
  <2>1. SUFFICES ASSUME FuseInv, op.step = "none" PROVE {f \in Slots : IsOpen(f)} = leaked
    BY DEF OnlyFailedSeeksLeak, Returned
  <2>2. Held = {}
    BY <2>1 DEF Held, HasFd
  <2>3. QED
    BY <2>1, <2>2 DEF FuseInv, OpenInv
<1>2. QED
  BY <1>1, FuseInvariance, PTL

(* An operation reads, writes and closes the file that its path names, but  *)
(* for the descriptors so left open.                                        *)
THEOREM WorksOnItsFile == FuseSpec => []RightFile
<1>1. FuseInv => RightFile
  BY DEF FuseInv
<1>2. QED
  BY <1>1, FuseInvariance, PTL

(* A file that fuse_truncate() has removed is there again when it returns,  *)
(* if there was an inode and a block for it.                                *)
THEOREM Truncation == FuseSpec => []TruncatedFileRemains
<1>1. FuseInv => TruncatedFileRemains
  BY DEF FuseInv, TruncateInv, TruncatedFileRemains, Returned
<1>2. QED
  BY <1>1, FuseInvariance, PTL

(* The first listing that comes to the end has returned every file there    *)
(* then is: the entries in use are all within its bound.                    *)
THEOREM FirstListing == FuseSpec => FirstListingIsComplete
<1>1. FuseInv /\ [FuseNext]_allVars =>
        [NoFilename /\ dir_curr < num_inode_blocks =>
           {dir_entry_arr[e].inode_index : e \in Listed} \subseteq returned]_<<vars, listVars>>
  <2>1. SUFFICES ASSUME FuseInv, NextListed = NULL, dir_curr < num_inode_blocks,
                        NEW e \in Listed
                 PROVE  dir_entry_arr[e].inode_index \in returned
    BY DEF NoFilename
  <2> DEFINE S == {x \in Slots : x >= dir_curr /\ x < num_inode_blocks
                                 /\ dir_entry_arr[x].inode_index # NULL}
  <2>2. S \in SUBSET Nat /\ First(S) = NULL
    BY <2>1, Sizes DEF NextListed
  <2>3. S = {}
    BY <2>2, FirstFinds
  <2>4. e \in Slots /\ e \in Nat /\ dir_entry_arr[e].inode_index # NULL
    BY Sizes DEF Listed
  <2>5. e < num_inode_blocks
    <3>1. e \div DIR_ENTRIES_PER_BLOCK \in Direct
      BY <2>1, <2>4 DEF FuseInv, IndInv, DirectoryInv
    <3>2. e < NUM_DATA_BLOCKS_PER_INODE * DIR_ENTRIES_PER_BLOCK
      <4>1. e \div DIR_ENTRIES_PER_BLOCK < NUM_DATA_BLOCKS_PER_INODE
        BY <3>1, Sizes DEF Direct
      <4>2. QED
        BY <2>4, <4>1, Sizes, DivBelow
    <3>3. NUM_DATA_BLOCKS_PER_INODE * DIR_ENTRIES_PER_BLOCK \in Nat /\ num_inode_blocks \in Nat
      BY Sizes, ListingAssumption
    <3>4. QED
      BY <2>4, <3>2, <3>3, ListingAssumption
  <2>6. e < dir_curr
    <3>1. dir_curr \in Nat
      BY <2>1, Sizes DEF FuseInv, FuseTypeOK
    <3>2. QED
      BY <2>3, <2>4, <2>5, <3>1
  <2>7. QED
    BY <2>1, <2>6 DEF FuseInv, ListInv
<1>2. QED
  BY <1>1, FuseInvariance, PTL DEF FuseSpec, FirstListingIsComplete

=============================================================================
