------------------------------ MODULE SFSRestart ------------------------------
(***************************************************************************)
(* mksfs(0) on the disk of SimpleFileSystem: by the process that has been  *)
(* using it, as sfs_test2.c does, or by a new one after the old was killed *)
(* before, between or after the writes to the disk of any call; a table or *)
(* a run of blocks saved at once counts as one write.                      *)
(***************************************************************************)
EXTENDS SimpleFileSystem

CONSTANT LastInodes   \* those in the last block of the inode table, 4087 to 4095

ASSUME LastInodesAssumption == LastInodes \subseteq Inodes \ {ROOT}

(* load_save_dir(0): what the root's blocks hold.  The entries of a slice  *)
(* that has no block have only been marked free.                           *)
DirLoaded(dir) ==
  LET slice(e) == e \div DIR_ENTRIES_PER_BLOCK
      id(e) == IF slice(e) \in Direct THEN disk_inodes[ROOT].data_blocks[slice(e)].id
               ELSE NULL
      word(e) == disk_blocks[id(e)][ENTRY_SIZE * (e % DIR_ENTRIES_PER_BLOCK)]
  IN  [e \in Slots |-> IF id(e) = NULL THEN [dir[e] EXCEPT !.inode_index = NULL]
                       ELSE [inode_index |-> word(e).id, fname |-> word(e).end]]

(* mksfs(0), with the inodes it reads and with what it finds in the two    *)
(* tables it does not clear.                                               *)
mksfs(inodes, dir, fdt) ==
  /\ dir_entry_arr' = DirLoaded(dir)
  /\ file_descriptor_table' = [f \in Slots |-> [fdt[f] EXCEPT !.inode_index = NULL]]
  /\ inode_arr' = inodes
  /\ bitmap' = disk_bitmap
  /\ call' = Idle

Remount ==
  /\ call = Idle
  /\ mksfs(disk_inodes, dir_entry_arr, file_descriptor_table)
  /\ UNCHANGED disk

(* What sfs_fwrite writes to block NULL, contents or pointers, lies over   *)
(* the last inodes until it saves the inodes at its end; one word of it is *)
(* taken for all the fields of an inode.                                   *)
Garbage == {[file_size |-> w, file_end |-> w, link_count |-> w,
             data_blocks |-> [k \in Direct |-> Word(w, 0)],
             singly_indirect_ptr |-> Word(w, 0)] : w \in Data \cup {NULL}}

Restart ==
  /\ IF "over" \in DOMAIN call /\ call.over
       THEN \E garbage \in [LastInodes -> Garbage] :
              disk_inodes' = [j \in Inodes |-> IF j \in LastInodes THEN garbage[j]
                                                                   ELSE disk_inodes[j]]
       ELSE UNCHANGED disk_inodes
  /\ mksfs(disk_inodes', [e \in Slots |-> NoEntry], [f \in Slots |-> NoFile])
  /\ UNCHANGED <<disk_blocks, disk_bitmap>>

(* The process mounts the disk again, and is never killed. *)
RemountSpec == Init /\ [][Next \/ Remount]_vars

(* It may be killed after any write to the disk; its clients do not remove *)
(* files.  Bound: they do not come to use the last inodes.                 *)
GrowNext ==
  \/ Open /\ (\A j \in LastInodes : inode_arr'[j] = inode_arr[j])
  \/ Save \/ Use \/ Write \/ Remount \/ Restart
GrowSpec == Init /\ [][GrowNext]_vars

-----------------------------------------------------------------------------
(* The pointers of the inodes on the disk, except those that name block 0, *)
(* and except for the last inodes, of which a write that was cut off has   *)
(* left anything.                                                          *)
DiskPointers ==
  LET inodes == Inodes \ LastInodes
  IN  {<<j, k, disk_inodes[j].data_blocks[k].id>> : j \in inodes, k \in Direct}
        \cup {<<j, NULL, disk_inodes[j].singly_indirect_ptr.id>> : j \in inodes}
DiskOwned == {p \in DiskPointers : p[3] \in Blocks \ {0}}

(* Killed between any two writes, a process that creates and writes files  *)
(* never leaves a disk on which a block that one of these inodes names is  *)
(* free, or belongs to two: alloc_block() saves the bitmap before the inode *)
(* is saved.                                                               *)
DiskOwnedIsMarked == \A p \in DiskOwned : disk_bitmap[p[3]] = 1
DiskOneOwner      == \A p, q \in DiskOwned : p[3] = q[3] => p = q
AllocationOrder   == DiskOwnedIsMarked /\ DiskOneOwner

(* "Now we try to re-initialize the system." (sfs_test2.c:310-323): after  *)
(* mksfs(0) the files that were there are opened, and read.  Not so: the   *)
(* root's pointers that init_new_file() did not set make the last slice of *)
(* the directory overwrite the first.                                      *)
Named == {<<dir_entry_arr[e].fname, dir_entry_arr[e].inode_index>> : e \in Listed}
RemountKeepsFiles == [][Remount => Named' = Named]_vars
=============================================================================
