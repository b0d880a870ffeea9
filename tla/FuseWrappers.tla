----------------------------- MODULE FuseWrappers -----------------------------
(***************************************************************************)
(* file-system/fuse_wrappers.c: each FUSE operation is a sequence of       *)
(* library calls on one path.  It is modelled as it would run with the two *)
(* functions it misnames called by their names, and with one thread (-s):  *)
(* with more, calls of a library without locks run into each other, which  *)
(* is undefined.                                                           *)
(*                                                                         *)
(* op.step is the library call that op makes next; where it is none the    *)
(* last call may still be in progress.                                     *)
(***************************************************************************)
EXTENDS DirectoryListing

VARIABLES
  op,       \* the operation in progress, or the last
  leaked,   \* history: descriptors that an operation returned without closing
  handles   \* history: paths that have been opened, and may be held open still

fuseVars == <<op, leaked, handles>>
allVars  == <<vars, listVars, fuseVars>>

KeepFuse == UNCHANGED <<listVars, fuseVars>>
Returned == op.step = "none" /\ call = Idle

sfs_getfilesize(n) ==
  LET e == find_dir_index_by_fname(n)
  IN  IF e = NULL THEN -1 ELSE inode_arr[dir_entry_arr[e].inode_index].file_size

(* fuse_getattr(), by which the kernel looks a path up before it asks for  *)
(* an operation on it.  To read and write through a handle it does not.    *)
Found(n) == sfs_getfilesize(n) # -1

FuseInit ==
  /\ Init /\ ListInit
  /\ op = [what |-> "none", path |-> 0, step |-> "none", fd |-> NULL]
  /\ leaked = {} /\ handles = {}

Ask(what, n, step) ==
  /\ Returned
  /\ op' = [what |-> what, path |-> n, step |-> step, fd |-> NULL]
  /\ UNCHANGED <<vars, listVars, leaked, handles>>

Request ==
  \/ \E n \in Names :
       \/ Found(n) /\ Ask("open", n, "fopen")
       \/ \E what \in {"read", "write"} : n \in handles /\ Ask(what, n, "fopen")
       \/ \E what \in {"unlink", "truncate"} : Found(n) /\ Ask(what, n, "remove")
       \/ ~Found(n) /\ Ask("create", n, "fopen")
  \/ Ask("readdir", 0, "getnextfilename")

-----------------------------------------------------------------------------
Step(here, next) == op.step = here /\ call = Idle /\ op' = [op EXCEPT !.step = next]

(* What comes after sfs_fopen(). *)
Opened(f) ==
  /\ op' = [op EXCEPT !.fd = f, !.step = IF f = NULL THEN "none"
                                         ELSE IF op.what \in {"read", "write"} THEN "seek"
                                         ELSE "fclose"]
  /\ handles' = handles \cup (IF f # NULL /\ op.what \in {"open", "create"}
                                THEN {op.path} ELSE {})

(* The descriptor that a call of sfs_fopen finds by its name ... *)
FopenFound ==
  /\ op.step = "fopen" /\ call = Idle
  /\ find_dir_index_by_fname(op.path) # NULL
  /\ \E f \in Slots : file_descriptor_table[f].fname = op.path /\ Opened(f)
  /\ UNCHANGED <<vars, listVars, leaked>>
(* ... or takes for a file that is there ... *)
FopenExisting ==
  /\ op.step = "fopen"
  /\ FOpenExisting(op.path) /\ Opened(find_free_fdt_entry)
  /\ UNCHANGED <<listVars, leaked>>
(* ... or for one that it creates, in several steps ... *)
FopenNew ==
  /\ op.step = "fopen"
  /\ FOpenNew(op.path)
  /\ op' = [op EXCEPT !.step = IF call' = Idle THEN "none" ELSE "opening"]
  /\ UNCHANGED <<listVars, leaked, handles>>
FopenNewEnd ==
  /\ op.step = "opening"
  /\ FOpenEnd /\ Opened(find_free_fdt_entry)
  /\ UNCHANGED <<listVars, leaked>>
(* ... or cannot.                                                          *)
FopenFails ==
  /\ Step("fopen", "none")
  /\ find_dir_index_by_fname(op.path) = NULL /\ NULL \in {find_free_dir_entry, find_free_inode}
  /\ UNCHANGED <<vars, listVars, leaked, handles>>

(* A seek that fails returns from fuse_read() or fuse_write() at once.     *)
SeekFails(bad) ==
  /\ Step("seek", "none") /\ bad
  /\ leaked' = leaked \cup {op.fd}
  /\ UNCHANGED <<vars, listVars, handles>>
Frseek ==
  /\ op.what = "read"
  /\ \E loc \in ReadSeeks :
       \/ Step("seek", "fread") /\ FRSeek(op.fd, loc) /\ UNCHANGED <<listVars, leaked, handles>>
       \/ SeekFails(loc > InodeOf(op.fd).file_end)
Fwseek ==
  /\ op.what = "write"
  /\ \E loc \in WriteSeeks :
       \/ Step("seek", "fwrite") /\ FWSeek(op.fd, loc) /\ UNCHANGED <<listVars, leaked, handles>>
       \/ SeekFails(loc > MaxOffset)

Fread ==
  /\ Step("fread", "fclose")
  /\ \/ \E length \in Reads : FRead(op.fd, length)
     \/ file_descriptor_table[op.fd].read_ptr >= InodeOf(op.fd).file_end /\ UNCHANGED vars
  /\ UNCHANGED <<listVars, leaked, handles>>
Fwrite ==
  /\ Step("fwrite", "fclose")
  /\ \E d \in Data, length \in Writes : FWrite(op.fd, d, length)
  /\ UNCHANGED <<listVars, leaked, handles>>

(* Mutant: fuse_open() does not close. *)
FcloseForgotten ==
  /\ Step("fclose", "none")
  /\ IF op.what = "open" THEN UNCHANGED <<vars, leaked>>
     ELSE FClose(op.fd) /\ leaked' = leaked \ {op.fd}
  /\ UNCHANGED <<listVars, handles>>
Fclose ==
  /\ Step("fclose", "none")
  /\ FClose(op.fd) /\ leaked' = leaked \ {op.fd}
  /\ UNCHANGED <<listVars, handles>>

Remove1(what, next) ==
  /\ op.what = what /\ Step("remove", next)
  /\ FRemove(op.path)
  /\ UNCHANGED <<listVars, leaked, handles>>
Unlink == Remove1("unlink", "none")

(* Mutant: fuse_truncate() only removes. *)
RemoveOnly == Remove1("truncate", "none")
(* fuse_truncate() goes on to create the file. *)
Truncate == Remove1("truncate", "fopen")

(* fuse_readdir() *)
Readdir ==
  /\ Step("getnextfilename", IF NextListed = NULL THEN "none" ELSE "getnextfilename")
  /\ sfs_getnextfilename
  /\ UNCHANGED <<leaked, handles>>

(* A call in progress goes on. *)
Continue ==
  /\ \/ SaveDir \/ SaveInode \/ FRemoveEntry
     \/ FWriteDirect \/ FWriteIndirect \/ FWriteNewTable \/ FWritePointer
     \/ FWriteTable \/ FWriteData \/ FWriteEnd
  /\ KeepFuse

Operation ==
  \/ FopenFound \/ FopenExisting \/ FopenNew \/ FopenNewEnd \/ FopenFails
  \/ Frseek \/ Fwseek \/ Fread \/ Fwrite \/ Fclose
  \/ Unlink \/ Truncate \/ Readdir \/ Continue

FuseNext == Request \/ Operation

(* The thread runs; the kernel may ask for nothing more. *)
FuseSpec == FuseInit /\ [][FuseNext]_allVars /\ WF_allVars(Operation)

-----------------------------------------------------------------------------
FuseTypeOK ==
  /\ TypeOK
  /\ dir_curr \in 0 .. NUM_DATA_BLOCKS /\ returned \subseteq Inodes
  /\ op \in [what : {"none", "open", "read", "write", "unlink", "truncate", "create", "readdir"},
             path : Names \cup {0}, fd : Slots \cup {NULL},
             step : {"none", "fopen", "opening", "seek", "fread", "fwrite", "fclose", "remove",
                     "getnextfilename"}]
  /\ leaked \subseteq Slots /\ handles \subseteq Names

(* Between operations the only descriptors open are those that fuse_read() *)
(* and fuse_write() have left so when a seek failed.                       *)
OnlyFailedSeeksLeak == Returned => {f \in Slots : IsOpen(f)} = leaked

(* An operation works on the file that its path names, across any sequence *)
(* of creations, removals and truncations, unless sfs_fopen() has found it *)
(* a descriptor that was left open.                                        *)
RightFile ==
  op.step \in {"seek", "fread", "fwrite", "fclose"} =>
    /\ IsOpen(op.fd)
    /\ \/ op.fd \in leaked
       \/ \E e \in Listed : /\ dir_entry_arr[e].fname = op.path
                            /\ dir_entry_arr[e].inode_index
                                 = file_descriptor_table[op.fd].inode_index

(* Truncation removes the file and creates it anew: it is still there      *)
(* afterwards, unless inodes, which are never given back, have run out, or *)
(* the disk is full.                                                       *)
TruncatedFileRemains ==
  Returned /\ op.what = "truncate" =>
    \/ Found(op.path)
    \/ find_free_inode = NULL
    \/ FreeBlock(disk_bitmap) = NULL

(* Every operation returns: fuse_readdir() comes to an end of the names,   *)
(* and sfs_fwrite(), called in the middle, of its loop.                    *)
OperationsReturn == ~Returned ~> Returned

-----------------------------------------------------------------------------
(* What else holds in every state, from which the properties follow.       *)

(* The descriptor that the operation has, until it closes it. *)
HasFd == op.step \in {"seek", "fread", "fwrite", "fclose"}
Held  == IF HasFd THEN {op.fd} ELSE {}

(* Which call of the library may be in progress where in an operation.     *)
StepsInv ==
  /\ HasFd => op.fd \in Slots /\ (call = Idle \/ Writing)
  /\ Writing => op.step = "fclose" /\ op.what = "write"
  /\ call \in OpenCall => op.step = "opening"
  /\ op.step = "opening" => call \in OpenCall /\ call.name = op.path
  /\ op.step = "getnextfilename" => call = Idle
  /\ op.step = "fwrite" => op.what = "write"
  /\ HasFd \/ op.step \in {"fopen", "opening", "remove"} => op.path \in Names

(* Descriptors that are not open have no name, by which they would be      *)
(* found; those that are open have been left so, but for the one in use.   *)
OpenInv ==
  /\ \A f \in Slots : ~IsOpen(f) => file_descriptor_table[f].fname = 0
  /\ {f \in Slots : IsOpen(f)} = leaked \cup Held

(* Truncation: the entry that is needed to create the file again is free.  *)
TruncateInv ==
  op.what = "truncate" =>
    /\ op.step \in {"remove", "fopen", "opening", "fclose", "none"}
    /\ op.step = "fopen" => Removing \/ \E e \in Slots : e \notin Listed
    /\ op.step = "fclose" => Found(op.path)
    /\ op.step = "none" => call = Idle /\ ( \/ Found(op.path)
                                            \/ find_free_inode = NULL
                                            \/ FreeBlock(disk_bitmap) = NULL )

(* The first listing has returned what it has passed. *)
ListInv ==
  dir_curr < num_inode_blocks =>
    /\ dir_curr = 0 \/ op.step = "getnextfilename"
    /\ \A e \in Listed : e < dir_curr => dir_entry_arr[e].inode_index \in returned

FuseInv ==
  /\ IndInv /\ FuseTypeOK /\ StepsInv /\ OpenInv /\ RightFile /\ TruncateInv /\ ListInv
=============================================================================
