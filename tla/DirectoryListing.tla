--------------------------- MODULE DirectoryListing ---------------------------
(***************************************************************************)
(* sfs_getnextfilename() of file-system/sfs_api.c, called in between the   *)
(* calls that create and remove files.                                     *)
(***************************************************************************)
EXTENDS SimpleFileSystem

CONSTANT num_inode_blocks   \* of the inode table, which bounds the listing

(* They are 464, and the root's direct pointers lead to 384 entries.       *)
ASSUME ListingAssumption ==
  /\ num_inode_blocks \in 1 .. NUM_DATA_BLOCKS
  /\ num_inode_blocks >= NUM_DATA_BLOCKS_PER_INODE * DIR_ENTRIES_PER_BLOCK

VARIABLES
  dir_curr,     \* where the listing is: it is never set back
  returned      \* history: the files whose names have been returned

listVars == <<dir_curr, returned>>

ListInit == dir_curr = 0 /\ returned = {}

(* Mutant: an entry that a removal has left empty ends the listing. *)
ListedHere ==
  First({e \in Slots : e = dir_curr /\ e < num_inode_blocks
                       /\ dir_entry_arr[e].inode_index # NULL})

NextListed ==
  First({e \in Slots : e >= dir_curr /\ e < num_inode_blocks
                       /\ dir_entry_arr[e].inode_index # NULL})

(* Mutant: the listing stays where it is. *)
NameStays ==
  /\ NextListed # NULL
  /\ dir_curr' = NextListed
  /\ returned' = returned \cup {dir_entry_arr[NextListed].inode_index}

(* The next name, and 1. *)
NextFilename ==
  /\ NextListed # NULL
  /\ dir_curr' = NextListed + 1
  /\ returned' = returned \cup {dir_entry_arr[NextListed].inode_index}

(* 0: there is none. *)
NoFilename ==
  /\ NextListed = NULL
  /\ dir_curr' = Max({dir_curr, num_inode_blocks})
  /\ UNCHANGED returned

sfs_getnextfilename == call = Idle /\ (NextFilename \/ NoFilename) /\ UNCHANGED vars

-----------------------------------------------------------------------------
(* The listing that first comes to the end has returned every file there   *)
(* is, whatever gaps removals have left in the directory and whichever of  *)
(* them have been filled again.  Only the first: later ones find dir_curr  *)
(* at the end, and are empty.                                              *)
FirstListingIsComplete ==
  [][NoFilename /\ dir_curr < num_inode_blocks =>
       {dir_entry_arr[e].inode_index : e \in Listed} \subseteq returned]_<<vars, listVars>>
=============================================================================
