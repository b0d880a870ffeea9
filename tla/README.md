# Models of the COMP 310 programs

TLA+ modules, TLC runs and TLAPS proofs about the three programs of this
repository: the two readers-writers programs (`readers-writers/`), the simple
file system on an emulated disk (`file-system/`) and the tiny shell
(`tiny-shell/`). All three are modelled and model-checked, and of all three
every safety and action property that a passing run checks is also proved, for
any values of the constants and under the same conditions on clients as in the run
(section 3). `PROJECT.json` lists the runs, the mutants that each
property catches, the lines each definition translates, the hazards and the
theorems.

    tlc -config MCReadersPreference.cfg MCReadersPreference.tla
    tlapm ReadersPreference_proofs.tla

## 1. Inventory

### Readers-writers with readers' preference: `readers-writers/A2Q1.c`

- State: semaphores `mutex` and `rw_mutex`; `read_count`; `shared_int`; the
  sums and extremes of the measured waits; in each thread `i`, `temp`,
  `time_count`.
- Operations: `reader()` (500 threads), `writer()` (10 threads), `main()`,
  which starts them, joins them and prints the averages.
- Interaction: only through memory and the two semaphores. `rw_mutex` is taken
  by the first reader of a group and posted by the last, who may be another.
- Hard: every interleaving of 510 threads; the handover above; `temp` is never
  initialised; sums that are loaded, added to and stored.
- Correct when: a writer is alone; `read_count` and the sums lose no update;
  every thread gets through.

### Readers-writers with a queue: `readers-writers/A2Q3.c`

- The same with a third semaphore, `queue_mutex`, held by a reader while it
  comes in and by a writer until it has written. The readers' sums are now
  added to with no semaphore held.
- Hard: three nested semaphores, taken in one order and given back in another;
  what order `queue_mutex` admits threads in.
- Correct when: as above, and readers cannot pass a writer whose turn it is.

### Simple file system: `file-system/sfs_api.c`, `sfs_api.h`

- State: `inode_arr`, `dir_entry_arr`, `file_descriptor_table`, `bitmap`, each
  of 4096 entries, `dir_curr`, and on the disk the superblock, the inodes, 4096
  blocks and the bitmap.
- Operations: `mksfs(1)`, `mksfs(0)`, `sfs_fopen` (which creates), `sfs_fclose`,
  `sfs_frseek`, `sfs_fwseek`, `sfs_fread`, `sfs_fwrite`, `sfs_remove`,
  `sfs_getfilesize`, `sfs_getnextfilename`.
- Interaction: each call changes the tables in memory and saves some of them
  through `load_save_*` and `alloc_block()`, which reads the bitmap back first.
- Hard: names used again while descriptors are open; a full disk in the middle
  of a call; copies of inodes and pointers that go stale in the same call;
  pointers that are never set; a kill between two writes to the disk; `mksfs(0)`.
- Correct when: a block has one owner and is marked; a file has one descriptor;
  memory and disk agree between calls; what is written is read back; files
  survive `mksfs(0)`.

### Disk emulator: `file-system/disk_emu.c`

- State: the file that holds the blocks. Operations: `init_fresh_disk` (zeros),
  `init_disk`, `read_blocks`, `write_blocks`, which refuse blocks past the end
  and flush each block. The latency and failure parameters have no effect.

### FUSE wrappers: `file-system/fuse_wrappers.c`

- No state; each FUSE operation is a sequence of library calls on one path.
  `fuse_main` runs them on several threads, unless it is told `-s`, and the
  library has no lock.
- Hard: what an earlier operation left behind -- an open descriptor, `dir_curr`, an
  inode lost -- meets a later one on the same name.
- Correct when: an operation leaves no descriptor behind, works on the file its
  path names, and returns; truncation does not lose the file. (The file does not build against `sfs_api.h`: it calls
  `sfs_GetFileSize` and `sfs_get_next_filename`.)

### Tiny shell: `tiny-shell/tiny_shell.c`

- State: the ring `HISTORY` and `HIST_COUNT`; `line` and `args`, which persist
  from one command to the next; `FIFO_PATH`; the jump buffer; its children and
  open descriptors.
- Operations: the command loop (`main`, `parse_line`, `record_history`,
  `shell_system`), `print_history`, `run_pipe` (a child, a grandchild, a pipe and
  a FIFO), `handle_sigint` (which jumps back into the loop), `chdir`, `limit`.
- Interaction: the terminal's signals go to the shell and to all its processes;
  the two processes of a pipe and the shell wait for each other around a pipe and
  a FIFO, and all pipes share the FIFO.
- Hard: `args` is cleared for 15 of its 120 pointers, and not at all after
  SIGINT; a signal during `fork` or `waitpid`, in the shell or in a process that
  still runs the shell's code; waiting for a process that is not a child; a
  descriptor leaked per pipe; the wrap of the ring.
- Correct when: a command gets its own words; `history` prints the last 100
  lines; the shell comes back from every command, and only when its processes have
  ended; a pipe joins two programs of one line.

## 2. Modules

| module | of | what |
|---|---|---|
| `RWLock` | — | abstract: a lock that readers share and a writer has alone, over one value |
| `ReadersWriters` | A2Q1.c, A2Q3.c | the statements the two programs are made of |
| `ReadersPreference` | A2Q1.c | its threads, its properties, its inductive invariant |
| `QueuedReadersWriters` | A2Q3.c | likewise, with `queue_mutex` |
| `FileTable` | — | abstract: names, files and descriptors, contents apart, as the comments have it: removal closes |
| `SimpleFileSystem` | sfs_api.c, disk_emu.c | every call but the listing, on a disk of blocks of words |
| `SFSRestart` | sfs_api.c | `mksfs(0)`, and kills between any two writes to the disk |
| `DirectoryListing` | sfs_api.c | `sfs_getnextfilename()`, over `SimpleFileSystem` |
| `FuseWrappers` | fuse_wrappers.c | the FUSE operations, as sequences of the calls of the two modules above |
| `CommandLine` | tiny_shell.c | what the shell keeps of the lines it reads: `line`, `args`, the ring |
| `TinyShell` | tiny_shell.c | the loop, the processes, the pipe and the FIFO, the signals, over `CommandLine` |
| `MC...` | | the sets of threads, and the lines typed, for TLC |
| `..._proofs` | | the theorems about the module they are named after |
| `SimpleFileSystem_refinement` | | the theorem that `SimpleFileSystem` implements `FileTable` |
| `NumberTheorems` | — | facts about naturals that several proofs use |

### Threads

A statement is one action: one semaphore call, or one access to a variable
other threads use. `pc[t]` is the statement thread `t` is at. Statements that
stand next to each other and touch nothing shared are one action with their
neighbour. `read_count++; if (read_count == 1)` is one action because `mutex` is
held across it, which `MutexGuardsCount` checks; `total += time_count` is two,
a load into `reg` and a store, because A2Q3.c holds nothing across it. `int` is
`0 .. IntSize - 1` and wraps. `temp` starts with any value. A measured wait
counts 1, so that a sum is the number of waits in it. The sleeps, the clock and
the extremes are left out (the extremes would go wrong where the sums do).

### File system

A block is a row of words of the size of a `block_ptr`; a word is the pair of
ints it holds, whatever it is read as, because the program does read directory
entries and contents as pointers. Names and contents are ints. `inode_arr`,
`dir_entry_arr`, `file_descriptor_table` and `bitmap` have the source's names,
and the disk is `disk_inodes`, `disk_blocks` and `disk_bitmap`.

`sfs_fopen` (of a new file), `sfs_fwrite` and `sfs_remove` are an action up to each
write to the disk, so that a kill can come between any two; `call` is where the
call in progress is. A table that `load_save_*` writes at once, and the blocks that
`sfs_remove` zeroes in a row, count as one write. A turn of the loop of
`sfs_fwrite` has up to five: the bitmap with the block for the table of pointers
(`FWriteIndirect`), the new table (`FWriteNewTable`), the bitmap with the block for
the data (`FWritePointer`, or `FWriteDirect`), the table (`FWriteTable`) and the data
(`FWriteData`). The library has one thread, so that no other call starts meanwhile.
`sfs_fclose`, the seeks and `sfs_fread` are one action each. Calls that fail and
change nothing are no action.

block_id -1 addresses the last block of the inode table. What `sfs_fwrite` writes
there lies over the last nine inodes until it saves the inodes at its end.
`call.over` says that it does, and a kill then (`Restart` in `SFSRestart`) leaves
garbage for the inodes `LastInodes`. In a process that is not killed the save
repairs it, and nothing reads it before.

What the model keeps of the program, for it matters: `memcpy` of half the
pointers (`init_new_file`), the last slice of the directory that wins when
pointers name one block (`DirSaved`), the stale copy in `sfs_fwrite`
(`call.inode`), the inode that `sfs_remove` does not reset, the blocks taken
again and again for the table of indirect pointers, contents that are read as such
a table, and addresses that the disk refuses (`OnDisk`).

`FileTable` is what the comments say of names and descriptors; the program's
`sfs_remove` leaves the descriptor, so that it implements `FileTable` only for
clients that close first (`ClosedSpec`), which is a theorem; `sfs_table` is the run
for those that do not.

### FUSE

`op` is the operation in progress and `op.step` the library call it makes next;
the calls are the actions of `SimpleFileSystem`, and what is left of a call that
takes several steps is `Continue`. A request reaches an operation only if the
kernel has found the path with `fuse_getattr` (`create` only if it has not), but a
read or a write goes through a handle already open and is not preceded by a look-up:
`sfs_fopen` then makes a file anew that has been removed. `handles` is a history
variable, the paths opened so far, any of which may be held open.
`sfs_fopen` has five outcomes, `Fopen...`. `leaked` is a history variable: the
descriptors that `fuse_read` and `fuse_write` left open. `fuse_mknod` and
`fuse_access` do nothing.

### Shell

`args` holds for each pointer only whether it is NULL, points to a word of the
line read last (`"own"`), to where an earlier line had one (`"stale"`, which may
read as anything), or is one of the uninitialised ones (`"wild"`). A line is a
sequence of words; `"ls"` is any program. HISTORY and the ghost `typed` hold the
numbers of lines. `record_history` is two actions (`Record`, `Count`), and
`parse_line` (`Parse`) the next, for ^C may come between.

`shell` is the statement the shell is at, `proc[p]` that of process `p`. What is
shared between processes is `writers` (who has the pipe open for writing, which
decides when `fscanf` sees the end), `told` (what went through it) and `fifo` (who
has the FIFO open); `open` of a FIFO waits for any partner. ^C puts the shell and
all processes into `pending`, and each takes it before its next step: a program
dies or ignores it; code of the shell, also in a process that has not come to its
`execvp`, asks on the terminal and exits or goes back to the loop. ^C comes between
any two actions, of which there is one for each statement that changes what is
modelled: `run_pipe` is mkfifo and `args[pipe_index] = NULL` (`RunPipe`), `pipe`
(`Pipe`), `fork` (`ForkIn`), `close`, `fscanf` and the two `waitpid`. `memset` and
`parse_line` are not divided. `left` is a
history variable: the processes the shell jumped away from with `siglongjmp`.
`pid_out_cp`, if no pid has come through the pipe, is that of any child, for which
`waitpid` may wait. A FIFO_PATH that `mkfifo` can make no FIFO of is `"other"`: there
is no rendezvous, whether `open` gives a plain file or fails (`OpenOther`).

## 3. Runs

All bounds are in the `.cfg` files. Expected to pass:

| run | bound | shows |
|---|---|---|
| `q1` | 2 readers × 2 reads, 2 writers × 1, int of 2 values | exclusion, exact counts, complete averages; `RWLock` is implemented; main returns; the invariant the proofs use |
| `q3` | the same | as above; the first reader never sleeps on `rw_mutex`; no reader passes a writer |
| `sfs_blocks` | 2 names, 4 blocks of 2 words, files of up to 12 words, seeks to the beginning and past the end, contents that name no block | one descriptor per file, whose `read_ptr` stays in it; agreement of memory and disk, with a disk that fills up in a write and in a creation; a block has one owner, is marked, and is released with its owner only |
| `sfs_crash` | 2 names, 5 blocks, a kill between any two writes, or `mksfs(0)` | used blocks are marked on the disk and have one owner |
| `fuse` | 2 names, 4 blocks of 2 words, writes of 5, contents that name a block | an operation leaves open only a descriptor whose seek failed, works on the file of its path, and returns; truncation keeps a file unless inodes or blocks have run out; the first listing is complete |
| `shell` | 3 lines, 4 processes, one ^C or ^Z, a ring of 2 lines, 4 pointers of which 3 are cleared | the ring; the words of short lines; nothing runs at the prompt; pipes do not mix; one descriptor lost per pipe, and two more per ^C; what the shell crashes of; it comes back |

`IndInv` and `FuseInv`, which the runs check too, are the invariants of the proofs
(section 4); they contain those named properties that are inductive with them.

With two readers the one that comes in first need not be the one that goes out
last, and two reads let a reader come back while the group it left is inside; two
writers are needed to compete. The proofs (section 4) are for any number. A file
has 2, 3 or 4 direct pointers, half of which (rounded down) `init_new_file` sets, as 6 of 12;
`BLOCK_SIZE` indirect ones follow. The disks are so small that they fill up.
`sfs_blocks` and `fuse` have two inodes for two names, and none is ever given back, so
that they run out: a name can be used again once, over a descriptor left behind.
With four direct pointers the root has two that are NULL, so that in `sfs_blocks` a
creation may find the disk full. In `fuse` seeks go to the beginning, behind the first word (past the end of an
empty file) and past the largest file. A disk of five blocks, with a third inode, does
not finish in minutes in either.

In `shell` three lines let the ring of two wrap and let a pipe follow one that ^C
has interrupted; two pipes take four processes and four descriptors; lines have up
to as many words as `memset` clears. One signal can come before, in and after each
of the statements. Larger instances (four lines, two signals) do not finish in
minutes.

What blocks hold matters to ownership. The table of indirect pointers is written
to block_id -1, and its block holds what was in it: zeros, directory entries, or
contents that were written through the descriptor of a removed file. `sfs_remove`
releases the blocks it names. If contents are no numbers of blocks
(`ContentsAreNoPointers`, as text is not) those are blocks whose pointers have just
been cleared, and no other file's: `sfs_blocks` checks `ReleasesOnlyItsOwn`, and on
it rest `OneOwner` and `OwnedIsMarked`. If contents are such numbers, a removal can
release a block of another file or of the directory, which is then given to a second
owner: `sfs_release` finds it. What holds of any contents is a theorem about
`OwnSpec`, which is `Spec` with the condition `ReleasesItsOwn` on each step: until a
removal has done so, blocks have one owner and are marked. Block 0 is left out of all of
this, since it belongs to every inode with an unset pointer; `sfs_lost` is the
run about it.

Left out of the contents (`ClientsAssumption`) are negative ints and the four
numbers that as a block_id address the bitmap, behind the data.

Expected to fail, each on one sentence of a comment, a test or a README, quoted
in `PROJECT.json`:

| run | the program |
|---|---|
| `q3_average` | loses a wait from the average it prints (A2Q3.c:47) |
| `sfs_readback` | does not read back the first write into a block (sfs_api.c:566) |
| `sfs_lost` | loses a file on `mksfs(0)` (sfs_api.c:273) |
| `sfs_table` | keeps the descriptor of a file that is removed (sfs_api.c:806) |
| `sfs_release` | frees what contents in a table of pointers name (sfs_api.c:790) |
| `shell_args` | runs a command with words of an earlier one, after ^C (tiny_shell.c:250) |

`shell_args` takes an answer to the question of `handle_sigint` that leaves no
newline to be read (the Enter key alone, or more text): otherwise the newline is
read as an empty line, the loop comes round, and `memset` is called after all.

Seen on the way and not run:

- `file_size` stays 0, since `block_end` is set in a copy of the pointer
  (sfs_api.c:577), against sfs_test2.c:150-154.
- `sfs_remove` resets a copy of the inode, which stays in use (sfs_api.c:796), and
  frees block 0 through the pointers nobody set (sfs_api.c:775).
- A second listing is empty, and a file made after the first is not listed, for
  `dir_curr` is never set back (sfs_api.c:313-327).
- `sfs_remove` does not free the block that holds the indirect pointers
  (sfs_api.c:782-792).
- `sfs_fwrite` overwrites the last inodes on its way (sfs_api.c:602, 626, 643), which
  a kill before line 658 makes last.
- `queue_mutex` of A2Q3.c is no queue: `sem_wait` promises no order.
- `history` numbers the lines from 1 again after 200 (tiny_shell.c:94-98).
- A blank line and a bare `limit` crash the shell (tiny_shell.c:212, 110), as does
  ^C before the first `sigsetjmp` (tiny_shell.c:250).
- After ^Z of a program the shell waits for ever (tiny_shell.c:233, 204): `waitpid`
  is called without WUNTRACED.
- A side of a pipe that ^C leaves alive may take part in the next pipe, for all
  use one FIFO; the other side of that pipe then waits for ever and the shell with
  it (tiny_shell.c:191). `ComesBack` makes an exception of it, and of a `waitpid` for
  a process that ^C has left, of which `pid_out_cp`, never set, has the number.

### Fairness

`FairSpec` is weak fairness of each thread and of `main`: the operating system
runs every thread that can run. Nothing is assumed of the order in which a
semaphore admits those that wait: weak fairness of a wait allows it to be passed
by others for ever. `Termination` holds nevertheless, because every thread makes
finitely many rounds. The file system has one caller that may stop at any time,
so its specifications have no fairness and its runs do not check for deadlock.
`FuseSpec` is weak fairness of the one thread, in an operation; the kernel need
not ask for another.

The shell's `FairSpec` is weak fairness of the shell and of each process, and that
each program ends. Nobody need type anything, or answer. Its runs end at their
bounds, where all wait, and do not check for deadlock; that the shell itself does
not wait for ever is `ComesBack`.

## 4. Proofs

### Assumptions

The theorems hold for all values of the constants that satisfy the assumptions
named in the modules.

- `ThreadsAssumption`, `ArgumentsAssumption`, `IntAssumption` (`ReadersWriters`):
  the threads are finite, disjoint sets, the arguments any integers, and `int` has
  at least one value.
- `SizesAssumption` (`SimpleFileSystem`): more than two blocks, of at least one
  word; a directory entry is no longer than a block; no more entries in the
  root's direct blocks than slots in the tables (384 and 4096).
- `ClientsAssumption` (`SimpleFileSystem`): names and lengths are not 0, and
  contents are naturals. `OnDisk` takes those beyond the data blocks for addresses
  that the disk refuses, which is not so of the four that address the bitmap.
- `LastInodesAssumption` (`SFSRestart`): the last inodes are not the root.
- `ListingAssumption` (`DirectoryListing`): the listing looks at `num_inode_blocks`
  entries, 464 in the program, no fewer than the root's direct blocks hold.
- `LinesAssumption`, `HistoryAssumption` (`CommandLine`), `ShellAssumption`
  (`TinyShell`): lines have at most as many words as `args` has pointers; the ring
  has a place; pids are positive and finitely many.

### Readers-writers

`Exclusion` is not inductive: nothing in it says why a reader at its second
`sem_wait` of `mutex` is counted. `LockInv` (in A2Q3.c, `IndInv`) adds

- `OneHasMutex`, `MutexMatches`: at most one reader is between `sem_wait` and
  `sem_post` of `mutex`, and `mutex` is 0 exactly while one is;
- `CountMatches`: `read_count` is the number of readers counted in;
- `FirstAndLast`: a reader at `sem_wait(&rw_mutex)` is the only one counted, and
  one at `sem_post(&rw_mutex)` finds none counted;
- `RwMatches`, `GroupExclusion`: `rw_mutex` is 0 exactly while a writer, or the
  readers as a group, have it, and they do not have it together. The group has
  it also while the last reader is counted out and has not tested `read_count`.

For A2Q3.c it also has `OneHasQueue` and `QueueMatches`, and needs no clause for
two writers: they would both have `queue_mutex`. Each proof has one step per
action and one per conjunct the action can disturb; the facts about how
`Cardinality` changes when a reader is counted in or out are lemmas. From
`IndInv` follow `TypeCorrect`, `MutualExclusion`, `ExactCount`, for A2Q3.c
`FirstReaderIsAdmitted` and `WriterIsNotPassed`, and `Implements`: every step of
the program is a step of `RWLock` or leaves its variables alone.

`NoWaitIsLost` (of A2Q1.c) rests on `SumsInv`: a thread has added the waits of
the turns it has completed, and that of the turn it is in once it has stored it;
the sum is the number of pairs of a thread and such a turn; and what a thread has
loaded is the sum until it stores it, for which `LockInv` is needed, since
`mutex` and `rw_mutex` are what keeps others from storing in between. When all are
done the pairs are all pairs, and the sum is what `main` divides it by.

### File system

`IndInv` of `SimpleFileSystem` is a conjunction whose parts hold only together:

- `CallInv` says what a call in progress has found before its first save.
- `DirectoryInv`: names and inodes of entries are unique. `FilesInv`: inodes of
  entries and of open descriptors are in use, and an inode not in use was never.
  With the descriptors named as the entries they are of, this gives
  `NoSecondDescriptor`: `sfs_fopen` looks for a descriptor by name, and a new file
  of a name gets an inode that no descriptor left over from a removed one has.
- `ReadPtrInFile`: files do not shrink, also where `sfs_remove` leaves a descriptor.
- `BitmapSaved`, without which `alloc_block()` would undo what it reads over, and
  `SavedInv`, which is `InodesSaved` in the middle of `sfs_fopen` too.
- `UnsetInv`: the last direct pointer is 0, so that block 0 has been zeroed when
  `sfs_remove` reads the table of pointers.

Ownership is apart from it, for it does not hold of all contents. `OwnersInv` is
`OneOwner` and `MarkedInv`, each needed for the other: a block is given to a
second owner only if it is not marked, and unmarked only by a removal. `OwnSpec` says
that it is the removal of its owner; so does, if contents are no numbers of blocks,
`ContentsInv`: outside the directory's blocks and block 0 no word, read as a pointer,
names a block other than 0. The lemma of each action therefore has three
conclusions (`Kept`): `IndInv` is kept; `OwnersInv`, if the step releases no other
file's block; `ContentsInv` and that condition, if contents are no numbers of blocks.

The size that `sfs_fwrite` and `sfs_fread` work out as a sum over the pointers is
typed by a smallest set without such a sum, since induction over the fold
is out of the provers' reach. The theorems are `TypeCorrect`,
`NoSecondDescriptor`, `ReadPtrStaysInFile`, `BitmapIsSaved` and `InodesAreSaved`
of `Spec`, `BlocksHaveOneOwner` and `OwnedBlocksAreMarked` of `OwnSpec`, and
`ReleasedIsOwn` of `Spec` with `ContentsAreNoPointers`, by which `Spec` is then an
`OwnSpec`. `Implementation`, of
`ClosedSpec`, has one lemma
per step of a call: it creates, opens, closes or removes a file of
`FileTable`, or changes nothing that is seen there.

`KilledAnywhere` needs an invariant of its own: after `mksfs(0)` nothing is known
of the directory, whose slices overwrite each other. `AllocInv` is about inodes and
the bitmap alone, in memory and on the disk: the pointers of all inodes, listed or
not, but for `LastInodes`, are marked and have one owner. It holds because a pointer is only ever set to
the block `alloc_block()` has marked in the same step, or set to what names no block,
or read back from the disk.

### FUSE

Every step is a step of `SimpleFileSystem` or changes none of its variables, so
that `IndInv` carries over. `FuseInv` adds `StepsInv` (which call of the library may be
in progress where in an operation), `OpenInv` (the descriptors open are those leaked
and the one in use; others have no name by which `sfs_fopen` would find them),
`RightFile`, `TruncateInv` (after the removal an entry is free for the new file)
and `ListInv` (what the first listing has passed it has returned). The theorems are
`Leaks`, `WorksOnItsFile`, `Truncation` and, about steps, `FirstListing`.

### Shell

- `RingInv`: a place of `HISTORY` has the line that was the last to be counted
  there -- but for the oldest, lost as soon as the next line is recorded, even if
  ^C keeps that from being counted. From it follows `HistoryIsTheLast`.
- `ArgsInv`: once `memset` has been called, the pointers it clears are NULL until
  the words of the line are there. From it follow `ShortLines` and `CrashesOnlyOf`.
- `JobsInv`, `PairInv`, `FifoInv`: which processes, of those the shell has not
  jumped away from, there are in each state of the shell, and how the two sides of
  a pipe are related. `JobsInv` is why nothing runs at the prompt (`NothingRuns`)
  and with `PairInv` why pipes do not mix (`NoMixing`).
- `FdsInv`: a ^C not yet taken has cost no descriptor yet. From it follows
  `Descriptors`: at most two for each ^C, since the shell has both ends of the pipe,
  and no child yet, between `pipe` and `fork`.

### Only model-checked

Liveness, which the provers do not reach: `Termination` of both programs,
`OperationsReturn` and `ComesBack`. So are the runs expected to fail, each of
which is a behaviour that TLC finds.

## 5. Not modelled

- Directories of more entries than the root's 12 direct pointers lead to (384):
  `sfs_fopen` writes their table to block_id -1 before it has allocated it.
- A kill while inodes in the last block of the inode table (4087 and on) are in use:
  `sfs_crash` ends before they are. A kill in the middle of a table written at once.
  A kill in `mksfs(1)`.
- `sfs_remove` of a file whose pointers lead outside the bitmap: the store there
  is undefined, and `FRemove` stores inside the bitmap only. Contents that are
  negative, or that address the blocks of the bitmap.
- `mksfs(1)` other than as the first call of a process; `sfs_fwrite` and
  `sfs_fread` of descriptors that `sfs_fopen` did not return.
- The superblock, which never changes; names longer than a slot, or longer than
  `MAXFILENAME` in fuse_wrappers.c.
- FUSE operations on more than one thread: the library's tables are raced on,
  which is undefined. fuse_wrappers.c calls `sfs_GetFileSize` and
  `sfs_get_next_filename`, which the library does not have, and is modelled as if it
  called `sfs_getfilesize` and `sfs_getnextfilename`.
- In the shell: lines of 120 characters and more; `pipe()` failing; a FIFO that
  `open` refuses to one side only; a ^C in the middle of `parse_line` or `memset`;
  shells that a ^C creates in a child (they read the same terminal); a stopped program continued
  from elsewhere; processes that a program forks.
- In `SFSRestart`, contents in block 0 taken for directory entries that have a
  name, and kills of a process that removes files: `sfs_remove` saves the bitmap
  before the directory, and a kill in between leaves a listed file with free
  blocks. No comment or test promises otherwise.
- What `chdir` and `limit` do to the process; prints; the test programs, which are
  clients whose expectations are stated in the runs above; the Makefile.

## 6. Plan

1. Done: readers-writers, with proofs; the file system's calls, its listing and
   its restart; the FUSE operations; the shell.
2. Done: every safety and action property of the passing runs, as a theorem.
3. Left: shorter proofs of the long leaves; what `FileTable` and `RWLock` promise
   by themselves, as theorems about the abstract modules that the programs inherit
   through their refinements; the sum of the writers' waits in A2Q3.c, which is
   added to with `rw_mutex` held and, other than the readers', should be complete.

No module a proof is about declares a RECURSIVE operator.
