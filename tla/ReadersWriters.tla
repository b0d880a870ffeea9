---------------------------- MODULE ReadersWriters ----------------------------
(***************************************************************************)
(* What the two programs of readers-writers/ share: the threads, the       *)
(* variables of A2Q1.c (A2Q3.c has them too) and the statements reader()   *)
(* and writer() are made of.  ReadersPreference puts the statements        *)
(* together as A2Q1.c does, QueuedReadersWriters as A2Q3.c does.           *)
(*                                                                         *)
(* One statement is one access to memory that other threads also use: a    *)
(* semaphore call, or a read or a write of a shared variable.              *)
(* `read_count++; if (read_count == 1)' is one step, because the program   *)
(* runs it under `mutex' (MutexGuardsCount of each program checks that);   *)
(* `total += time_count' is two, a load and a store, because A2Q3.c does   *)
(* it with no lock.                                                        *)
(***************************************************************************)
EXTENDS Integers, FiniteSets

CONSTANTS
  Readers,          \* the reader threads (NUMBER_OF_RTHREADS of them)
  Writers,          \* the writer threads (NUMBER_OF_WTHREADS of them)
  NUMBER_OF_READS,  \* iterations of each reader, argv[2]
  NUMBER_OF_WRITES, \* iterations of each writer, argv[1]
  IntSize           \* how many values an int has; its arithmetic wraps

ASSUME ThreadsAssumption ==
  /\ IsFiniteSet(Readers) /\ IsFiniteSet(Writers)
  /\ Readers \cap Writers = {}

ASSUME ArgumentsAssumption ==     \* atoi may return any int
  NUMBER_OF_READS \in Int /\ NUMBER_OF_WRITES \in Int

ASSUME IntAssumption == IntSize \in Nat \ {0}

Threads == Readers \cup Writers
Word   == 0 .. IntSize - 1

VARIABLES
  pc,               \* the next statement of each thread
  i,                \* the loop counter of each thread
  mutex, rw_mutex,  \* the values of the semaphores
  read_count,
  shared_int,
  temp,             \* the local variable of each writer
  reg,              \* the register in which a thread adds time_count
  total_read_time,  \* both in units of one time_count: how many of the
  total_write_time, \* measured waits have been added in
  reported          \* main has joined the threads and printed the averages

sems  == <<mutex, rw_mutex>>
data  == <<shared_int, temp>>
stats == <<reg, total_read_time, total_write_time>>
rwvars == <<pc, i, sems, read_count, data, stats, reported>>

(* `temp' is never initialised: a writer starts with any value in it. *)
RWInit ==
  /\ pc = [t \in Threads |-> "loop"]
  /\ i = [t \in Threads |-> 0]
  /\ mutex = 1 /\ rw_mutex = 1
  /\ read_count = 0 /\ shared_int = 0
  /\ temp \in [Writers -> Word]
  /\ reg = [t \in Threads |-> 0]
  /\ total_read_time = 0 /\ total_write_time = 0
  /\ reported = FALSE

-----------------------------------------------------------------------------
Goto(t, from, to) ==
  /\ pc[t] = from
  /\ pc' = [pc EXCEPT ![t] = to]

(* while (i++ < bound): t0 is taken and the wait for entry begins, or the  *)
(* thread returns.                                                         *)
Loop(t, bound, entry) ==
  /\ Goto(t, "loop", IF i[t] < bound THEN entry ELSE "done")
  /\ i' = [i EXCEPT ![t] = @ + 1]
  /\ UNCHANGED <<sems, read_count, data, stats, reported>>

SemWait(sem) == sem > 0 /\ sem' = sem - 1
SemPost(sem) == sem' = sem + 1

LockMutex(t, from, to) ==
  /\ Goto(t, from, to) /\ SemWait(mutex)
  /\ UNCHANGED <<i, rw_mutex, read_count, data, stats, reported>>

UnlockMutex(t, from, to) ==
  /\ Goto(t, from, to) /\ SemPost(mutex)
  /\ UNCHANGED <<i, rw_mutex, read_count, data, stats, reported>>

LockRw(t, from, to) ==
  /\ Goto(t, from, to) /\ SemWait(rw_mutex)
  /\ UNCHANGED <<i, mutex, read_count, data, stats, reported>>

UnlockRw(t, from, to) ==
  /\ Goto(t, from, to) /\ SemPost(rw_mutex)
  /\ UNCHANGED <<i, mutex, read_count, data, stats, reported>>

(* read_count++; if (read_count == 1) first; else rest *)
CountIn(r, from, first, rest) ==
  /\ read_count' = read_count + 1
  /\ Goto(r, from, IF read_count' = 1 THEN first ELSE rest)
  /\ UNCHANGED <<i, sems, data, stats, reported>>

CountOut(r, from, to) ==
  /\ Goto(r, from, to)
  /\ read_count' = read_count - 1
  /\ UNCHANGED <<i, sems, data, stats, reported>>

(* if (read_count == 0) last; else rest *)
TestLast(r, from, last, rest) ==
  /\ Goto(r, from, IF read_count = 0 THEN last ELSE rest)
  /\ UNCHANGED <<i, sems, read_count, data, stats, reported>>

(* total += time_count, for total_read_time and for total_write_time *)
LoadTotal(t, total) ==
  /\ Goto(t, "stat_load", "stat_store")
  /\ reg' = [reg EXCEPT ![t] = total]
  /\ UNCHANGED <<i, sems, read_count, data, total_read_time,
                 total_write_time, reported>>

StoreReadTotal(r, to) ==
  /\ Goto(r, "stat_store", to)
  /\ total_read_time' = reg[r] + 1
  /\ UNCHANGED <<i, sems, read_count, data, reg, total_write_time, reported>>

StoreWriteTotal(w, to) ==
  /\ Goto(w, "stat_store", to)
  /\ total_write_time' = reg[w] + 1
  /\ UNCHANGED <<i, sems, read_count, data, reg, total_read_time, reported>>

(* usleep(..); temp = shared_int: the reader's temp is not used again *)
ReadShared(r, to) ==
  /\ Goto(r, "reading", to)
  /\ UNCHANGED <<i, sems, read_count, data, stats, reported>>

(* temp += shared_int; temp += 10 *)
LoadShared(w) ==
  /\ Goto(w, "load", "store")
  /\ temp' = [temp EXCEPT ![w] = (@ + shared_int + 10) % IntSize]
  /\ UNCHANGED <<i, sems, read_count, shared_int, stats, reported>>

(* shared_int = temp *)
StoreShared(w) ==
  /\ Goto(w, "store", "post_rw")
  /\ shared_int' = temp[w]
  /\ UNCHANGED <<i, sems, read_count, temp, stats, reported>>

-----------------------------------------------------------------------------
AllDone == \A t \in Threads : pc[t] = "done"

(* main(): join every thread, then print the averages and return. *)
Report ==
  /\ AllDone /\ ~reported
  /\ reported' = TRUE
  /\ UNCHANGED <<pc, i, sems, read_count, data, stats>>

(* the iterations the two averages are divided by *)
total_read_count  == (IF NUMBER_OF_READS > 0 THEN NUMBER_OF_READS ELSE 0)
                       * Cardinality(Readers)
total_write_count == (IF NUMBER_OF_WRITES > 0 THEN NUMBER_OF_WRITES ELSE 0)
                       * Cardinality(Writers)
=============================================================================
