------------------------- MODULE QueuedReadersWriters -------------------------
(***************************************************************************)
(* readers-writers/A2Q3.c: A2Q1.c with a third semaphore, queue_mutex, that *)
(* a reader holds while it comes in and a writer holds until it has        *)
(* written, so that readers cannot keep passing a writer that waits.  The  *)
(* reader's statistics have moved out of the section under mutex.          *)
(***************************************************************************)
EXTENDS ReadersWriters

VARIABLE queue_mutex

vars == <<rwvars, queue_mutex>>

Init == RWInit /\ queue_mutex = 1

LockQueue(t, to) ==
  /\ Goto(t, "wait_queue", to) /\ SemWait(queue_mutex)
  /\ UNCHANGED <<i, sems, read_count, data, stats, reported>>

UnlockQueue(t, to) ==
  /\ Goto(t, "unqueue", to) /\ SemPost(queue_mutex)
  /\ UNCHANGED <<i, sems, read_count, data, stats, reported>>

(* Mutants: statements as plausible slips would have them. *)
LeaveWithoutMutex(r) ==
  /\ Goto(r, "leave", "uncount")
  /\ UNCHANGED <<i, sems, queue_mutex, read_count, data, stats, reported>>
EveryonePosts(r) ==
  /\ Goto(r, "last", "post_rw")
  /\ UNCHANGED <<i, sems, queue_mutex, read_count, data, stats, reported>>
QueueJumper(t) ==
  /\ Goto(t, "wait_queue", IF t \in Readers THEN "wait_mutex" ELSE "wait_rw")
  /\ UNCHANGED <<i, sems, queue_mutex, read_count, data, stats, reported>>
WriterDoesNotWait(w) ==
  /\ Goto(w, "wait_rw", "stat_load")
  /\ UNCHANGED <<i, sems, queue_mutex, read_count, data, stats, reported>>
StaysInQueue(r) ==
  /\ Goto(r, "unqueue", "stat_load")
  /\ UNCHANGED <<i, sems, queue_mutex, read_count, data, stats, reported>>

RLoop(r)      == Loop(r, NUMBER_OF_READS, "wait_queue") /\ UNCHANGED queue_mutex
RQueue(r)     == LockQueue(r, "wait_mutex")
REnter(r)     == LockMutex(r, "wait_mutex", "count") /\ UNCHANGED queue_mutex
RCount(r)     == CountIn(r, "count", "wait_rw", "admit") /\ UNCHANGED queue_mutex
RWaitRw(r)    == LockRw(r, "wait_rw", "admit") /\ UNCHANGED queue_mutex
RAdmit(r)     == UnlockMutex(r, "admit", "unqueue") /\ UNCHANGED queue_mutex
RUnqueue(r)   == UnlockQueue(r, "stat_load")
RStatLoad(r)  == LoadTotal(r, total_read_time) /\ UNCHANGED queue_mutex
RStatStore(r) == StoreReadTotal(r, "reading") /\ UNCHANGED queue_mutex
RRead(r)      == ReadShared(r, "leave") /\ UNCHANGED queue_mutex
RLeave(r)     == LockMutex(r, "leave", "uncount") /\ UNCHANGED queue_mutex
RUncount(r)   == CountOut(r, "uncount", "last") /\ UNCHANGED queue_mutex
RLast(r)      == TestLast(r, "last", "post_rw", "release") /\ UNCHANGED queue_mutex
RPostRw(r)    == UnlockRw(r, "post_rw", "release") /\ UNCHANGED queue_mutex
RRelease(r)   == UnlockMutex(r, "release", "loop") /\ UNCHANGED queue_mutex

Reader(r) ==
  \/ RLoop(r) \/ RQueue(r) \/ REnter(r) \/ RCount(r) \/ RWaitRw(r)
  \/ RAdmit(r) \/ RUnqueue(r) \/ RStatLoad(r) \/ RStatStore(r) \/ RRead(r)
  \/ RLeave(r) \/ RUncount(r) \/ RLast(r) \/ RPostRw(r) \/ RRelease(r)

WLoop(w)      == Loop(w, NUMBER_OF_WRITES, "wait_queue") /\ UNCHANGED queue_mutex
WQueue(w)     == LockQueue(w, "wait_rw")
WWaitRw(w)    == LockRw(w, "wait_rw", "stat_load") /\ UNCHANGED queue_mutex
WStatLoad(w)  == LoadTotal(w, total_write_time) /\ UNCHANGED queue_mutex
WStatStore(w) == StoreWriteTotal(w, "load") /\ UNCHANGED queue_mutex
WLoad(w)      == LoadShared(w) /\ UNCHANGED queue_mutex
WStore(w)     == StoreShared(w) /\ UNCHANGED queue_mutex
WPostRw(w)    == UnlockRw(w, "post_rw", "unqueue") /\ UNCHANGED queue_mutex
WUnqueue(w)   == UnlockQueue(w, "loop")

Writer(w) ==
  \/ WLoop(w) \/ WQueue(w) \/ WWaitRw(w) \/ WStatLoad(w) \/ WStatStore(w)
  \/ WLoad(w) \/ WStore(w) \/ WPostRw(w) \/ WUnqueue(w)

Join == Report /\ UNCHANGED queue_mutex

Returned == reported /\ UNCHANGED vars

Next ==
  \/ \E r \in Readers : Reader(r)
  \/ \E w \in Writers : Writer(w)
  \/ Join
  \/ Returned

Spec == Init /\ [][Next]_vars

(* Every thread that can run is scheduled in the end.  Nothing is assumed  *)
(* of the order in which a semaphore admits the threads that wait for it.  *)
FairSpec ==
  /\ Spec
  /\ \A r \in Readers : WF_vars(Reader(r))
  /\ \A w \in Writers : WF_vars(Writer(w))
  /\ WF_vars(Join)

-----------------------------------------------------------------------------
ReaderLabels == {"loop", "wait_queue", "wait_mutex", "count", "wait_rw",
                 "admit", "unqueue", "stat_load", "stat_store", "reading",
                 "leave", "uncount", "last", "post_rw", "release", "done"}
WriterLabels == {"loop", "wait_queue", "wait_rw", "stat_load", "stat_store",
                 "load", "store", "post_rw", "unqueue", "done"}

(* Where a thread is between the two calls on each semaphore, between the  *)
(* ++ and the -- of read_count, and in the group that has rw_mutex.        *)
HasQueue(t) ==
  \/ t \in Readers /\ pc[t] \in {"wait_mutex", "count", "wait_rw", "admit",
                                "unqueue"}
  \/ t \in Writers /\ pc[t] \in {"wait_rw", "stat_load", "stat_store", "load",
                                "store", "post_rw", "unqueue"}
HasMutex(r)   == pc[r] \in {"count", "wait_rw", "admit", "uncount", "last",
                            "post_rw", "release"}
Counted(r)    == pc[r] \in {"wait_rw", "admit", "unqueue", "stat_load",
                            "stat_store", "reading", "leave", "uncount"}
MayRead(r)    == Counted(r) /\ pc[r] # "wait_rw"
GroupHasRw(r) == MayRead(r) \/ pc[r] \in {"last", "post_rw"}
HasRw(w)      == pc[w] \in {"stat_load", "stat_store", "load", "store", "post_rw"}

(* Every variable has its type; in particular the semaphores of A2Q3.c     *)
(* stay binary: nothing posts one that it has not taken.                   *)
TypeOK ==
  /\ pc \in [Threads -> ReaderLabels \cup WriterLabels]
  /\ \A r \in Readers : pc[r] \in ReaderLabels
  /\ \A w \in Writers : pc[w] \in WriterLabels
  /\ i \in [Threads -> Nat]
  /\ mutex \in {0, 1} /\ rw_mutex \in {0, 1} /\ queue_mutex \in {0, 1}
  /\ read_count \in Nat
  /\ shared_int \in Word /\ temp \in [Writers -> Word]
  /\ reg \in [Threads -> Nat]
  /\ total_read_time \in Nat /\ total_write_time \in Nat
  /\ reported \in BOOLEAN

(* Readers and writers exclude each other, and writers each other.         *)
Exclusion ==
  /\ \A w \in Writers, r \in Readers : ~(HasRw(w) /\ MayRead(r))
  /\ \A v, w \in Writers : HasRw(v) /\ HasRw(w) => v = w

(* read_count is only touched by the one thread that has mutex, and counts *)
(* the readers between their ++ and their --: no update of it is lost.     *)
OneHasMutex  == \A r, s \in Readers : HasMutex(r) /\ HasMutex(s) => r = s
CountMatches == read_count = Cardinality({r \in Readers : Counted(r)})
MutexGuardsCount == OneHasMutex /\ CountMatches

(* The inductive invariant.  As in ReadersPreference, and queue_mutex is 0  *)
(* exactly while one thread has it.                                         *)
OneHasQueue  == \A s, t \in Threads : HasQueue(s) /\ HasQueue(t) => s = t
QueueMatches == queue_mutex = 0 <=> \E t \in Threads : HasQueue(t)
MutexMatches == mutex = 0 <=> \E r \in Readers : HasMutex(r)
FirstAndLast ==
  \A r, s \in Readers : /\ pc[r] = "wait_rw" /\ Counted(s) => r = s
                        /\ pc[r] = "post_rw" => ~Counted(s)
RwMatches ==
  rw_mutex = 0 <=> \/ \E w \in Writers : HasRw(w)
                   \/ \E r \in Readers : GroupHasRw(r)
GroupExclusion == \A w \in Writers, r \in Readers : ~(HasRw(w) /\ GroupHasRw(r))

IndInv == /\ TypeOK
          /\ OneHasQueue /\ QueueMatches
          /\ OneHasMutex /\ MutexMatches /\ CountMatches
          /\ FirstAndLast /\ RwMatches /\ GroupExclusion

(* The queue makes one of A2Q1.c's waits free: the first reader, which asks *)
(* for rw_mutex holding both queue_mutex and mutex, always finds it posted. *)
(* A reader that came last posts rw_mutex before it releases mutex, and a   *)
(* writer that has it still has queue_mutex too.                            *)
FirstReaderNeverBlocks == \A r \in Readers : pc[r] = "wait_rw" => rw_mutex = 1

(* What queue_mutex is for: from the moment a writer has its turn, readers  *)
(* only leave.  The writer waits for those that were in before it and for   *)
(* no other.                                                                *)
NoReaderPassesWriter ==
  [][(\E w \in Writers : HasQueue(w)) => read_count' <= read_count]_vars

(* The printed "Average reader wait time" (A2Q3.c:129) divides the sum of   *)
(* the measured waits by the number of reads: every read's wait is in it.   *)
(* Not so: the sum is added to with no semaphore held.                      *)
ReadAverageComplete == reported => total_read_time = total_read_count

(* The program is a readers-writers lock over shared_int.                   *)
Lock == INSTANCE RWLock WITH
          Values  <- Word,
          reading <- {r \in Readers : MayRead(r)},
          writing <- {w \in Writers : HasRw(w)},
          value   <- shared_int

ImplementsRWLock == Lock!Spec

(* Every thread gets through all of its iterations and main returns: the    *)
(* order queue_mutex, mutex, rw_mutex in which semaphores are taken closes  *)
(* no circle.                                                               *)
Termination == <>reported
=============================================================================
