-------------------------- MODULE ReadersPreference --------------------------
(***************************************************************************)
(* readers-writers/A2Q1.c: the first of the readers to come in takes       *)
(* rw_mutex for all of them and the last to go out gives it back; a writer *)
(* holds rw_mutex alone.                                                   *)
(***************************************************************************)
EXTENDS ReadersWriters

Init == RWInit
vars == rwvars

(* Mutants: statements as plausible slips would have them. *)
EnterWithoutMutex(r) ==
  /\ Goto(r, "wait_mutex", "count")
  /\ UNCHANGED <<i, sems, read_count, data, stats, reported>>
LeaveWithoutMutex(r) ==
  /\ Goto(r, "leave", "uncount")
  /\ UNCHANGED <<i, sems, read_count, data, stats, reported>>
FirstDoesNotWait(r) ==
  /\ Goto(r, "wait_rw", "admit")
  /\ UNCHANGED <<i, sems, read_count, data, stats, reported>>
EveryonePosts(r) ==
  /\ Goto(r, "last", "post_rw")
  /\ UNCHANGED <<i, sems, read_count, data, stats, reported>>
WriterDoesNotWait(w) ==
  /\ Goto(w, "wait_rw", "stat_load")
  /\ UNCHANGED <<i, sems, read_count, data, stats, reported>>
LastForgetsToPost(r) ==
  /\ Goto(r, "last", "release")
  /\ UNCHANGED <<i, sems, read_count, data, stats, reported>>

RLoop(r)      == Loop(r, NUMBER_OF_READS, "wait_mutex")
REnter(r)     == LockMutex(r, "wait_mutex", "count")
RCount(r)     == CountIn(r, "count", "wait_rw", "admit")
RWaitRw(r)    == LockRw(r, "wait_rw", "admit")
RAdmit(r)     == UnlockMutex(r, "admit", "reading")
RRead(r)      == ReadShared(r, "leave")
RLeave(r)     == LockMutex(r, "leave", "uncount")
RUncount(r)   == CountOut(r, "uncount", "stat_load")
RStatLoad(r)  == LoadTotal(r, total_read_time)
RStatStore(r) == StoreReadTotal(r, "last")
RLast(r)      == TestLast(r, "last", "post_rw", "release")
RPostRw(r)    == UnlockRw(r, "post_rw", "release")
RRelease(r)   == UnlockMutex(r, "release", "loop")

Reader(r) ==
  \/ RLoop(r) \/ REnter(r) \/ RCount(r) \/ RWaitRw(r) \/ RAdmit(r)
  \/ RRead(r) \/ RLeave(r) \/ RUncount(r) \/ RStatLoad(r) \/ RStatStore(r)
  \/ RLast(r) \/ RPostRw(r) \/ RRelease(r)

WLoop(w)      == Loop(w, NUMBER_OF_WRITES, "wait_rw")
WWaitRw(w)    == LockRw(w, "wait_rw", "stat_load")
WStatLoad(w)  == LoadTotal(w, total_write_time)
WStatStore(w) == StoreWriteTotal(w, "load")
WLoad(w)      == LoadShared(w)
WStore(w)     == StoreShared(w)
WPostRw(w)    == UnlockRw(w, "post_rw", "loop")

Writer(w) ==
  \/ WLoop(w) \/ WWaitRw(w) \/ WStatLoad(w) \/ WStatStore(w) \/ WLoad(w)
  \/ WStore(w) \/ WPostRw(w)

Returned == reported /\ UNCHANGED vars

Next ==
  \/ \E r \in Readers : Reader(r)
  \/ \E w \in Writers : Writer(w)
  \/ Report
  \/ Returned

Spec == Init /\ [][Next]_vars

(* Every thread that can run is scheduled in the end.  Nothing is assumed  *)
(* of the order in which a semaphore admits the threads that wait for it.  *)
FairSpec ==
  /\ Spec
  /\ \A r \in Readers : WF_vars(Reader(r))
  /\ \A w \in Writers : WF_vars(Writer(w))
  /\ WF_vars(Report)

-----------------------------------------------------------------------------
ReaderLabels == {"loop", "wait_mutex", "count", "wait_rw", "admit", "reading",
                 "leave", "uncount", "stat_load", "stat_store", "last",
                 "post_rw", "release", "done"}
WriterLabels == {"loop", "wait_rw", "stat_load", "stat_store", "load", "store",
                 "post_rw", "done"}

(* Where a thread is between sem_wait and sem_post of mutex, between the   *)
(* ++ and the -- of read_count, in the reading group that has rw_mutex,    *)
(* and (a writer) between sem_wait and sem_post of rw_mutex.               *)
HasMutex(r)  == pc[r] \in {"count", "wait_rw", "admit", "uncount", "stat_load",
                           "stat_store", "last", "post_rw", "release"}
Counted(r)   == pc[r] \in {"wait_rw", "admit", "reading", "leave", "uncount"}
MayRead(r)   == pc[r] \in {"admit", "reading", "leave", "uncount"}
HasRw(w)     == pc[w] \in {"stat_load", "stat_store", "load", "store", "post_rw"}

(* Every variable has its type; in particular the semaphores of A2Q1.c     *)
(* stay binary: nothing posts one that it has not taken.                   *)
TypeOK ==
  /\ pc \in [Threads -> ReaderLabels \cup WriterLabels]
  /\ \A r \in Readers : pc[r] \in ReaderLabels
  /\ \A w \in Writers : pc[w] \in WriterLabels
  /\ i \in [Threads -> Nat]
  /\ mutex \in {0, 1} /\ rw_mutex \in {0, 1}
  /\ read_count \in Nat
  /\ shared_int \in Word /\ temp \in [Writers -> Word]
  /\ reg \in [Threads -> Nat]
  /\ total_read_time \in Nat /\ total_write_time \in Nat
  /\ reported \in BOOLEAN

(* Readers and writers exclude each other, and writers each other, although *)
(* the reader that posts rw_mutex need not be the one that waited for it.   *)
Exclusion ==
  /\ \A w \in Writers, r \in Readers : ~(HasRw(w) /\ MayRead(r))
  /\ \A v, w \in Writers : HasRw(v) /\ HasRw(w) => v = w

(* read_count is only touched by the one thread that has mutex, and counts *)
(* the readers between their ++ and their --: no update of it is lost.     *)
OneHasMutex  == \A r, s \in Readers : HasMutex(r) /\ HasMutex(s) => r = s
CountMatches == read_count = Cardinality({r \in Readers : Counted(r)})
MutexGuardsCount == OneHasMutex /\ CountMatches

(* What the lock rests on.  Besides the above: mutex is 0 exactly while a  *)
(* reader has it; a reader waits for rw_mutex only while it is the one     *)
(* counted, and posts it only when none is; and rw_mutex is 0 exactly      *)
(* while a writer has it or the readers, as a group, have it -- which they *)
(* do from the first's sem_wait to the last's sem_post, also while the     *)
(* last is counted out but has not yet tested read_count.                  *)
GroupHasRw(r) == pc[r] \in {"admit", "reading", "leave", "uncount", "stat_load",
                            "stat_store", "last", "post_rw"}

MutexMatches == mutex = 0 <=> \E r \in Readers : HasMutex(r)
FirstAndLast ==
  \A r, s \in Readers : /\ pc[r] = "wait_rw" /\ Counted(s) => r = s
                        /\ pc[r] = "post_rw" => ~Counted(s)
RwMatches ==
  rw_mutex = 0 <=> \/ \E w \in Writers : HasRw(w)
                   \/ \E r \in Readers : GroupHasRw(r)
GroupExclusion ==
  /\ \A w \in Writers, r \in Readers : ~(HasRw(w) /\ GroupHasRw(r))
  /\ \A v, w \in Writers : HasRw(v) /\ HasRw(w) => v = w

LockInv == /\ TypeOK
           /\ OneHasMutex /\ CountMatches /\ MutexMatches
           /\ FirstAndLast /\ RwMatches /\ GroupExclusion

(* What the averages rest on.  A thread has measured a wait in each turn   *)
(* of its loop, and has added all of them to the sum but that of the turn  *)
(* it is in, before it has stored the sum in it.  The sum is the number of *)
(* waits added, and what a thread has loaded of it is still what it is.    *)
ReadTurns  == IF NUMBER_OF_READS > 0 THEN NUMBER_OF_READS ELSE 0
WriteTurns == IF NUMBER_OF_WRITES > 0 THEN NUMBER_OF_WRITES ELSE 0

InTurn(t, turns) ==
  \/ pc[t] = "loop" /\ i[t] \in 0 .. turns
  \/ pc[t] = "done" /\ i[t] = turns + 1
  \/ pc[t] \notin {"loop", "done"} /\ i[t] \in 1 .. turns
HasAdded == {"loop", "last", "post_rw", "release", "load", "store"}
Added(t) == IF pc[t] \in HasAdded THEN i[t] ELSE i[t] - 1
Waits(S, turns) == {wait \in S \X (1 .. turns) : wait[2] <= Added(wait[1])}

SumsInv ==
  /\ \A r \in Readers : /\ InTurn(r, ReadTurns)
                        /\ pc[r] = "stat_store" => reg[r] = total_read_time
  /\ \A w \in Writers : /\ InTurn(w, WriteTurns)
                        /\ pc[w] = "stat_store" => reg[w] = total_write_time
  /\ total_read_time = Cardinality(Waits(Readers, ReadTurns))
  /\ total_write_time = Cardinality(Waits(Writers, WriteTurns))
  /\ reported => AllDone

(* The inductive invariant.                                                *)
IndInv == LockInv /\ SumsInv

(* When main prints the averages, every wait that was measured is in the   *)
(* sum that is divided by the number of waits: adding time_count up under  *)
(* mutex (reads) and rw_mutex (writes) loses nothing.                      *)
AveragesComplete ==
  reported => /\ total_read_time = total_read_count
              /\ total_write_time = total_write_count

(* The program is a readers-writers lock over shared_int.                  *)
Lock == INSTANCE RWLock WITH
          Values  <- Word,
          reading <- {r \in Readers : MayRead(r)},
          writing <- {w \in Writers : HasRw(w)},
          value   <- shared_int

ImplementsRWLock == Lock!Spec

(* Every thread gets through all of its iterations and main returns: a     *)
(* writer is made to wait, but only as long as readers have reads left.    *)
Termination == <>reported
=============================================================================
