--------------------- MODULE QueuedReadersWriters_proofs ---------------------
(***************************************************************************)
(* Proofs about A2Q3.c for any numbers of threads and of iterations.       *)
(***************************************************************************)
EXTENDS QueuedReadersWriters, FiniteSetTheorems, TLAPS

CountedSet == {r \in Readers : Counted(r)}

(* The readers counted are finitely many, and none of them exactly when    *)
(* their number is 0.                                                      *)
LEMMA CountedIsFinite ==
  /\ IsFiniteSet(CountedSet)
  /\ Cardinality(CountedSet) \in Nat
  /\ Cardinality(CountedSet) = 0 <=> CountedSet = {}
<1>1. CountedSet \subseteq Readers
  BY DEF CountedSet
<1>2. IsFiniteSet(CountedSet)
  BY <1>1, ThreadsAssumption, FS_Subset
<1>3. QED
  BY <1>2, FS_CardinalityType, FS_EmptySet

(* read_count as the tests in CountIn and TestLast use it: it is 0 exactly *)
(* when no reader is counted.                                              *)
LEMMA ZeroCount ==
  ASSUME CountMatches
  PROVE  /\ read_count \in Nat
         /\ read_count = 0 <=> \A s \in Readers : ~Counted(s)
<1>1. read_count = Cardinality(CountedSet)
  BY DEF CountMatches, CountedSet
<1>2. QED
  BY <1>1, CountedIsFinite DEF CountedSet

LEMMA InitEstablishes == Init => IndInv
<1> SUFFICES ASSUME Init PROVE IndInv
  OBVIOUS
<1> USE DEF Init, RWInit, Threads
<1>1. shared_int \in Word
  BY IntAssumption DEF Word
<1>2. TypeOK
  BY <1>1 DEF TypeOK, ReaderLabels, WriterLabels
<1>3. {r \in Readers : Counted(r)} = {}
  BY DEF Counted
<1>4. CountMatches
  BY <1>3, FS_EmptySet DEF CountMatches
<1>5. QED
  BY <1>2, <1>4 DEF IndInv, OneHasQueue, QueueMatches, OneHasMutex, MutexMatches, FirstAndLast,
     RwMatches, GroupExclusion, HasQueue, HasMutex, Counted, MayRead, HasRw,
     GroupHasRw

(* A step that counts no reader in or out leaves CountMatches true. *)
LEMMA SameCount ==
  ASSUME CountMatches, UNCHANGED read_count,
         \A s \in Readers : Counted(s)' <=> Counted(s)
  PROVE  CountMatches'
<1>1. {s \in Readers : Counted(s)}' = {s \in Readers : Counted(s)}
  OBVIOUS
<1>2. QED
  BY <1>1 DEF CountMatches

LEMMA ReaderKeeps == ASSUME IndInv, NEW r \in Readers, Reader(r)
                     PROVE  IndInv'
<1> USE ThreadsAssumption, ZeroCount
    DEF IndInv, TypeOK, OneHasQueue, QueueMatches, OneHasMutex, MutexMatches,
        FirstAndLast, RwMatches, GroupExclusion, HasQueue, MayRead, ReaderLabels, WriterLabels, Threads, HasMutex, Counted,
        HasRw, GroupHasRw, Goto, sems, data, stats
<1>1. CASE RLoop(r)
  BY <1>1, SameCount DEF RLoop, Loop
<1>2. CASE REnter(r)
  BY <1>2, SameCount DEF REnter, LockMutex, SemWait
<1>3. CASE RCount(r)
  <2>1. CountedSet' = CountedSet \cup {r} /\ r \notin CountedSet
    BY <1>3 DEF RCount, CountIn, CountedSet
  <2>2. Cardinality(CountedSet') = Cardinality(CountedSet) + 1
    BY <2>1, CountedIsFinite, FS_AddElement
  <2>3. CountMatches'
    BY <1>3, <2>2 DEF RCount, CountIn, CountMatches, CountedSet
  <2>4. QED
    BY <1>3, <2>3 DEF RCount, CountIn
<1>4. CASE RWaitRw(r)
  BY <1>4, SameCount DEF RWaitRw, LockRw, SemWait
<1>5. CASE RAdmit(r)
  BY <1>5, SameCount DEF RAdmit, UnlockMutex, SemPost
<1>6. CASE RRead(r)
  BY <1>6, SameCount DEF RRead, ReadShared
<1>7. CASE RLeave(r)
  BY <1>7, SameCount DEF RLeave, LockMutex, SemWait
<1>8. CASE RUncount(r)
  <2>1. CountedSet' = CountedSet \ {r} /\ r \in CountedSet
    BY <1>8 DEF RUncount, CountOut, CountedSet
  <2>2. Cardinality(CountedSet') = Cardinality(CountedSet) - 1
    BY <2>1, CountedIsFinite, FS_RemoveElement
  <2>3. CountMatches'
    BY <1>8, <2>2 DEF RUncount, CountOut, CountMatches, CountedSet
  <2>4. read_count # 0
    BY <2>1 DEF CountedSet
  <2>5. read_count' \in Nat
    BY <1>8, <2>4 DEF RUncount, CountOut
  <2>6. QED
    BY <1>8, <2>3, <2>5 DEF RUncount, CountOut
<1>9. CASE RStatLoad(r)
  BY <1>9, SameCount DEF RStatLoad, LoadTotal
<1>10. CASE RStatStore(r)
  BY <1>10, SameCount DEF RStatStore, StoreReadTotal
<1>11. CASE RLast(r)
  BY <1>11, SameCount DEF RLast, TestLast
<1>12. CASE RPostRw(r)
  BY <1>12, SameCount DEF RPostRw, UnlockRw, SemPost
<1>13. CASE RRelease(r)
  BY <1>13, SameCount DEF RRelease, UnlockMutex, SemPost
<1>14. CASE RQueue(r)
  BY <1>14, SameCount DEF RQueue, LockQueue, SemWait
<1>15. CASE RUnqueue(r)
  BY <1>15, SameCount DEF RUnqueue, UnlockQueue, SemPost
<1>16. QED
  BY <1>1, <1>2, <1>3, <1>4, <1>5, <1>6, <1>7, <1>8, <1>9, <1>10, <1>11,
     <1>12, <1>13, <1>14, <1>15 DEF Reader

LEMMA WriterKeeps == ASSUME IndInv, NEW w \in Writers, Writer(w)
                     PROVE  IndInv'
<1> USE ThreadsAssumption, SameCount
    DEF IndInv, TypeOK, OneHasQueue, QueueMatches, OneHasMutex, MutexMatches,
        FirstAndLast, RwMatches, GroupExclusion, HasQueue, MayRead, ReaderLabels, WriterLabels, Threads, HasMutex, Counted,
        HasRw, GroupHasRw, Goto, sems, data, stats
<1>1. CASE WLoop(w)
  BY <1>1 DEF WLoop, Loop
<1>2. CASE WWaitRw(w)
  BY <1>2 DEF WWaitRw, LockRw, SemWait
<1>3. CASE WStatLoad(w)
  BY <1>3 DEF WStatLoad, LoadTotal
<1>4. CASE WStatStore(w)
  BY <1>4 DEF WStatStore, StoreWriteTotal
<1>5. CASE WLoad(w)
  <2>1. temp' \in [Writers -> Word]
    <3>1. (temp[w] + shared_int + 10) % IntSize \in Word
      BY IntAssumption DEF Word
    <3>2. QED
      BY <1>5, <3>1 DEF WLoad, LoadShared
  <2>2. QED
    BY <1>5, <2>1 DEF WLoad, LoadShared
<1>6. CASE WStore(w)
  BY <1>6 DEF WStore, StoreShared
<1>7. CASE WPostRw(w)
  BY <1>7 DEF WPostRw, UnlockRw, SemPost
<1>8. CASE WQueue(w)
  BY <1>8 DEF WQueue, LockQueue, SemWait
<1>9. CASE WUnqueue(w)
  BY <1>9 DEF WUnqueue, UnlockQueue, SemPost
<1>10. QED
  BY <1>1, <1>2, <1>3, <1>4, <1>5, <1>6, <1>7, <1>8, <1>9 DEF Writer

LEMMA StepKeeps == IndInv /\ [Next]_vars => IndInv'
<1> SUFFICES ASSUME IndInv, [Next]_vars PROVE IndInv'
  OBVIOUS
<1> USE DEF vars, rwvars, sems, data, stats
<1>1. ASSUME UNCHANGED <<pc, i, sems, queue_mutex, read_count, data, stats>>, reported' \in BOOLEAN
      PROVE  IndInv'
  BY <1>1, SameCount
  DEF IndInv, TypeOK, OneHasQueue, QueueMatches, OneHasMutex, MutexMatches,
      FirstAndLast, RwMatches, GroupExclusion, HasQueue, MayRead, Threads, HasMutex, Counted, HasRw, GroupHasRw
<1>2. CASE Join
  BY <1>1, <1>2 DEF Join, Report
<1>3. CASE UNCHANGED vars
  BY <1>1, <1>3 DEF IndInv, TypeOK
<1>4. QED
  BY <1>2, <1>3, ReaderKeeps, WriterKeeps DEF Next, Returned

(* What holds in every state of A2Q3.c. *)
THEOREM Invariance == Spec => []IndInv
BY InitEstablishes, StepKeeps, PTL DEF Spec

(* Every variable keeps its type; the semaphores stay binary. *)
THEOREM TypeCorrect == Spec => []TypeOK
<1>1. IndInv => TypeOK
  BY DEF IndInv
<1>2. QED
  BY <1>1, Invariance, PTL

(* Readers and writers exclude each other, and writers each other, for any *)
(* number of each.                                                         *)
THEOREM MutualExclusion == Spec => []Exclusion
<1>1. IndInv => Exclusion
  BY DEF IndInv, GroupExclusion, OneHasQueue, Exclusion, GroupHasRw, HasRw,
         HasQueue, Threads
<1>2. QED
  BY <1>1, Invariance, PTL

(* read_count is touched by one thread at a time and counts exactly. *)
THEOREM ExactCount == Spec => []MutexGuardsCount
<1>1. IndInv => MutexGuardsCount
  BY DEF IndInv, MutexGuardsCount
<1>2. QED
  BY <1>1, Invariance, PTL

(* The reader that asks for rw_mutex finds it posted. *)
THEOREM FirstReaderIsAdmitted == Spec => []FirstReaderNeverBlocks
<1>1. IndInv => FirstReaderNeverBlocks
  <2> SUFFICES ASSUME IndInv, NEW r \in Readers, pc[r] = "wait_rw"
               PROVE  rw_mutex = 1
    BY DEF FirstReaderNeverBlocks
  <2>1. HasQueue(r) /\ HasMutex(r)
    BY DEF HasQueue, HasMutex
  <2>2. \A w \in Writers : ~HasRw(w)
    BY <2>1, ThreadsAssumption
    DEF IndInv, OneHasQueue, HasQueue, HasRw, Threads
  <2>3. \A s \in Readers : ~GroupHasRw(s)
    BY <2>1 DEF IndInv, OneHasMutex, FirstAndLast, GroupHasRw, MayRead, HasMutex
  <2>4. QED
    BY <2>2, <2>3 DEF IndInv, TypeOK, RwMatches
<1>2. QED
  BY <1>1, Invariance, PTL

(* While a writer has its turn no reader comes in. *)
THEOREM WriterIsNotPassed == Spec => NoReaderPassesWriter
<1>1. IndInv /\ [Next]_vars =>
        [(\E w \in Writers : HasQueue(w)) => read_count' <= read_count]_vars
  <2> SUFFICES ASSUME IndInv, Next, NEW w \in Writers, HasQueue(w)
               PROVE  read_count' <= read_count
    BY DEF vars
  <2>1. read_count \in Nat
    BY DEF IndInv, TypeOK
  <2>2. ASSUME NEW r \in Readers PROVE ~RCount(r)
    BY <2>2, ThreadsAssumption
    DEF IndInv, OneHasQueue, HasQueue, Threads, RCount, CountIn, Goto
  <2>3. ASSUME NEW r \in Readers, Reader(r) PROVE read_count' <= read_count
    BY <2>1, <2>2, <2>3
    DEF Reader, RLoop, Loop, RQueue, LockQueue, REnter, LockMutex, RWaitRw,
        LockRw, RAdmit, UnlockMutex, RUnqueue, UnlockQueue, RStatLoad,
        LoadTotal, RStatStore, StoreReadTotal, RRead, ReadShared, RLeave,
        RUncount, CountOut, RLast, TestLast, RPostRw, UnlockRw, RRelease
  <2>4. ASSUME NEW v \in Writers, Writer(v) PROVE read_count' <= read_count
    BY <2>1, <2>4
    DEF Writer, WLoop, Loop, WQueue, LockQueue, WWaitRw, LockRw, WStatLoad,
        LoadTotal, WStatStore, StoreWriteTotal, WLoad, LoadShared, WStore,
        StoreShared, WPostRw, UnlockRw, WUnqueue, UnlockQueue
  <2>5. QED
    BY <2>1, <2>3, <2>4 DEF Next, Join, Report, Returned, vars, rwvars
<1>2. QED
  BY <1>1, Invariance, PTL DEF Spec, NoReaderPassesWriter

-----------------------------------------------------------------------------
(* The steps of A2Q3.c as steps of RWLock: a reader enters when it passes  *)
(* rw_mutex or finds others in before it, and leaves when it counts itself *)
(* out; a writer has the lock between its two calls on rw_mutex; every     *)
(* other step is a stutter.                                                *)
Reading == {r \in Readers : MayRead(r)}
Writing == {w \in Writers : HasRw(w)}

LEMMA SameHolders ==
  ASSUME \A r \in Readers : MayRead(r)' <=> MayRead(r),
         \A w \in Writers : HasRw(w)' <=> HasRw(w)
  PROVE  Reading' = Reading /\ Writing' = Writing
BY DEF Reading, Writing

LEMMA ReaderImplements == ASSUME IndInv, NEW r \in Readers, Reader(r)
                          PROVE  [Lock!Next]_(Lock!vars)
<1> USE DEF Lock!vars, MayRead, Counted, HasRw, Goto, data
<1>w. /\ pc \in [Threads -> ReaderLabels \cup WriterLabels]
      /\ r \in Threads /\ r \notin Writers
  BY ThreadsAssumption DEF IndInv, TypeOK, Threads
<1> DEFINE Enters == /\ Reading' = Reading \cup {r} /\ r \notin Reading
                     /\ Writing = {} /\ Writing' = {}
                     /\ shared_int' = shared_int
<1>e. ASSUME Enters PROVE Lock!Next
  BY <1>e DEF Lock!Next, Lock!EnterRead, Reading, Writing
<1>1. CASE RLoop(r)
  BY <1>w, <1>1, SameHolders DEF RLoop, Loop, Reading, Writing
<1>2. CASE REnter(r)
  BY <1>w, <1>2, SameHolders DEF REnter, LockMutex, Reading, Writing
<1>3. CASE RCount(r)
  <2>1. CASE read_count' = 1
    BY <1>w, <1>3, <2>1, SameHolders DEF RCount, CountIn, Reading, Writing
  <2>2. CASE read_count' # 1
    <3>1. PICK s \in Readers : Counted(s)
      BY <1>3, <2>2, ZeroCount DEF IndInv, RCount, CountIn
    <3>2. HasMutex(r)
      BY <1>3 DEF RCount, CountIn, HasMutex
    <3>3. GroupHasRw(s)
      BY <1>3, <3>1, <3>2
      DEF IndInv, OneHasMutex, HasMutex, Counted, GroupHasRw, RCount, CountIn
    <3>4. \A w \in Writers : ~HasRw(w)
      BY <3>3 DEF IndInv, GroupExclusion
    <3>5. Enters
      BY <1>w, <1>3, <2>2, <3>4 DEF RCount, CountIn, Reading, Writing
    <3>6. QED
      BY <1>e, <3>5
  <2>3. QED
    BY <2>1, <2>2
<1>4. CASE RWaitRw(r)
  <2>1. \A w \in Writers : ~HasRw(w)
    BY <1>4 DEF IndInv, TypeOK, RwMatches, RWaitRw, LockRw, SemWait
  <2>2. Enters
    BY <1>w, <1>4, <2>1 DEF RWaitRw, LockRw, Reading, Writing
  <2>3. QED
    BY <1>e, <2>2
<1>5. CASE RAdmit(r)
  BY <1>w, <1>5, SameHolders DEF RAdmit, UnlockMutex, Reading, Writing
<1>6. CASE RRead(r)
  BY <1>w, <1>6, SameHolders DEF RRead, ReadShared, Reading, Writing
<1>7. CASE RLeave(r)
  BY <1>w, <1>7, SameHolders DEF RLeave, LockMutex, Reading, Writing
<1>8. CASE RUncount(r)
  <2>1. Reading' = Reading \ {r} /\ r \in Reading /\ Writing' = Writing
    BY <1>w, <1>8 DEF RUncount, CountOut, Reading, Writing
  <2>2. QED
    BY <1>8, <2>1
    DEF RUncount, CountOut, Lock!Next, Lock!LeaveRead, Reading, Writing
<1>9. CASE RStatLoad(r)
  BY <1>w, <1>9, SameHolders DEF RStatLoad, LoadTotal, Reading, Writing
<1>10. CASE RStatStore(r)
  BY <1>w, <1>10, SameHolders DEF RStatStore, StoreReadTotal, Reading, Writing
<1>11. CASE RLast(r)
  BY <1>w, <1>11, SameHolders DEF RLast, TestLast, Reading, Writing
<1>12. CASE RPostRw(r)
  BY <1>w, <1>12, SameHolders DEF RPostRw, UnlockRw, Reading, Writing
<1>13. CASE RRelease(r)
  BY <1>w, <1>13, SameHolders DEF RRelease, UnlockMutex, Reading, Writing
<1>14. CASE RQueue(r)
  BY <1>w, <1>14, SameHolders DEF RQueue, LockQueue, Reading, Writing
<1>15. CASE RUnqueue(r)
  BY <1>w, <1>15, SameHolders DEF RUnqueue, UnlockQueue, Reading, Writing
<1>16. QED
  BY <1>1, <1>2, <1>3, <1>4, <1>5, <1>6, <1>7, <1>8, <1>9, <1>10, <1>11,
     <1>12, <1>13, <1>14, <1>15 DEF Reader

LEMMA WriterImplements == ASSUME IndInv, NEW w \in Writers, Writer(w)
                          PROVE  [Lock!Next]_(Lock!vars)
<1> USE DEF Lock!vars, MayRead, Counted, HasRw, Goto, data
<1>w. /\ pc \in [Threads -> ReaderLabels \cup WriterLabels]
      /\ w \in Threads /\ w \notin Readers
  BY ThreadsAssumption DEF IndInv, TypeOK, Threads
<1>1. CASE WLoop(w)
  BY <1>w, <1>1, SameHolders DEF WLoop, Loop, Reading, Writing
<1>2. CASE WWaitRw(w)
  <2>1. Reading = {} /\ Writing = {}
    BY <1>2 DEF IndInv, TypeOK, RwMatches, WWaitRw, LockRw, SemWait, Reading,
                Writing, GroupHasRw
  <2>2. Writing' = {w} /\ Reading' = Reading
    BY <1>w, <1>2, <2>1 DEF WWaitRw, LockRw, Reading, Writing
  <2>3. QED
    BY <1>2, <2>1, <2>2
    DEF WWaitRw, LockRw, Lock!Next, Lock!EnterWrite, Reading, Writing
<1>3. CASE WStatLoad(w)
  BY <1>w, <1>3, SameHolders DEF WStatLoad, LoadTotal, Reading, Writing
<1>4. CASE WStatStore(w)
  BY <1>w, <1>4, SameHolders DEF WStatStore, StoreWriteTotal, Reading, Writing
<1>5. CASE WLoad(w)
  BY <1>w, <1>5, SameHolders DEF WLoad, LoadShared, Reading, Writing
<1>6. CASE WStore(w)
  <2>1. w \in Writing /\ Reading' = Reading /\ Writing' = Writing
    BY <1>w, <1>6 DEF WStore, StoreShared, Reading, Writing
  <2>2. shared_int' \in Word
    BY <1>6 DEF WStore, StoreShared, IndInv, TypeOK
  <2>3. QED
    BY <2>1, <2>2 DEF Lock!Next, Lock!Write, Reading, Writing
<1>7. CASE WPostRw(w)
  <2>1. w \in Writing /\ Writing' = Writing \ {w} /\ Reading' = Reading
    BY <1>w, <1>7 DEF WPostRw, UnlockRw, Reading, Writing
  <2>2. QED
    BY <1>7, <2>1
    DEF WPostRw, UnlockRw, Lock!Next, Lock!LeaveWrite, Reading, Writing
<1>8. CASE WQueue(w)
  BY <1>w, <1>8, SameHolders DEF WQueue, LockQueue, Reading, Writing
<1>9. CASE WUnqueue(w)
  BY <1>w, <1>9, SameHolders DEF WUnqueue, UnlockQueue, Reading, Writing
<1>10. QED
  BY <1>1, <1>2, <1>3, <1>4, <1>5, <1>6, <1>7, <1>8, <1>9 DEF Writer

(* A2Q3.c implements the readers-writers lock. *)
THEOREM Implements == Spec => ImplementsRWLock
<1>1. Init => Lock!Init
  <2> SUFFICES ASSUME Init PROVE Lock!Init
    OBVIOUS
  <2>1. shared_int \in Word
    BY InitEstablishes DEF IndInv, TypeOK
  <2>2. {r \in Readers : MayRead(r)} = {} /\ {w \in Writers : HasRw(w)} = {}
    BY DEF Init, RWInit, MayRead, Counted, HasRw, Threads
  <2>3. QED
    BY <2>1, <2>2 DEF Lock!Init
<1>2. IndInv /\ [Next]_vars => [Lock!Next]_(Lock!vars)
  <2> SUFFICES ASSUME IndInv, [Next]_vars PROVE [Lock!Next]_(Lock!vars)
    OBVIOUS
  <2>1. CASE Join \/ UNCHANGED vars
    BY <2>1 DEF Join, Report, vars, rwvars, data, Lock!vars, MayRead, Counted, HasRw
  <2>2. QED
    BY <2>1, ReaderImplements, WriterImplements DEF Next, Returned
<1>3. QED
  BY <1>1, <1>2, Invariance, PTL DEF Spec, ImplementsRWLock, Lock!Spec
=============================================================================
