----------------------- MODULE ReadersPreference_proofs -----------------------
(***************************************************************************)
(* Proofs about A2Q1.c for any numbers of threads and of iterations.       *)
(***************************************************************************)
EXTENDS ReadersPreference, FiniteSetTheorems, TLAPS

CountedSet == {r \in Readers : Counted(r)}

(* The readers counted are finitely many, and none of them exactly when    *)
(* their number is 0.                                                      *)
LEMMA CountedIsFinite ==
  /\ IsFiniteSet(CountedSet)
  /\ Cardinality(CountedSet) \in Nat
  /\ Cardinality(CountedSet) = 0 <=> CountedSet = {}
<1>1. CountedSet \subseteq Readers
  BY DEF CountedSet
<1>2. IsFiniteSet(CountedSet)
  BY <1>1, ThreadsAssumption, FS_Subset
<1>3. QED
  BY <1>2, FS_CardinalityType, FS_EmptySet

(* read_count as the tests in CountIn and TestLast use it: it is 0 exactly *)
(* when no reader is counted.                                              *)
LEMMA ZeroCount ==
  ASSUME CountMatches
  PROVE  /\ read_count \in Nat
         /\ read_count = 0 <=> \A s \in Readers : ~Counted(s)
<1>1. read_count = Cardinality(CountedSet)
  BY DEF CountMatches, CountedSet
<1>2. QED
  BY <1>1, CountedIsFinite DEF CountedSet

LEMMA InitLock == Init => LockInv
<1> SUFFICES ASSUME Init PROVE LockInv
  OBVIOUS
<1> USE DEF Init, RWInit, Threads
<1>1. shared_int \in Word
  BY IntAssumption DEF Word
<1>2. TypeOK
  BY <1>1 DEF TypeOK, ReaderLabels, WriterLabels
<1>3. {r \in Readers : Counted(r)} = {}
  BY DEF Counted
<1>4. CountMatches
  BY <1>3, FS_EmptySet DEF CountMatches
<1>5. QED
  BY <1>2, <1>4 DEF LockInv, OneHasMutex, MutexMatches, FirstAndLast, RwMatches,
     GroupExclusion, HasMutex, Counted, HasRw, GroupHasRw

(* A step that counts no reader in or out leaves CountMatches true. *)
LEMMA SameCount ==
  ASSUME CountMatches, UNCHANGED read_count,
         \A s \in Readers : Counted(s)' <=> Counted(s)
  PROVE  CountMatches'
<1>1. {s \in Readers : Counted(s)}' = {s \in Readers : Counted(s)}
  OBVIOUS
<1>2. QED
  BY <1>1 DEF CountMatches

LEMMA ReaderKeeps == ASSUME LockInv, NEW r \in Readers, Reader(r)
                     PROVE  LockInv'
<1> USE ThreadsAssumption, ZeroCount
    DEF LockInv, TypeOK, OneHasMutex, MutexMatches, FirstAndLast, RwMatches,
        GroupExclusion, ReaderLabels, WriterLabels, Threads, HasMutex, Counted,
        HasRw, GroupHasRw, Goto, sems, data, stats
<1>1. CASE RLoop(r)
  BY <1>1, SameCount DEF RLoop, Loop
<1>2. CASE REnter(r)
  BY <1>2, SameCount DEF REnter, LockMutex, SemWait
<1>3. CASE RCount(r)
  <2>1. CountedSet' = CountedSet \cup {r} /\ r \notin CountedSet
    BY <1>3 DEF RCount, CountIn, CountedSet
  <2>2. Cardinality(CountedSet') = Cardinality(CountedSet) + 1
    BY <2>1, CountedIsFinite, FS_AddElement
  <2>3. CountMatches'
    BY <1>3, <2>2 DEF RCount, CountIn, CountMatches, CountedSet
  <2>4. QED
    BY <1>3, <2>3 DEF RCount, CountIn
<1>4. CASE RWaitRw(r)
  BY <1>4, SameCount DEF RWaitRw, LockRw, SemWait
<1>5. CASE RAdmit(r)
  BY <1>5, SameCount DEF RAdmit, UnlockMutex, SemPost
<1>6. CASE RRead(r)
  BY <1>6, SameCount DEF RRead, ReadShared
<1>7. CASE RLeave(r)
  BY <1>7, SameCount DEF RLeave, LockMutex, SemWait
<1>8. CASE RUncount(r)
  <2>1. CountedSet' = CountedSet \ {r} /\ r \in CountedSet
    BY <1>8 DEF RUncount, CountOut, CountedSet
  <2>2. Cardinality(CountedSet') = Cardinality(CountedSet) - 1
    BY <2>1, CountedIsFinite, FS_RemoveElement
  <2>3. CountMatches'
    BY <1>8, <2>2 DEF RUncount, CountOut, CountMatches, CountedSet
  <2>4. read_count # 0
    BY <2>1 DEF CountedSet
  <2>5. read_count' \in Nat
    BY <1>8, <2>4 DEF RUncount, CountOut
  <2>6. QED
    BY <1>8, <2>3, <2>5 DEF RUncount, CountOut
<1>9. CASE RStatLoad(r)
  BY <1>9, SameCount DEF RStatLoad, LoadTotal
<1>10. CASE RStatStore(r)
  BY <1>10, SameCount DEF RStatStore, StoreReadTotal
<1>11. CASE RLast(r)
  BY <1>11, SameCount DEF RLast, TestLast
<1>12. CASE RPostRw(r)
  BY <1>12, SameCount DEF RPostRw, UnlockRw, SemPost
<1>13. CASE RRelease(r)
  BY <1>13, SameCount DEF RRelease, UnlockMutex, SemPost
<1>14. QED
  BY <1>1, <1>2, <1>3, <1>4, <1>5, <1>6, <1>7, <1>8, <1>9, <1>10, <1>11,
     <1>12, <1>13 DEF Reader

LEMMA WriterKeeps == ASSUME LockInv, NEW w \in Writers, Writer(w)
                     PROVE  LockInv'
<1> USE ThreadsAssumption, SameCount
    DEF LockInv, TypeOK, OneHasMutex, MutexMatches, FirstAndLast, RwMatches,
        GroupExclusion, ReaderLabels, WriterLabels, Threads, HasMutex, Counted,
        HasRw, GroupHasRw, Goto, sems, data, stats
<1>1. CASE WLoop(w)
  BY <1>1 DEF WLoop, Loop
<1>2. CASE WWaitRw(w)
  BY <1>2 DEF WWaitRw, LockRw, SemWait
<1>3. CASE WStatLoad(w)
  BY <1>3 DEF WStatLoad, LoadTotal
<1>4. CASE WStatStore(w)
  BY <1>4 DEF WStatStore, StoreWriteTotal
<1>5. CASE WLoad(w)
  <2>1. temp' \in [Writers -> Word]
    <3>1. (temp[w] + shared_int + 10) % IntSize \in Word
      BY IntAssumption DEF Word
    <3>2. QED
      BY <1>5, <3>1 DEF WLoad, LoadShared
  <2>2. QED
    BY <1>5, <2>1 DEF WLoad, LoadShared
<1>6. CASE WStore(w)
  BY <1>6 DEF WStore, StoreShared
<1>7. CASE WPostRw(w)
  BY <1>7 DEF WPostRw, UnlockRw, SemPost
<1>8. QED
  BY <1>1, <1>2, <1>3, <1>4, <1>5, <1>6, <1>7 DEF Writer

LEMMA LockKeeps == LockInv /\ [Next]_vars => LockInv'
<1> SUFFICES ASSUME LockInv, [Next]_vars PROVE LockInv'
  OBVIOUS
<1> USE DEF vars, rwvars, sems, data, stats
<1>1. ASSUME UNCHANGED <<pc, i, sems, read_count, data, stats>>, reported' \in BOOLEAN
      PROVE  LockInv'
  BY <1>1, SameCount
  DEF LockInv, TypeOK, OneHasMutex, MutexMatches, FirstAndLast, RwMatches,
      GroupExclusion, HasMutex, Counted, HasRw, GroupHasRw
<1>2. CASE Report
  BY <1>1, <1>2 DEF Report
<1>3. CASE UNCHANGED vars
  BY <1>1, <1>3 DEF LockInv, TypeOK
<1>4. QED
  BY <1>2, <1>3, ReaderKeeps, WriterKeeps DEF Next, Returned

-----------------------------------------------------------------------------
(* The sums of the waits *)

(* The waits added, as pairs of a thread and a turn: one thread that adds  *)
(* another makes them one more.                                            *)
LEMMA WaitsAreFinite ==
  ASSUME NEW S, IsFiniteSet(S), NEW turns \in Nat
  PROVE  IsFiniteSet(Waits(S, turns)) /\ Cardinality(Waits(S, turns)) \in Nat
<1>1. IsFiniteSet(S \X (1 .. turns))
  <2>1. IsFiniteSet(1 .. turns)
    BY FS_Interval
  <2>2. QED
    BY <2>1, FS_Product
<1>2. Waits(S, turns) \subseteq S \X (1 .. turns)
  BY DEF Waits
<1>3. QED
  BY <1>1, <1>2, FS_Subset, FS_CardinalityType

LEMMA SameWaits ==
  ASSUME NEW S, NEW turns \in Nat, \A t \in S : Added(t)' = Added(t)
  PROVE  Waits(S, turns)' = Waits(S, turns)
<1>1. \A wait \in S \X (1 .. turns) : Added(wait[1])' = Added(wait[1])
  OBVIOUS
<1>2. QED
  BY <1>1 DEF Waits

LEMMA OneMoreWait ==
  ASSUME NEW S, IsFiniteSet(S), NEW turns \in Nat, NEW t \in S,
         \A s \in S \ {t} : Added(s)' = Added(s),
         Added(t) \in Int, Added(t)' = Added(t) + 1, Added(t)' \in 1 .. turns
  PROVE  Cardinality(Waits(S, turns)') = Cardinality(Waits(S, turns)) + 1
<1> DEFINE new == <<t, Added(t) + 1>>
<1>1. new \in S \X (1 .. turns) /\ new \notin Waits(S, turns)
  BY DEF Waits
<1>2. ASSUME NEW wait \in S \X (1 .. turns)
      PROVE  wait \in Waits(S, turns)' <=> wait \in Waits(S, turns) \/ wait = new
  <2>1. wait = <<wait[1], wait[2]>> /\ wait[1] \in S /\ wait[2] \in 1 .. turns
    BY <1>2
  <2>2. CASE wait[1] = t
    BY <2>1, <2>2 DEF Waits
  <2>3. CASE wait[1] # t
    BY <2>1, <2>3 DEF Waits
  <2>4. QED
    BY <2>2, <2>3
<1>3. Waits(S, turns)' = Waits(S, turns) \cup {new}
  <2>1. Waits(S, turns)' \subseteq S \X (1 .. turns) /\ Waits(S, turns) \subseteq S \X (1 .. turns)
    BY DEF Waits
  <2>2. QED
    BY <1>1, <1>2, <2>1
<1>4. QED
  BY <1>1, <1>3, WaitsAreFinite, FS_AddElement

LEMMA TurnsAreNats ==
  /\ ReadTurns \in Nat /\ WriteTurns \in Nat
  /\ \A k \in Nat : k < NUMBER_OF_READS => k + 1 \in 1 .. ReadTurns
  /\ \A k \in 0 .. ReadTurns : ~(k < NUMBER_OF_READS) => k = ReadTurns
  /\ \A k \in Nat : k < NUMBER_OF_WRITES => k + 1 \in 1 .. WriteTurns
  /\ \A k \in 0 .. WriteTurns : ~(k < NUMBER_OF_WRITES) => k = WriteTurns
BY ArgumentsAssumption DEF ReadTurns, WriteTurns

(* A turn of the loop begins, or the thread returns. *)
LEMMA LoopAdds ==
  ASSUME TypeOK, NEW t \in Threads, NEW turns \in Nat, NEW bound, NEW entry,
         \A k \in Nat : k < bound => k + 1 \in 1 .. turns,
         \A k \in 0 .. turns : ~(k < bound) => k = turns,
         entry \notin HasAdded \cup {"done", "stat_store"},
         InTurn(t, turns), Loop(t, bound, entry)
  PROVE  InTurn(t, turns)' /\ Added(t)' = Added(t) /\ pc'[t] # "stat_store"
<1>1. i[t] \in Nat /\ i[t] \in 0 .. turns /\ pc[t] = "loop" /\ i'[t] = i[t] + 1
  BY DEF TypeOK, Loop, Goto, InTurn
<1>2. pc'[t] = IF i[t] < bound THEN entry ELSE "done"
  BY DEF TypeOK, Loop, Goto
<1>3. CASE i[t] < bound
  BY <1>1, <1>2, <1>3 DEF InTurn, Added, HasAdded
<1>4. CASE ~(i[t] < bound)
  BY <1>1, <1>2, <1>4 DEF InTurn, Added, HasAdded
<1>5. QED
  BY <1>3, <1>4

(* What a step of t leaves alone. *)
Alone(t) ==
  /\ pc' = [pc EXCEPT ![t] = pc'[t]]
  /\ i' = [i EXCEPT ![t] = i'[t]]
  /\ reg' = [reg EXCEPT ![t] = reg'[t]]
  /\ reported' = reported /\ pc[t] # "done"

LEMMA OthersWait ==
  ASSUME TypeOK, NEW t \in Threads, Alone(t), NEW s \in Threads, s # t, NEW turns
  PROVE  /\ pc'[s] = pc[s] /\ reg'[s] = reg[s] /\ Added(s)' = Added(s)
         /\ InTurn(s, turns) => InTurn(s, turns)'
<1>1. pc'[s] = pc[s] /\ i'[s] = i[s] /\ reg'[s] = reg[s]
  BY DEF TypeOK, Alone
<1>2. QED
  BY <1>1 DEF Added, InTurn

LEMMA ReaderAlone ==
  ASSUME TypeOK, NEW r \in Readers, Reader(r) PROVE Alone(r) /\ total_write_time' = total_write_time
<1> USE DEF TypeOK, Threads, Alone, Goto, stats
<1>1. CASE RLoop(r) \/ REnter(r) \/ RCount(r) \/ RWaitRw(r)
  BY <1>1 DEF RLoop, Loop, REnter, RCount, RWaitRw, LockMutex, CountIn, LockRw
<1>2. CASE RAdmit(r) \/ RRead(r) \/ RLeave(r) \/ RUncount(r)
  BY <1>2 DEF RAdmit, RRead, RLeave, RUncount, UnlockMutex, ReadShared, LockMutex, CountOut
<1>3. CASE RStatLoad(r) \/ RStatStore(r)
  BY <1>3 DEF RStatLoad, RStatStore, LoadTotal, StoreReadTotal
<1>4. CASE RLast(r) \/ RPostRw(r) \/ RRelease(r)
  BY <1>4 DEF RLast, RPostRw, RRelease, TestLast, UnlockRw, UnlockMutex
<1>5. QED
  BY <1>1, <1>2, <1>3, <1>4 DEF Reader

LEMMA WriterAlone ==
  ASSUME TypeOK, NEW w \in Writers, Writer(w) PROVE Alone(w) /\ total_read_time' = total_read_time
<1> USE DEF TypeOK, Threads, Alone, Goto, stats
<1>1. CASE WLoop(w) \/ WWaitRw(w) \/ WPostRw(w)
  BY <1>1 DEF WLoop, Loop, WWaitRw, LockRw, WPostRw, UnlockRw
<1>2. CASE WStatLoad(w) \/ WStatStore(w)
  BY <1>2 DEF WStatLoad, WStatStore, LoadTotal, StoreWriteTotal
<1>3. CASE WLoad(w) \/ WStore(w)
  BY <1>3 DEF WLoad, WStore, LoadShared, StoreShared
<1>4. QED
  BY <1>1, <1>2, <1>3 DEF Writer

(* A step between two statements of the same turn. *)
LEMMA SameTurn ==
  ASSUME NEW t, NEW turns \in Nat, InTurn(t, turns), i'[t] = i[t], pc[t] # "done",
         pc[t] # "loop", pc'[t] \notin {"done", "loop"},
         pc[t] \in HasAdded <=> pc'[t] \in HasAdded
  PROVE  InTurn(t, turns)' /\ Added(t)' = Added(t)
BY DEF InTurn, Added

LEMMA SumsInvParts ==
  ASSUME SumsInv
  PROVE  /\ \A r \in Readers : /\ InTurn(r, ReadTurns)
                               /\ pc[r] = "stat_store" => reg[r] = total_read_time
         /\ \A w \in Writers : /\ InTurn(w, WriteTurns)
                               /\ pc[w] = "stat_store" => reg[w] = total_write_time
         /\ total_read_time = Cardinality(Waits(Readers, ReadTurns))
         /\ total_write_time = Cardinality(Waits(Writers, WriteTurns))
         /\ ReadTurns \in Nat /\ WriteTurns \in Nat
<1>1. ReadTurns \in Nat /\ WriteTurns \in Nat
  BY TurnsAreNats
<1>2. QED
  BY <1>1, Zenon DEF SumsInv

LEMMA ReaderAdds == ASSUME LockInv, SumsInv, NEW r \in Readers, Reader(r) PROVE SumsInv'
<1>0. /\ \A s \in Readers : /\ InTurn(s, ReadTurns)
                            /\ pc[s] = "stat_store" => reg[s] = total_read_time
      /\ \A w \in Writers : /\ InTurn(w, WriteTurns)
                            /\ pc[w] = "stat_store" => reg[w] = total_write_time
      /\ total_read_time = Cardinality(Waits(Readers, ReadTurns))
      /\ total_write_time = Cardinality(Waits(Writers, WriteTurns))
      /\ ReadTurns \in Nat /\ WriteTurns \in Nat
  BY SumsInvParts
<1>1. /\ TypeOK /\ IsFiniteSet(Readers) /\ Readers \cap Writers = {}
      /\ Readers \subseteq Threads /\ Writers \subseteq Threads
  BY ThreadsAssumption DEF LockInv, Threads
<1>2. Alone(r) /\ total_write_time' = total_write_time /\ pc[r] # "done" /\ InTurn(r, ReadTurns)
  BY <1>0, <1>1, ReaderAlone DEF Alone
<1>3. /\ \A w \in Writers : /\ InTurn(w, WriteTurns)'
                            /\ pc'[w] = "stat_store" => reg'[w] = total_write_time'
      /\ Waits(Writers, WriteTurns)' = Waits(Writers, WriteTurns)
  <2>1. ASSUME NEW w \in Writers
        PROVE  /\ InTurn(w, WriteTurns)' /\ Added(w)' = Added(w)
               /\ pc'[w] = "stat_store" => reg'[w] = total_write_time'
    BY <1>0, <1>1, <1>2, <2>1, OthersWait
  <2>2. QED
    BY <1>0, <2>1, SameWaits
<1>4. ~reported'
  BY <1>1, <1>2 DEF Alone, SumsInv, AllDone
<1>5. \A s \in Readers \ {r} : /\ InTurn(s, ReadTurns)' /\ Added(s)' = Added(s)
                               /\ pc'[s] = "stat_store" => pc[s] = "stat_store" /\ reg'[s] = reg[s]
  BY <1>0, <1>1, <1>2, OthersWait
<1>6. ASSUME InTurn(r, ReadTurns)', Added(r)' = Added(r), total_read_time' = total_read_time,
             pc'[r] = "stat_store" => reg'[r] = total_read_time
      PROVE  SumsInv'
  <2>1. Waits(Readers, ReadTurns)' = Waits(Readers, ReadTurns)
    BY <1>0, <1>5, <1>6, SameWaits
  <2>2. \A s \in Readers : /\ InTurn(s, ReadTurns)'
                           /\ pc'[s] = "stat_store" => reg'[s] = total_read_time'
    BY <1>0, <1>5, <1>6
  <2>3. QED
    BY <1>0, <1>2, <1>3, <1>4, <1>6, <2>1, <2>2 DEF SumsInv
<1>7. CASE RLoop(r)
  <2>1. InTurn(r, ReadTurns)' /\ Added(r)' = Added(r) /\ pc'[r] # "stat_store"
    BY <1>0, <1>1, <1>2, <1>7, LoopAdds, TurnsAreNats DEF RLoop, HasAdded
  <2>2. QED
    BY <1>6, <1>7, <2>1 DEF RLoop, Loop, stats
<1>8. CASE RStatLoad(r)
  <2>1. /\ pc[r] = "stat_load" /\ pc'[r] = "stat_store" /\ i'[r] = i[r]
        /\ reg'[r] = total_read_time /\ total_read_time' = total_read_time
    BY <1>1, <1>8 DEF RStatLoad, LoadTotal, Goto, TypeOK
  <2>2. QED
    BY <1>0, <1>2, <1>6, <2>1, SameTurn DEF HasAdded
<1>9. CASE RStatStore(r)
  <2>1. /\ pc[r] = "stat_store" /\ pc'[r] = "last" /\ i'[r] = i[r]
        /\ total_read_time' = reg[r] + 1
    BY <1>1, <1>9 DEF RStatStore, StoreReadTotal, Goto, TypeOK
  <2>2. InTurn(r, ReadTurns)' /\ Added(r) \in Int /\ Added(r)' = Added(r) + 1
        /\ Added(r)' \in 1 .. ReadTurns
    BY <1>0, <1>1, <1>2, <2>1 DEF InTurn, Added, HasAdded, TypeOK
  <2>3. total_read_time' = total_read_time + 1
    BY <1>0, <2>1
  <2>4. Cardinality(Waits(Readers, ReadTurns)') = Cardinality(Waits(Readers, ReadTurns)) + 1
    BY <1>0, <1>1, <1>5, <2>2, OneMoreWait
  <2>5. ASSUME NEW s \in Readers
        PROVE  InTurn(s, ReadTurns)' /\ pc'[s] # "stat_store"
    <3>1. CASE s = r
      BY <2>1, <2>2, <3>1
    <3>2. CASE s # r
      BY <1>5, <2>1, <3>2 DEF LockInv, OneHasMutex, HasMutex
    <3>3. QED
      BY <3>1, <3>2
  <2>6. QED
    BY <1>0, <1>2, <1>3, <1>4, <2>3, <2>4, <2>5 DEF SumsInv
<1>10. CASE RRelease(r)
  <2>1. /\ pc[r] = "release" /\ pc'[r] = "loop" /\ i'[r] = i[r]
        /\ total_read_time' = total_read_time
    BY <1>1, <1>10 DEF RRelease, UnlockMutex, Goto, TypeOK, stats
  <2>2. InTurn(r, ReadTurns)' /\ Added(r)' = Added(r)
    BY <1>0, <1>2, <2>1 DEF InTurn, Added, HasAdded
  <2>3. QED
    BY <1>6, <2>1, <2>2
<1>11. ASSUME \/ REnter(r) \/ RCount(r) \/ RWaitRw(r) \/ RAdmit(r) \/ RRead(r) \/ RLeave(r)
              \/ RUncount(r) \/ RLast(r) \/ RPostRw(r)
       PROVE  SumsInv'
  <2>1. i' = i /\ total_read_time' = total_read_time
    BY <1>11 DEF REnter, RCount, RWaitRw, RAdmit, RRead, RLeave, RUncount, RLast, RPostRw,
                 LockMutex, CountIn, LockRw, UnlockMutex, ReadShared, CountOut, TestLast,
                 UnlockRw, stats
  <2>2. /\ pc[r] # "loop" /\ pc'[r] \notin {"done", "loop", "stat_store"}
        /\ pc[r] \in HasAdded <=> pc'[r] \in HasAdded
    BY <1>1, <1>11 DEF REnter, RCount, RWaitRw, RAdmit, RRead, RLeave, RUncount, RLast, RPostRw,
                 LockMutex, CountIn, LockRw, UnlockMutex, ReadShared, CountOut, TestLast,
                 UnlockRw, Goto, TypeOK, HasAdded
  <2>3. QED
    BY <1>0, <1>2, <1>6, <2>1, <2>2, SameTurn
<1>12. QED
  BY <1>7, <1>8, <1>9, <1>10, <1>11 DEF Reader

LEMMA WriterAdds == ASSUME LockInv, SumsInv, NEW w \in Writers, Writer(w) PROVE SumsInv'
<1>1. /\ TypeOK /\ IsFiniteSet(Writers) /\ Readers \cap Writers = {}
      /\ Readers \subseteq Threads /\ Writers \subseteq Threads
  BY ThreadsAssumption DEF LockInv, Threads
<1>0. /\ \A r \in Readers : /\ InTurn(r, ReadTurns)
                            /\ pc[r] = "stat_store" => reg[r] = total_read_time
      /\ \A s \in Writers : /\ InTurn(s, WriteTurns)
                            /\ pc[s] = "stat_store" => reg[s] = total_write_time
      /\ total_read_time = Cardinality(Waits(Readers, ReadTurns))
      /\ total_write_time = Cardinality(Waits(Writers, WriteTurns))
      /\ ReadTurns \in Nat /\ WriteTurns \in Nat
  BY SumsInvParts
<1>2. Alone(w) /\ total_read_time' = total_read_time /\ pc[w] # "done" /\ InTurn(w, WriteTurns)
  BY <1>0, <1>1, WriterAlone DEF Alone
<1>3. /\ \A r \in Readers : /\ InTurn(r, ReadTurns)'
                            /\ pc'[r] = "stat_store" => reg'[r] = total_read_time'
      /\ Waits(Readers, ReadTurns)' = Waits(Readers, ReadTurns)
  <2>1. ASSUME NEW r \in Readers
        PROVE  /\ InTurn(r, ReadTurns)' /\ Added(r)' = Added(r)
               /\ pc'[r] = "stat_store" => reg'[r] = total_read_time'
    BY <1>0, <1>1, <1>2, <2>1, OthersWait
  <2>2. QED
    BY <1>0, <2>1, SameWaits
<1>4. ~reported'
  BY <1>1, <1>2 DEF Alone, SumsInv, AllDone
<1>5. \A s \in Writers \ {w} : /\ InTurn(s, WriteTurns)' /\ Added(s)' = Added(s)
                               /\ pc'[s] = "stat_store" => pc[s] = "stat_store" /\ reg'[s] = reg[s]
  BY <1>0, <1>1, <1>2, OthersWait
<1>6. ASSUME InTurn(w, WriteTurns)', Added(w)' = Added(w), total_write_time' = total_write_time,
             pc'[w] = "stat_store" => reg'[w] = total_write_time
      PROVE  SumsInv'
  <2>1. Waits(Writers, WriteTurns)' = Waits(Writers, WriteTurns)
    BY <1>0, <1>5, <1>6, SameWaits
  <2>2. \A s \in Writers : /\ InTurn(s, WriteTurns)'
                           /\ pc'[s] = "stat_store" => reg'[s] = total_write_time'
    BY <1>0, <1>5, <1>6
  <2>3. QED
    BY <1>0, <1>2, <1>3, <1>4, <1>6, <2>1, <2>2 DEF SumsInv
<1>7. CASE WLoop(w)
  <2>1. InTurn(w, WriteTurns)' /\ Added(w)' = Added(w) /\ pc'[w] # "stat_store"
    BY <1>0, <1>1, <1>2, <1>7, LoopAdds, TurnsAreNats DEF WLoop, HasAdded
  <2>2. QED
    BY <1>6, <1>7, <2>1 DEF WLoop, Loop, stats
<1>8. CASE WStatLoad(w)
  <2>1. /\ pc[w] = "stat_load" /\ pc'[w] = "stat_store" /\ i'[w] = i[w]
        /\ reg'[w] = total_write_time /\ total_write_time' = total_write_time
    BY <1>1, <1>8 DEF WStatLoad, LoadTotal, Goto, TypeOK
  <2>2. QED
    BY <1>0, <1>2, <1>6, <2>1, SameTurn DEF HasAdded
<1>9. CASE WStatStore(w)
  <2>1. /\ pc[w] = "stat_store" /\ pc'[w] = "load" /\ i'[w] = i[w]
        /\ total_write_time' = reg[w] + 1
    BY <1>1, <1>9 DEF WStatStore, StoreWriteTotal, Goto, TypeOK
  <2>2. InTurn(w, WriteTurns)' /\ Added(w) \in Int /\ Added(w)' = Added(w) + 1
        /\ Added(w)' \in 1 .. WriteTurns
    BY <1>0, <1>1, <1>2, <2>1 DEF InTurn, Added, HasAdded, TypeOK
  <2>3. total_write_time' = total_write_time + 1
    BY <1>0, <2>1
  <2>4. Cardinality(Waits(Writers, WriteTurns)') = Cardinality(Waits(Writers, WriteTurns)) + 1
    BY <1>0, <1>1, <1>5, <2>2, OneMoreWait
  <2>5. ASSUME NEW s \in Writers
        PROVE  InTurn(s, WriteTurns)' /\ pc'[s] # "stat_store"
    <3>1. CASE s = w
      BY <2>1, <2>2, <3>1
    <3>2. CASE s # w
      BY <1>5, <2>1, <3>2 DEF LockInv, GroupExclusion, HasRw
    <3>3. QED
      BY <3>1, <3>2
  <2>6. QED
    BY <1>0, <1>2, <1>3, <1>4, <2>3, <2>4, <2>5 DEF SumsInv
<1>10. CASE WPostRw(w)
  <2>1. /\ pc[w] = "post_rw" /\ pc'[w] = "loop" /\ i'[w] = i[w]
        /\ total_write_time' = total_write_time
    BY <1>1, <1>10 DEF WPostRw, UnlockRw, Goto, TypeOK, stats
  <2>2. InTurn(w, WriteTurns)' /\ Added(w)' = Added(w)
    BY <1>0, <1>2, <2>1 DEF InTurn, Added, HasAdded
  <2>3. QED
    BY <1>6, <2>1, <2>2
<1>11. ASSUME WWaitRw(w) \/ WLoad(w) \/ WStore(w)
       PROVE  SumsInv'
  <2>1. i' = i /\ total_write_time' = total_write_time
    BY <1>11 DEF WWaitRw, WLoad, WStore, LockRw, LoadShared, StoreShared, stats
  <2>2. /\ pc[w] # "loop" /\ pc'[w] \notin {"done", "loop", "stat_store"}
        /\ pc[w] \in HasAdded <=> pc'[w] \in HasAdded
    BY <1>1, <1>11 DEF WWaitRw, WLoad, WStore, LockRw, LoadShared, StoreShared, Goto, TypeOK,
                       HasAdded
  <2>3. QED
    BY <1>0, <1>2, <1>6, <2>1, <2>2, SameTurn
<1>12. QED
  BY <1>7, <1>8, <1>9, <1>10, <1>11 DEF Writer

LEMMA SumsKeep == ASSUME LockInv, SumsInv, [Next]_vars PROVE SumsInv'
<1>1. ASSUME UNCHANGED <<pc, i, reg, total_read_time, total_write_time>>,
             reported' => AllDone
      PROVE  SumsInv'
  BY <1>1 DEF SumsInv, AllDone, InTurn, Waits, Added
<1>2. CASE Report
  BY <1>1, <1>2 DEF Report, stats
<1>3. CASE UNCHANGED vars
  BY <1>1, <1>3 DEF vars, rwvars, stats, SumsInv
<1>4. QED
  BY <1>2, <1>3, ReaderAdds, WriterAdds DEF Next, Returned

LEMMA InitSums == Init => SumsInv
<1> SUFFICES ASSUME Init PROVE SumsInv
  OBVIOUS
<1>1. ASSUME NEW S \in {Readers, Writers}, NEW turns \in Nat
      PROVE  Waits(S, turns) = {} /\ \A t \in S : InTurn(t, turns) /\ pc[t] # "stat_store"
  <2>1. \A t \in S : Added(t) = 0 /\ pc[t] = "loop" /\ i[t] = 0
    BY <1>1 DEF Init, RWInit, Threads, Added, HasAdded
  <2>2. QED
    BY <2>1 DEF Waits, InTurn
<1>2. QED
  BY <1>1, TurnsAreNats, FS_EmptySet DEF SumsInv, Init, RWInit

(* What holds in every state of A2Q1.c. *)
THEOREM Invariance == Spec => []IndInv
<1>1. Init => IndInv
  BY InitLock, InitSums DEF IndInv
<1>2. IndInv /\ [Next]_vars => IndInv'
  BY LockKeeps, SumsKeep DEF IndInv
<1>3. QED
  BY <1>1, <1>2, PTL DEF Spec

(* Every variable keeps its type; the semaphores stay binary. *)
THEOREM TypeCorrect == Spec => []TypeOK
<1>1. IndInv => TypeOK
  BY DEF IndInv, LockInv
<1>2. QED
  BY <1>1, Invariance, PTL

(* Readers and writers exclude each other, and writers each other, for any *)
(* number of each.                                                         *)
THEOREM MutualExclusion == Spec => []Exclusion
<1>1. IndInv => Exclusion
  BY DEF IndInv, LockInv, GroupExclusion, Exclusion, MayRead, GroupHasRw
<1>2. QED
  BY <1>1, Invariance, PTL

(* read_count is touched by one thread at a time and counts exactly. *)
THEOREM ExactCount == Spec => []MutexGuardsCount
<1>1. IndInv => MutexGuardsCount
  BY DEF IndInv, LockInv, MutexGuardsCount
<1>2. QED
  BY <1>1, Invariance, PTL

(* main(): total_read_time and total_write_time have lost no wait when the *)
(* averages are printed.                                                   *)
THEOREM NoWaitIsLost == Spec => []AveragesComplete
<1>1. ASSUME NEW S, IsFiniteSet(S), NEW turns \in Nat,
             \A t \in S : InTurn(t, turns) /\ pc[t] = "done"
      PROVE  Cardinality(Waits(S, turns)) = turns * Cardinality(S)
  <2>1. \A t \in S : Added(t) = turns
    BY <1>1 DEF InTurn, Added, HasAdded
  <2>2. Waits(S, turns) = S \X (1 .. turns)
    BY <2>1 DEF Waits
  <2>3. IsFiniteSet(1 .. turns) /\ Cardinality(1 .. turns) = turns
    BY FS_Interval
  <2>4. Cardinality(S) \in Nat
    BY <1>1, FS_CardinalityType
  <2>5. Cardinality(S \X (1 .. turns)) = Cardinality(S) * turns
    BY <1>1, <2>3, FS_Product
  <2>6. QED
    BY <1>1, <2>2, <2>4, <2>5
<1>2. ASSUME IndInv PROVE AveragesComplete
  <2>1. SUFFICES ASSUME reported
                 PROVE  /\ total_read_time = total_read_count
                        /\ total_write_time = total_write_count
    BY DEF AveragesComplete
  <2>2. SumsInv /\ \A t \in Readers \cup Writers : pc[t] = "done"
    BY <1>2, <2>1 DEF IndInv, SumsInv, AllDone, Threads
  <2>3. total_read_time = ReadTurns * Cardinality(Readers)
    BY <1>1, <2>2, SumsInvParts, ThreadsAssumption
  <2>4. total_write_time = WriteTurns * Cardinality(Writers)
    BY <1>1, <2>2, SumsInvParts, ThreadsAssumption
  <2>5. QED
    BY <2>3, <2>4 DEF total_read_count, total_write_count, ReadTurns, WriteTurns
<1>3. QED
  BY <1>2, Invariance, PTL

-----------------------------------------------------------------------------
(* The steps of A2Q1.c as steps of RWLock: a reader enters when it passes  *)
(* rw_mutex or finds others in before it, and leaves when it counts itself *)
(* out; a writer has the lock between its two calls on rw_mutex; every     *)
(* other step is a stutter.                                                *)
Reading == {r \in Readers : MayRead(r)}
Writing == {w \in Writers : HasRw(w)}

LEMMA SameHolders ==
  ASSUME \A r \in Readers : MayRead(r)' <=> MayRead(r),
         \A w \in Writers : HasRw(w)' <=> HasRw(w)
  PROVE  Reading' = Reading /\ Writing' = Writing
BY DEF Reading, Writing

LEMMA ReaderImplements == ASSUME LockInv, NEW r \in Readers, Reader(r)
                          PROVE  [Lock!Next]_(Lock!vars)
<1> USE DEF Lock!vars, MayRead, HasRw, Goto, data
<1>w. /\ pc \in [Threads -> ReaderLabels \cup WriterLabels]
      /\ r \in Threads /\ r \notin Writers
  BY ThreadsAssumption DEF LockInv, TypeOK, Threads
<1> DEFINE Enters == /\ Reading' = Reading \cup {r} /\ r \notin Reading
                     /\ Writing = {} /\ Writing' = {}
                     /\ shared_int' = shared_int
<1>e. ASSUME Enters PROVE Lock!Next
  BY <1>e DEF Lock!Next, Lock!EnterRead, Reading, Writing
<1>1. CASE RLoop(r)
  BY <1>w, <1>1, SameHolders DEF RLoop, Loop, Reading, Writing
<1>2. CASE REnter(r)
  BY <1>w, <1>2, SameHolders DEF REnter, LockMutex, Reading, Writing
<1>3. CASE RCount(r)
  <2>1. CASE read_count' = 1
    BY <1>w, <1>3, <2>1, SameHolders DEF RCount, CountIn, Reading, Writing
  <2>2. CASE read_count' # 1
    <3>1. PICK s \in Readers : Counted(s)
      BY <1>3, <2>2, ZeroCount DEF LockInv, RCount, CountIn
    <3>2. HasMutex(r)
      BY <1>3 DEF RCount, CountIn, HasMutex
    <3>3. GroupHasRw(s)
      BY <1>3, <3>1, <3>2
      DEF LockInv, OneHasMutex, HasMutex, Counted, GroupHasRw, RCount, CountIn
    <3>4. \A w \in Writers : ~HasRw(w)
      BY <3>3 DEF LockInv, GroupExclusion
    <3>5. Enters
      BY <1>w, <1>3, <2>2, <3>4 DEF RCount, CountIn, Reading, Writing
    <3>6. QED
      BY <1>e, <3>5
  <2>3. QED
    BY <2>1, <2>2
<1>4. CASE RWaitRw(r)
  <2>1. \A w \in Writers : ~HasRw(w)
    BY <1>4 DEF LockInv, TypeOK, RwMatches, RWaitRw, LockRw, SemWait
  <2>2. Enters
    BY <1>w, <1>4, <2>1 DEF RWaitRw, LockRw, Reading, Writing
  <2>3. QED
    BY <1>e, <2>2
<1>5. CASE RAdmit(r)
  BY <1>w, <1>5, SameHolders DEF RAdmit, UnlockMutex, Reading, Writing
<1>6. CASE RRead(r)
  BY <1>w, <1>6, SameHolders DEF RRead, ReadShared, Reading, Writing
<1>7. CASE RLeave(r)
  BY <1>w, <1>7, SameHolders DEF RLeave, LockMutex, Reading, Writing
<1>8. CASE RUncount(r)
  <2>1. Reading' = Reading \ {r} /\ r \in Reading /\ Writing' = Writing
    BY <1>w, <1>8 DEF RUncount, CountOut, Reading, Writing
  <2>2. QED
    BY <1>8, <2>1
    DEF RUncount, CountOut, Lock!Next, Lock!LeaveRead, Reading, Writing
<1>9. CASE RStatLoad(r)
  BY <1>w, <1>9, SameHolders DEF RStatLoad, LoadTotal, Reading, Writing
<1>10. CASE RStatStore(r)
  BY <1>w, <1>10, SameHolders DEF RStatStore, StoreReadTotal, Reading, Writing
<1>11. CASE RLast(r)
  BY <1>w, <1>11, SameHolders DEF RLast, TestLast, Reading, Writing
<1>12. CASE RPostRw(r)
  BY <1>w, <1>12, SameHolders DEF RPostRw, UnlockRw, Reading, Writing
<1>13. CASE RRelease(r)
  BY <1>w, <1>13, SameHolders DEF RRelease, UnlockMutex, Reading, Writing
<1>14. QED
  BY <1>1, <1>2, <1>3, <1>4, <1>5, <1>6, <1>7, <1>8, <1>9, <1>10, <1>11,
     <1>12, <1>13 DEF Reader

LEMMA WriterImplements == ASSUME LockInv, NEW w \in Writers, Writer(w)
                          PROVE  [Lock!Next]_(Lock!vars)
<1> USE DEF Lock!vars, MayRead, HasRw, Goto, data
<1>w. /\ pc \in [Threads -> ReaderLabels \cup WriterLabels]
      /\ w \in Threads /\ w \notin Readers
  BY ThreadsAssumption DEF LockInv, TypeOK, Threads
<1>1. CASE WLoop(w)
  BY <1>w, <1>1, SameHolders DEF WLoop, Loop, Reading, Writing
<1>2. CASE WWaitRw(w)
  <2>1. Reading = {} /\ Writing = {}
    BY <1>2 DEF LockInv, TypeOK, RwMatches, WWaitRw, LockRw, SemWait, Reading,
                Writing, GroupHasRw
  <2>2. Writing' = {w} /\ Reading' = Reading
    BY <1>w, <1>2, <2>1 DEF WWaitRw, LockRw, Reading, Writing
  <2>3. QED
    BY <1>2, <2>1, <2>2
    DEF WWaitRw, LockRw, Lock!Next, Lock!EnterWrite, Reading, Writing
<1>3. CASE WStatLoad(w)
  BY <1>w, <1>3, SameHolders DEF WStatLoad, LoadTotal, Reading, Writing
<1>4. CASE WStatStore(w)
  BY <1>w, <1>4, SameHolders DEF WStatStore, StoreWriteTotal, Reading, Writing
<1>5. CASE WLoad(w)
  BY <1>w, <1>5, SameHolders DEF WLoad, LoadShared, Reading, Writing
<1>6. CASE WStore(w)
  <2>1. w \in Writing /\ Reading' = Reading /\ Writing' = Writing
    BY <1>w, <1>6 DEF WStore, StoreShared, Reading, Writing
  <2>2. shared_int' \in Word
    BY <1>6 DEF WStore, StoreShared, LockInv, TypeOK
  <2>3. QED
    BY <2>1, <2>2 DEF Lock!Next, Lock!Write, Reading, Writing
<1>7. CASE WPostRw(w)
  <2>1. w \in Writing /\ Writing' = Writing \ {w} /\ Reading' = Reading
    BY <1>w, <1>7 DEF WPostRw, UnlockRw, Reading, Writing
  <2>2. QED
    BY <1>7, <2>1
    DEF WPostRw, UnlockRw, Lock!Next, Lock!LeaveWrite, Reading, Writing
<1>8. QED
  BY <1>1, <1>2, <1>3, <1>4, <1>5, <1>6, <1>7 DEF Writer

(* A2Q1.c implements the readers-writers lock. *)
THEOREM Implements == Spec => ImplementsRWLock
<1>1. Init => Lock!Init
  <2> SUFFICES ASSUME Init PROVE Lock!Init
    OBVIOUS
  <2>1. shared_int \in Word
    BY InitLock DEF LockInv, TypeOK
  <2>2. {r \in Readers : MayRead(r)} = {} /\ {w \in Writers : HasRw(w)} = {}
    BY DEF Init, RWInit, MayRead, HasRw, Threads
  <2>3. QED
    BY <2>1, <2>2 DEF Lock!Init
<1>2. IndInv /\ [Next]_vars => [Lock!Next]_(Lock!vars)
  <2> SUFFICES ASSUME LockInv, [Next]_vars PROVE [Lock!Next]_(Lock!vars)
    BY DEF IndInv
  <2>1. CASE Report \/ UNCHANGED vars
    BY <2>1 DEF Report, vars, rwvars, data, Lock!vars, MayRead, HasRw
  <2>2. QED
    BY <2>1, ReaderImplements, WriterImplements DEF Next, Returned
<1>3. QED
  BY <1>1, <1>2, Invariance, PTL DEF Spec, ImplementsRWLock, Lock!Spec
=============================================================================
