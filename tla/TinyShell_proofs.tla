---------------------------- MODULE TinyShell_proofs ----------------------------
(***************************************************************************)
(* Proofs about tiny_shell.c for any lines, lengths of HISTORY and numbers *)
(* of processes, lines read and signals.                                   *)
(***************************************************************************)
EXTENDS TinyShell, NumberTheorems

-----------------------------------------------------------------------------
(* What steps do to the line and what is kept of it *)

(* The line is left alone, and the shell does not come to where it is used. *)
LineKept ==
  /\ UNCHANGED lineVars
  /\ shell' \in {shell, "prompt", "exited", "fork_in", "close", "wait", "scan", "wait_out", "asking"}

LEMMA LineSteps ==
  ASSUME [Next]_vars
  PROVE  \/ LineKept
         \/ shell = "prompt" /\ shell' = "read" /\ memset
         \/ shell = "read" /\ shell' = "record" /\ \E words \in Lines : read_line(words)
         \/ shell = "read" /\ shell' = "prompt" /\ read_line(<<>>)
         \/ shell = "record" /\ shell' = "count" /\ RecordLine
         \/ shell = "count" /\ shell' = "parse" /\ CountLine
         \/ shell = "parse" /\ shell' = "run" /\ parse_line
         \/ Crash /\ UNCHANGED lineVars
         \/ shell = "run" /\ shell' = "pipe" /\ \E s : EndAtPipe(s)
         \/ shell = "asking" /\ shell' \in {"read", "crashed"} /\ JumpBack
<1> USE DEF LineKept, At
<1>1. CASE UNCHANGED vars
  BY <1>1 DEF vars
<1>2. CASE Shell
  <2>1. CASE RunPipe
    BY <2>1 DEF RunPipe
  <2>2. CASE Prompt \/ Record \/ Count \/ Parse \/ Crash \/ Internal \/ ForkFails \/ NoFifo
    BY <2>2 DEF Prompt, Record, Count, Parse, Crash, Internal, ForkFails, NoFifo
  <2>3. CASE Fork \/ Pipe \/ ForkIn \/ ClosePipe \/ Scan \/ WaitOut \/ Wait \/ Interrupted
    BY <2>3 DEF Fork, Pipe, ForkIn, ClosePipe, Scan, WaitOut, Wait, Interrupted, KeepProcs
  <2>4. QED
    BY <1>2, <2>1, <2>2, <2>3 DEF Shell
<1>3. CASE User
  BY <1>3 DEF User, ReadLine, ReadNothing, AnswerYes, AnswerNo, TypeInterrupt, TypeStop
<1>4. ASSUME NEW p \in Pids, Others(p) PROVE UNCHANGED <<lineVars, shell>>
  BY <1>4 DEF Others, Process, ForkOut, ForkGrandchild, ForkOutFails, Tell, OpenIn, OpenOut, OpenOther,
              Exec, ExecFails, Ends, ProcessInterrupted, Killed, Ignored, ProcessYes, ProcessNo, Exits,
              KeepShell
<1>5. QED
  BY <1>1, <1>2, <1>3, <1>4 DEF Next

LEMMA LineTypes == ASSUME LineTypeOK, [Next]_vars PROVE LineTypeOK'
<1> USE DEF LineTypeOK
<1>1. CASE LineKept
  BY <1>1 DEF LineKept, lineVars
<1>2. CASE memset
  BY <1>2 DEF memset
<1>3. ASSUME NEW words \in Lines \cup {<<>>}, read_line(words) PROVE LineTypeOK'
  BY <1>3 DEF read_line
<1>4. CASE RecordLine
  BY <1>4 DEF RecordLine
<1>5. CASE CountLine
  BY <1>5 DEF CountLine
<1>10. CASE parse_line
  BY <1>10 DEF parse_line
<1>6. CASE JumpBack
  BY <1>6 DEF JumpBack
<1>7. ASSUME NEW s, EndAtPipe(s) PROVE LineTypeOK'
  BY <1>7 DEF EndAtPipe
<1>8. CASE UNCHANGED lineVars
  BY <1>8 DEF lineVars
<1>9. QED
  BY <1>1, <1>2, <1>3, <1>4, <1>5, <1>6, <1>7, <1>8, <1>10, LineSteps

(* HISTORY: recording a line leaves the places of the others alone. *)
LEMMA RingKeeps == ASSUME LineTypeOK, RingInv, [Next]_vars PROVE RingInv'
<1> USE HistoryAssumption
<1> DEFINE M == MAX_HISTORY_AMOUNT
           oldest == HIST_COUNT - M + (IF shell \in {"parse", "run"} THEN 1 ELSE 2)
<1>1. /\ HIST_COUNT \in Nat /\ line.number \in Nat /\ typed \in Seq(Nat) /\ Len(typed) = HIST_COUNT
      /\ HISTORY \in [0 .. M - 1 -> Nat] /\ M \in Nat \ {0} /\ oldest \in Int
  BY DEF LineTypeOK
<1>2. CASE /\ UNCHANGED <<HISTORY, HIST_COUNT, typed>>
           /\ shell' \in {"parse", "run"} => shell \in {"parse", "run"}
           /\ shell' = "count" => shell = "count" /\ UNCHANGED line
  BY <1>1, <1>2 DEF RingInv
<1>3. CASE RecordLine /\ shell' = "count"
  <2>1. HIST_COUNT % M \in 0 .. M - 1
    BY <1>1, DivMod
  <2>2. HISTORY'[HIST_COUNT % M] = line.number
    BY <1>1, <1>3, <2>1 DEF RecordLine
  <2>3. ASSUME NEW k \in 1 .. HIST_COUNT, k >= HIST_COUNT - M + 2
        PROVE  HISTORY'[(k - 1) % M] = typed[k]
    <3>1. k - 1 \in Nat /\ k - 1 < HIST_COUNT /\ HIST_COUNT < (k - 1) + M /\ k >= oldest
      BY <1>1, <2>3
    <3>2. (k - 1) % M # HIST_COUNT % M
      BY <1>1, <3>1, ModDistinct
    <3>3. (k - 1) % M \in 0 .. M - 1
      BY <1>1, <3>1, DivMod
    <3>4. HISTORY'[(k - 1) % M] = HISTORY[(k - 1) % M]
      BY <1>1, <1>3, <3>2, <3>3 DEF RecordLine
    <3>5. QED
      BY <3>1, <3>4 DEF RingInv
  <2>4. QED
    BY <1>3, <2>2, <2>3 DEF RingInv, RecordLine
<1>4. CASE CountLine /\ shell = "count" /\ shell' = "parse"
  <2>1. /\ HISTORY' = HISTORY /\ HIST_COUNT' = HIST_COUNT + 1
        /\ typed' = Append(typed, line.number)
    BY <1>4 DEF CountLine
  <2>2. HISTORY[HIST_COUNT % M] = line.number
    BY <1>4 DEF RingInv
  <2>3. ASSUME NEW k \in 1 .. HIST_COUNT', k >= HIST_COUNT' - M + 1
        PROVE  HISTORY'[(k - 1) % M] = typed'[k]
    <3> k \in 1 .. HIST_COUNT + 1 /\ k >= HIST_COUNT + 1 - M + 1
      BY <1>1, <2>1, <2>3
    <3>1. CASE k = HIST_COUNT + 1
      BY <1>1, <2>1, <2>2, <3>1
    <3>2. CASE k # HIST_COUNT + 1
      <4>1. k \in 1 .. HIST_COUNT /\ k >= oldest
        BY <1>1, <1>4, <2>3, <3>2
      <4>2. typed'[k] = typed[k]
        BY <1>1, <2>1, <4>1
      <4>3. HISTORY[(k - 1) % M] = typed[k]
        BY <4>1 DEF RingInv
      <4>4. QED
        BY <2>1, <4>2, <4>3
    <3>3. QED
      BY <3>1, <3>2
  <2>4. shell' = "parse"
    BY <1>4
  <2>5. QED
    BY ONLY <2>3, <2>4 DEF RingInv
<1>5. CASE LineKept
  BY <1>2, <1>5 DEF LineKept, lineVars
<1>6. CASE /\ shell' \in {"parse", "run"} => shell \in {"parse", "run"}
           /\ shell' # "count" /\ UNCHANGED <<HISTORY, HIST_COUNT, typed>>
  BY <1>2, <1>6
<1>7. QED
  BY <1>3, <1>4, <1>5, <1>6, LineSteps
  DEF parse_line, memset, read_line, Crash, At, EndAtPipe, JumpBack, lineVars

(* args: what memset() has cleared stays so until parse_line(). *)
LEMMA ArgsKeep == ASSUME LineTypeOK, ArgsInv, [Next]_vars PROVE ArgsInv'
<1>1. 0 .. MEMSET - 1 \subseteq Slots /\ args \in [Slots -> {NULL, "own", "stale", "wild"}]
  BY LinesAssumption DEF Slots, LineTypeOK
<1>2. CASE LineKept
  BY <1>2 DEF LineKept, lineVars, ArgsInv
<1>3. CASE shell' = "read" /\ memset
  <2>1. ASSUME NEW s \in 0 .. MEMSET - 1 PROVE args'[s] = NULL
    BY <1>1, <1>3, LinesAssumption DEF memset
  <2>2. QED
    BY <1>3, <2>1 DEF ArgsInv
<1>4. ASSUME NEW words, shell = "read", shell' \in {"record", "prompt"}, read_line(words)
      PROVE  ArgsInv'
  BY <1>1, <1>4 DEF read_line, ArgsInv, NULL
<1>5. CASE shell = "record" /\ shell' = "count" /\ RecordLine
  BY <1>5 DEF RecordLine, ArgsInv
<1>6. CASE \/ shell = "count" /\ shell' = "parse" /\ CountLine
           \/ shell = "parse" /\ shell' = "run" /\ parse_line
  BY <1>1, <1>6 DEF CountLine, parse_line, ArgsInv
<1>7. CASE shell' \in {"crashed", "pipe"}
  BY <1>7 DEF ArgsInv
<1>8. CASE JumpBack
  BY <1>8 DEF JumpBack, ArgsInv
<1>9. QED
  BY <1>2, <1>3, <1>4, <1>5, <1>6, <1>7, <1>8, LineSteps DEF Crash, At

LEMMA WordsOfLine ==
  ASSUME LineTypeOK
  PROVE  /\ line.words \in Seq(STRING) /\ Len(line.words) \in Nat
         /\ MEMSET \in Nat \ {0} /\ MAX_LINE_LENGTH \in Nat /\ MEMSET <= MAX_LINE_LENGTH
<1>1. line.words \in Lines \/ line.words = <<>>
  BY DEF LineTypeOK
<1>2. line.words \in Seq(STRING)
  <2>1. ASSUME line.words \in Lines PROVE line.words \in Seq(STRING)
    BY <2>1, LinesAssumption, Zenon
  <2>2. <<>> \in Seq(STRING)
    OBVIOUS
  <2>3. QED
    BY <1>1, <2>1, <2>2, Zenon
<1>3. QED
  BY <1>2, LinesAssumption

(* parse_line(): the words of the line, followed by a NULL.  Argc is then  *)
(* the number of words: there is no NULL before.                           *)
LEMMA ArgsOfShortLine ==
  ASSUME LineTypeOK, ArgsInv, shell = "run", cleared, Len(line.words) < MEMSET
  PROVE  Exact(Len(line.words))
<1> DEFINE n == Len(line.words)
<1>1. n \in Nat /\ MEMSET \in Nat /\ MAX_LINE_LENGTH \in Nat /\ MEMSET <= MAX_LINE_LENGTH
  BY WordsOfLine
<1>2. \A s \in 0 .. MEMSET - 1 : args[s] = IF s < n THEN "own" ELSE NULL
  BY DEF ArgsInv
<1> HIDE DEF n
<1>3. n < MEMSET
  BY DEF n
<1>4. args[n] = NULL /\ \A s \in 0 .. n - 1 : args[s] = "own" /\ args[s] # NULL
  BY <1>1, <1>2, <1>3 DEF NULL
<1>5. \A m \in 0 .. MAX_LINE_LENGTH :
        /\ m = MAX_LINE_LENGTH \/ args[m] = NULL
        /\ \A s \in 0 .. m - 1 : args[s] # NULL
        => m = n
  BY <1>1, <1>3, <1>4
<1>6. n \in 0 .. MAX_LINE_LENGTH
  BY <1>1, <1>3
<1>7. Argc = n
  BY <1>4, <1>5, <1>6 DEF Argc
<1>8. QED
  BY <1>4, <1>7 DEF Exact, n

LEMMA CrashKeeps ==
  ASSUME LineTypeOK, ArgsInv, CrashCause, [Next]_vars
  PROVE  CrashCause'
<1>1. CASE LineKept
  BY <1>1 DEF LineKept, lineVars, CrashCause
<1>2. CASE JumpBack
  BY <1>2 DEF JumpBack, CrashCause
<1>3. CASE shell' # "crashed"
  BY <1>3 DEF CrashCause
<1>4. CASE Crash /\ UNCHANGED lineVars
  <2> DEFINE n == Len(line.words)
  <2>1. shell = "run" /\ line' = line /\ cleared' = cleared
    BY <1>4 DEF Crash, At, lineVars
  <2>4. /\ line.words \in Seq(STRING) /\ n \in Nat
        /\ MEMSET \in Nat \ {0} /\ MAX_LINE_LENGTH \in Nat /\ MEMSET <= MAX_LINE_LENGTH
    BY WordsOfLine
  <2>2. SUFFICES ASSUME cleared, n < MEMSET
                 PROVE  line.words \in {<<>>, <<"limit">>}
    BY <2>1, <2>4 DEF CrashCause
  <2>3. /\ Exact(n)
        /\ \A s \in 0 .. MEMSET - 1 : args[s] = IF s < n THEN "own" ELSE NULL
    BY <2>1, <2>2, ArgsOfShortLine DEF ArgsInv
  <2>5. CASE args[0] = NULL
    <3>1. n = 0
      BY <2>3, <2>4, <2>5 DEF NULL
    <3>2. QED
      BY <2>4, <3>1
  <2>6. CASE args[0] # NULL /\ "limit" \in Text(0) /\ args[1] = NULL
    <3>1. args[0] = "own" /\ n > 0
      BY <2>3, <2>4, <2>6 DEF NULL
    <3>2. line.words[1] = "limit"
      BY <2>6, <3>1 DEF Text
    <3>3. n = 1
      <4>1. ASSUME n > 1 PROVE FALSE
        <5>1. 1 \in 0 .. MEMSET - 1
          BY <2>2, <2>4, <4>1
        <5>2. args[1] = "own"
          BY <2>3, <4>1, <5>1
        <5>3. QED
          BY <2>6, <5>2 DEF NULL
      <4>2. n \in Nat /\ n > 0
        BY <2>4, <3>1
      <4> HIDE DEF n
      <4>3. QED
        BY <4>1, <4>2
    <3>4. line.words = <<"limit">>
      BY <2>4, <3>2, <3>3
    <3>5. QED
      BY <3>4
  <2>7. ~wild_read
    <3>1. Argc = n /\ n \in Slots
      BY <2>2, <2>3, <2>4 DEF Exact, Slots
    <3>2. \A r \in Slots : r < n => args[r] # "wild"
      BY <2>2, <2>3, <2>4 DEF Slots
    <3>3. QED
      BY <3>1, <3>2 DEF wild_read
  <2>8. QED
    BY <1>4, <2>5, <2>6, <2>7 DEF Crash
<1>5. QED
  BY <1>1, <1>2, <1>3, <1>4, LineSteps

-----------------------------------------------------------------------------
(* Types *)

CloseHasFds == shell \in {"fork_in", "close"} => fds > 0

(* fork() gives a process of Pids. *)
LEMMA SpawnTypes ==
  ASSUME TypeOK, NEW p \in Pids,
         NEW here \in {"exec", "fork"}, NEW as \in {"simple", "in"}, Spawn(p, here, as)
  PROVE  /\ proc' \in [Pids -> PreExec \cup {"none", "program", "stopped", "asking", "loop",
                                             "zombie", "gone"}]
         /\ role' \in [Pids -> {"none", "simple", "in", "out"}]
BY DEF TypeOK, Spawn, PreExec

LEMMA ShellTypes == ASSUME TypeOK, CloseHasFds, Shell \/ User PROVE TypeOK' /\ CloseHasFds'
<1> USE DEF TypeOK, CloseHasFds
<1>1. LineTypeOK'
  BY LineTypes DEF Next
<1>2. UNCHANGED lineVars => LineTypeOK'
  BY <1>1
<1> USE DEF At, KeepJobs, KeepSignals, jobVars, Over, AtPrompt
<1>3. CASE Prompt \/ Record \/ Count \/ Parse \/ Crash \/ Internal \/ ForkFails \/ NoFifo \/ RunPipe
  BY <1>1, <1>3 DEF Prompt, Record, Count, Parse, Crash, Internal, ForkFails, NoFifo, RunPipe
<1>4. CASE Fork
  <2>1. PICK p \in Pids : Spawn(p, "exec", "simple") /\ pid' = p
    BY <1>4 DEF Fork
  <2>2. QED
    BY <1>1, <1>4, <2>1, SpawnTypes DEF Fork
<1>5. CASE Pipe \/ ForkIn
  <2>1. CASE Pipe
    <3>1. fds' \in 0 .. MaxFds
      BY <2>1, ShellAssumption DEF Pipe
    <3>2. QED
      BY <1>1, <2>1, <3>1 DEF Pipe
  <2>2. CASE ForkIn
    <3>1. PICK p \in Pids : Spawn(p, "fork", "in") /\ pid' = p /\ writers' = {SHELL, p}
      BY <2>2 DEF ForkIn
    <3>2. fds' > 0
      BY <2>2 DEF ForkIn
    <3>3. QED
      BY <1>1, <2>2, <3>1, <3>2, SpawnTypes DEF ForkIn
  <2>3. QED
    BY <1>5, <2>1, <2>2
<1>6. CASE ClosePipe \/ Scan
  <2>1. fds' \in 0 .. MaxFds
    BY <1>6, ShellAssumption DEF ClosePipe, Scan
  <2>2. CASE ClosePipe
    BY <1>1, <2>1, <2>2 DEF ClosePipe, KeepProcs
  <2>3. CASE Scan
    BY <1>1, <2>1, <2>3 DEF Scan, KeepProcs, Children
  <2>4. QED
    BY <1>6, <2>2, <2>3
<1>7. CASE WaitOut \/ Wait
  BY <1>1, <1>7 DEF WaitOut, Wait
<1>8. CASE Interrupted
  BY <1>1, <1>8 DEF Interrupted
<1>9. CASE ReadLine \/ ReadNothing \/ AnswerYes \/ AnswerNo
  BY <1>1, <1>9 DEF ReadLine, ReadNothing, AnswerYes, AnswerNo, Living
<1>10. CASE TypeInterrupt \/ TypeStop
  <2>1. signals' \in 0 .. MaxSignals
    BY <1>10, ShellAssumption DEF TypeInterrupt, TypeStop
  <2>2. CASE TypeInterrupt
    <3>1. pending' \subseteq Pids \cup {SHELL}
      BY <2>2 DEF TypeInterrupt
    <3>2. QED
      BY <1>1, <2>1, <2>2, <3>1 DEF TypeInterrupt
  <2>3. CASE TypeStop
    BY <1>1, <2>1, <2>3 DEF TypeStop, PreExec
  <2>4. QED
    BY <1>10, <2>2, <2>3
<1>11. QED
  BY <1>3, <1>4, <1>5, <1>6, <1>7, <1>8, <1>9, <1>10 DEF Shell, User

LEMMA ProcessTypes ==
  ASSUME TypeOK, CloseHasFds, NEW p \in Pids, Others(p) PROVE TypeOK' /\ CloseHasFds'
<1> USE DEF TypeOK, CloseHasFds, KeepShell
<1>1. LineTypeOK'
  BY LineTypes DEF Next
<1>2. CASE Exits(p)
  BY <1>1, <1>2 DEF Exits
<1>3. CASE ForkOut(p)
  BY <1>1, <1>3 DEF ForkOut, ForkGrandchild, Unborn, PreExec
<1>4. CASE Tell(p) \/ OpenOut(p) \/ OpenOther(p) \/ Exec(p)
  BY <1>1, <1>4 DEF Tell, OpenOut, OpenOther, Exec, PreExec
<1>5. CASE OpenIn(p)
  BY <1>1, <1>5 DEF OpenIn, PreExec
<1>6. CASE ProcessInterrupted(p) \/ ProcessNo(p) \/ Ignored(p)
  BY <1>1, <1>6 DEF ProcessInterrupted, ProcessNo, Ignored
<1>7. QED
  BY <1>2, <1>3, <1>4, <1>5, <1>6
  DEF Others, Process, ForkOutFails, ExecFails, Ends, Killed, ProcessYes

LEMMA TypeKeeps == ASSUME TypeOK, CloseHasFds, [Next]_vars PROVE TypeOK' /\ CloseHasFds'
<1>1. CASE UNCHANGED vars
  BY <1>1 DEF vars, lineVars, jobVars, TypeOK, LineTypeOK, CloseHasFds
<1>2. QED
  BY <1>1, ShellTypes, ProcessTypes DEF Next

-----------------------------------------------------------------------------
(* What steps do to the processes *)

Alive    == PreExec \cup {"program", "stopped", "asking", "loop"}

(* Where the shell has to do with no process. *)
Loops ==
  /\ shell \in AtPrompt \cup {"asking"}
  /\ shell' \in (AtPrompt \ {"fork_in"}) \cup Over
  /\ shell \in {"asking", "fork_in"} => shell' \in Over
  /\ UNCHANGED <<jobVars, left, pending, signals>>

(* Processes go on from where they are. *)
Moves ==
  /\ UNCHANGED <<shell, pid, writers, fds, role, out, left>>
  /\ \A p \in Pids : \/ proc'[p] = proc[p]
                     \/ proc[p] \in Alive /\ proc'[p] \in Alive \ {"fork"}
  /\ fifo' \subseteq fifo \cup {p \in Pids : proc[p] \in Alive}
  /\ signals' \in {signals, signals + 1}
  /\ SHELL \in pending' => SHELL \in pending \/ signals' = signals + 1

LEMMA ShellSteps ==
  ASSUME TypeOK, Shell \/ User
  PROVE  \/ Loops \/ Moves
         \/ SHELL \notin pending /\ (Fork \/ Pipe \/ ForkIn \/ ClosePipe \/ Scan \/ WaitOut \/ Wait)
         \/ Interrupted \/ AnswerNo
<1> USE DEF At, KeepJobs, KeepSignals
<1>1. CASE Prompt \/ Record \/ Count \/ Parse \/ Crash \/ Internal \/ ForkFails \/ NoFifo \/ RunPipe
  BY <1>1 DEF Prompt, Record, Count, Parse, Crash, Internal, ForkFails, NoFifo, RunPipe,
              Loops, AtPrompt, Over
<1>2. CASE ReadLine \/ ReadNothing \/ AnswerYes
  BY <1>2 DEF ReadLine, ReadNothing, AnswerYes, Loops, AtPrompt, Over
<1>3. CASE TypeInterrupt
  BY <1>3 DEF TypeInterrupt, Moves, jobVars
<1>4. CASE TypeStop
  BY <1>4 DEF TypeStop, Moves, TypeOK, Alive, PreExec
<1>5. QED
  BY <1>1, <1>2, <1>3, <1>4 DEF Shell, User

LEMMA ProcessSteps ==
  ASSUME TypeOK, NEW p \in Pids, Others(p)
  PROVE  Moves \/ ForkOut(p) \/ (proc[p] \in Alive /\ Exits(p))
<1> USE DEF Alive, PreExec
<1>1. CASE ForkOutFails(p) \/ ExecFails(p) \/ Ends(p) \/ Killed(p) \/ ProcessYes(p)
  BY <1>1 DEF ForkOutFails, ExecFails, Ends, Killed, ProcessYes
<1> USE DEF KeepShell, Moves, TypeOK
<1>2. CASE Tell(p) \/ OpenOther(p) \/ Exec(p)
  BY <1>2 DEF Tell, OpenOther, Exec
<1>3. CASE OpenOut(p)
  BY <1>3 DEF OpenOut
<1>4. CASE OpenIn(p)
  BY <1>4 DEF OpenIn
<1>5. CASE ProcessInterrupted(p) \/ ProcessNo(p) \/ Ignored(p)
  BY <1>5 DEF ProcessInterrupted, ProcessNo, Ignored
<1>6. QED
  BY <1>1, <1>2, <1>3, <1>4, <1>5 DEF Others, Process

JobInv == JobsInv /\ PairInv /\ FifoInv

LEMMA LoopsKeep == ASSUME TypeOK, JobInv, Loops PROVE JobInv'
<1>1. Current' = Current
  BY DEF Loops, Current, Living, jobVars
<1>2. JobsInv'
  BY <1>1 DEF JobInv, JobsInv, Loops, AtPrompt, Over
<1>3. PairInv'
  BY <1>1 DEF JobInv, PairInv, Loops, jobVars
<1>4. FifoInv'
  BY DEF JobInv, FifoInv, Loops, jobVars
<1>5. QED
  BY <1>2, <1>3, <1>4 DEF JobInv

(* Nobody who lives becomes a zombie, and nobody is born. *)
LEMMA MovesKeep == ASSUME TypeOK, JobInv, Moves PROVE JobInv'
<1> USE DEF Alive, PreExec
<1>1. Current' = Current
  BY DEF Moves, Current, Living
<1>2. \A p \in Pids : /\ proc'[p] \in {"none", "zombie", "gone", "fork"} => proc'[p] = proc[p]
                      /\ proc[p] \in {"none", "zombie", "gone"} => proc'[p] = proc[p]
  BY DEF Moves
<1>3. Current \subseteq Pids
  BY DEF Current, Living
<1>4. JobsInv'
  BY <1>1, <1>2, <1>3 DEF JobInv, JobsInv, Moves
<1>5. PairInv'
  BY <1>1, <1>2, <1>3 DEF JobInv, PairInv, Moves
<1>6. ASSUME NEW p \in fifo' PROVE proc'[p] \notin {"none", "zombie", "gone"}
  BY <1>2, <1>6 DEF Moves, JobInv, FifoInv, TypeOK
<1>7. QED
  BY <1>4, <1>5, <1>6 DEF JobInv, FifoInv

(* Who exits leaves what the others are to each other as it is. *)
LEMMA ExitsKeep ==
  ASSUME TypeOK, JobInv, NEW p \in Pids, proc[p] \in Alive, Exits(p) PROVE JobInv'
<1> USE DEF Alive, PreExec
<1>1. /\ shell' = shell /\ pid' = pid /\ left' = left /\ role' = role /\ out' = out
      /\ writers' = writers \ {p} /\ fifo' = fifo \ {p}
      /\ proc'[p] = (IF role[p] = "out" THEN "gone" ELSE "zombie")
      /\ \A q \in Pids \ {p} : proc'[q] = proc[q]
  BY DEF Exits, KeepShell, TypeOK
<1>2. Current' \subseteq Current /\ Current \subseteq Pids
  BY <1>1 DEF Current, Living
<1>3. JobsInv'
  <2>1. ASSUME shell \in {"close", "scan"}, NEW q \in Current'
        PROVE  (role[q] = "out" \/ q = pid) /\ (q \in writers' \/ proc'[q] = "zombie")
    <3>1. CASE q = p
      BY <1>1, <1>2, <2>1, <3>1 DEF JobInv, JobsInv, Current, Living
    <3>2. CASE q # p
      BY <1>1, <1>2, <2>1, <3>2 DEF JobInv, JobsInv
    <3>3. QED
      BY <3>1, <3>2
  <2>2. ASSUME shell \in {"wait_out", "wait"}, NEW q \in Current'
        PROVE  q = pid /\ proc'[q] # "fork"
    BY <1>1, <1>2, <2>2 DEF JobInv, JobsInv
  <2>3. shell \in AtPrompt => Current' = {}
    BY <1>2 DEF JobInv, JobsInv
  <2>4. QED
    BY <1>1, <2>1, <2>2, <2>3 DEF JobsInv
<1>4. PairInv'
  BY <1>1, <1>2 DEF JobInv, PairInv
<1>5. FifoInv'
  BY <1>1 DEF JobInv, FifoInv, TypeOK
<1>6. QED
  BY <1>3, <1>4, <1>5 DEF JobInv

(* The child of a pipe forks: the grandchild is its own, and has the pipe  *)
(* open if it has.                                                         *)
LEMMA ForkOutKeeps == ASSUME TypeOK, JobInv, NEW p \in Pids, ForkOut(p) PROVE JobInv'
<1>1. PICK q \in Unborn : /\ ForkGrandchild(p, q)
                          /\ writers' = IF p \in writers THEN writers \cup {q} ELSE writers
  BY DEF ForkOut
<1>2. /\ q \in Pids /\ proc[q] = "none" /\ proc[p] = "fork" /\ p # q
      /\ shell' = shell /\ pid' = pid /\ fifo' = fifo
      /\ left' = (IF p \in left THEN left \cup {q} ELSE left)
      /\ proc'[p] = "tell" /\ proc'[q] = "open" /\ role'[q] = "out" /\ out'[p] = q
      /\ \A r \in Pids \ {p, q} : proc'[r] = proc[r] /\ role'[r] = role[r] /\ out'[r] = out[r]
      /\ role'[p] = role[p]
  BY <1>1 DEF ForkGrandchild, KeepShell, Unborn, TypeOK
<1>3. role[p] = "in"
  BY <1>2 DEF JobInv, PairInv
<1>4. /\ Current' \subseteq Current \cup {q} /\ Current \subseteq Pids
      /\ q \in Current' => p \in Current
      /\ p \in Current <=> p \notin left
  BY <1>2 DEF Current, Living
<1>5. JobsInv'
  <2>1. shell \in AtPrompt => Current' = {}
    BY <1>4 DEF JobInv, JobsInv
  <2>2. ASSUME shell \in {"close", "scan"}, NEW r \in Current'
        PROVE  (role'[r] = "out" \/ r = pid) /\ (r \in writers' \/ proc'[r] = "zombie")
    <3>1. CASE r = q
      <4>1. p \in writers
        BY <1>2, <1>4, <2>2, <3>1 DEF JobInv, JobsInv
      <4>2. QED
        BY <1>1, <1>2, <3>1, <4>1
    <3>2. CASE r # q
      <4>1. r \in Current /\ r \in Pids /\ role'[r] = role[r] /\ writers \subseteq writers'
        BY <1>1, <1>2, <1>4, <2>2, <3>2
      <4>2. proc[r] = "zombie" => proc'[r] = "zombie"
        BY <1>2, <3>2, <4>1
      <4>3. (role[r] = "out" \/ r = pid) /\ (r \in writers \/ proc[r] = "zombie")
        BY <2>2, <4>1 DEF JobInv, JobsInv
      <4>4. QED
        BY <4>1, <4>2, <4>3
    <3>3. QED
      BY <3>1, <3>2
  <2>3. shell \in {"wait_out", "wait"} => \A r \in Current' : r = pid /\ proc'[r] # "fork"
    BY <1>2, <1>4 DEF JobInv, JobsInv
  <2>4. QED
    BY <1>2, <2>1, <2>2, <2>3 DEF JobsInv
<1>6. PairInv'
  <2>1. ASSUME NEW r \in Pids
        PROVE  /\ proc'[r] = "none" => role'[r] = "none"
               /\ proc'[r] = "fork" => role'[r] = "in"
               /\ proc'[r] = "zombie" => role'[r] # "out"
    BY <1>2 DEF JobInv, PairInv
  <2>2. ASSUME NEW r \in Current', NEW s \in Current', role'[r] # "out", role'[s] # "out"
        PROVE  r = s
    BY <1>2, <1>4, <2>2 DEF JobInv, PairInv
  <2>3. ASSUME NEW r \in Current', NEW s \in Current', role'[r] = "in", role'[s] = "out"
        PROVE  out'[r] = s /\ proc'[r] # "fork"
    <3>1. r \in Current /\ r # q /\ role[r] = "in"
      BY <1>2, <1>4, <2>3
    <3>2. CASE s = q
      BY <1>2, <1>3, <1>4, <2>3, <3>1, <3>2 DEF JobInv, PairInv
    <3>3. CASE s # q
      BY <1>2, <1>3, <1>4, <2>3, <3>1, <3>3 DEF JobInv, PairInv
    <3>4. QED
      BY <3>2, <3>3
  <2>4. QED
    BY <2>1, <2>2, <2>3 DEF PairInv
<1>7. FifoInv'
  BY <1>2 DEF JobInv, FifoInv, TypeOK
<1>8. QED
  BY <1>5, <1>6, <1>7 DEF JobInv

(* The shell forks: no process that it has to do with is left. *)
LEMMA SpawnKeeps ==
  ASSUME TypeOK, JobInv, NEW p \in Pids, Current = {}, UNCHANGED <<out, fifo, left>>,
         \/ shell' = "wait" /\ Spawn(p, "exec", "simple")
         \/ shell' = "close" /\ Spawn(p, "fork", "in") /\ p \in writers',
         pid' = p
  PROVE  JobInv' /\ role[p] = "none"
<1>1. /\ proc[p] = "none" /\ role'[p] \in {"simple", "in"}
      /\ proc'[p] \in {"exec", "fork"} /\ (proc'[p] = "fork" <=> role'[p] = "in")
      /\ \A r \in Pids \ {p} : proc'[r] = proc[r] /\ role'[r] = role[r]
  BY DEF Spawn, Unborn, TypeOK
<1>2. Current' \subseteq {p}
  BY <1>1 DEF Current, Living
<1>3. JobsInv'
  BY <1>1, <1>2 DEF JobsInv, Spawn, TypeOK, AtPrompt
<1>4. PairInv'
  BY <1>1, <1>2 DEF JobInv, PairInv
<1>5. FifoInv'
  BY <1>1 DEF JobInv, FifoInv, TypeOK
<1>6. role[p] = "none"
  BY <1>1 DEF JobInv, PairInv
<1>7. QED
  BY <1>3, <1>4, <1>5, <1>6 DEF JobInv

LEMMA ForkKeeps ==
  ASSUME TypeOK, JobInv, Fork \/ ForkIn
  PROVE  /\ JobInv'
         /\ \E p \in Pids : /\ role[p] = "none"
                            /\ role' = [role EXCEPT ![p] = IF Fork THEN "simple" ELSE "in"]
<1>1. Current = {}
  BY DEF JobInv, JobsInv, Fork, ForkIn, At, AtPrompt
<1>2. CASE Fork
  BY <1>1, <1>2, SpawnKeeps DEF Fork, At, Spawn
<1>3. CASE ForkIn
  <2>1. PICK p \in Pids : Spawn(p, "fork", "in") /\ pid' = p /\ writers' = {SHELL, p}
    BY <1>3 DEF ForkIn
  <2>2. JobInv' /\ role[p] = "none" /\ shell' = "close"
    BY <1>1, <1>3, <2>1, SpawnKeeps DEF ForkIn, At
  <2>3. ~Fork
    BY <2>2 DEF Fork, At
  <2>4. QED
    BY <2>1, <2>2, <2>3 DEF Spawn
<1>4. QED
  BY <1>2, <1>3

(* pipe() is called before there is any child. *)
LEMMA PipeKeeps == ASSUME TypeOK, JobInv, Pipe PROVE JobInv'
<1>1. /\ shell = "pipe" /\ shell' = "fork_in" /\ UNCHANGED <<proc, role, out, fifo, left>>
  BY DEF Pipe, At
<1>2. Current' = {} /\ Current = {}
  BY <1>1 DEF Current, Living, JobInv, JobsInv, AtPrompt
<1>3. QED
  BY <1>1, <1>2 DEF JobInv, JobsInv, PairInv, FifoInv

(* The shell waits.  When the pipe is at its end both of its sides have    *)
(* exited, and of them only the child is left to be reaped.                *)
LEMMA WaitsKeep ==
  ASSUME TypeOK, JobInv, ClosePipe \/ Scan \/ WaitOut \/ Wait PROVE JobInv'
<1>1. /\ UNCHANGED <<pid, role, out, fifo, left>>
      /\ \A p \in Pids : \/ proc'[p] = proc[p]
                         \/ proc[p] \in {"zombie", "gone"} /\ proc'[p] = "gone"
  BY DEF ClosePipe, Scan, WaitOut, Wait, KeepProcs, TypeOK, Children
<1>2. Current' \subseteq Current /\ Current \subseteq Pids
  BY <1>1 DEF Current, Living
<1>3. PairInv'
  BY <1>1, <1>2 DEF JobInv, PairInv
<1>4. FifoInv'
  BY <1>1 DEF JobInv, FifoInv, TypeOK
<1>5. CASE ClosePipe
  <2>1. shell = "close" /\ shell' = "scan" /\ proc' = proc /\ writers' = writers \ {SHELL}
    BY <1>5 DEF ClosePipe, At, KeepProcs
  <2>2. SHELL \notin Pids
    BY ShellAssumption DEF SHELL
  <2>3. QED
    BY <1>1, <1>2, <1>3, <1>4, <2>1, <2>2 DEF JobInv, JobsInv, AtPrompt
<1>6. CASE Scan
  <2>1. shell = "scan" /\ shell' = "wait_out" /\ proc' = proc /\ writers = {}
    BY <1>6 DEF Scan, At, KeepProcs
  <2>2. ASSUME NEW p \in Current PROVE p = pid /\ proc[p] # "fork"
    <3>1. proc[p] = "zombie" /\ (role[p] = "out" \/ p = pid)
      BY <2>1 DEF JobInv, JobsInv
    <3>2. role[p] # "out"
      BY <1>2, <3>1 DEF JobInv, PairInv
    <3>3. QED
      BY <3>1, <3>2
  <2>3. QED
    BY <1>1, <1>2, <1>3, <1>4, <2>1, <2>2 DEF JobInv, JobsInv, AtPrompt
<1>7. CASE WaitOut
  <2>1. shell = "wait_out" /\ shell' = "wait"
    BY <1>7 DEF WaitOut, At
  <2>2. \A p \in Current' : p = pid /\ proc'[p] # "fork"
    BY <1>1, <1>2, <2>1 DEF JobInv, JobsInv
  <2>3. QED
    BY <1>1, <1>3, <1>4, <2>1, <2>2 DEF JobInv, JobsInv, AtPrompt
<1>8. CASE Wait
  <2>1. shell = "wait" /\ shell' = "prompt" /\ proc' = [proc EXCEPT ![pid] = "gone"]
    BY <1>8 DEF Wait, At
  <2>2. ASSUME NEW p \in Current' PROVE FALSE
    <3>1. p \in Pids /\ p = pid
      BY <1>2, <2>1 DEF JobInv, JobsInv
    <3>2. proc'[p] = "gone"
      BY <2>1, <3>1 DEF TypeOK
    <3>3. QED
      BY <3>2 DEF Current, Living
  <2>3. QED
    BY <1>3, <1>4, <2>1, <2>2 DEF JobInv, JobsInv
<1>9. QED
  BY <1>5, <1>6, <1>7, <1>8

(* ^C: the shell leaves all processes there are. *)
LEMMA InterruptKeeps ==
  ASSUME TypeOK, JobInv, Interrupted \/ AnswerNo PROVE JobInv'
<1>1. CASE Interrupted
  <2>1. shell' = "asking" /\ Current' = Current /\ UNCHANGED <<proc, role, out, fifo>>
    BY <1>1 DEF Interrupted, KeepJobs, jobVars, Current, Living
  <2>2. QED
    BY <2>1 DEF JobInv, JobsInv, PairInv, FifoInv, AtPrompt
<1>2. CASE AnswerNo
  <2>1. left' = left \cup Living /\ UNCHANGED <<proc, role, out, fifo>>
    BY <1>2 DEF AnswerNo, jobVars
  <2>2. shell' \in {"read", "crashed"} /\ Current' = {}
    BY <1>2, <2>1 DEF AnswerNo, At, Current, Living
  <2>3. QED
    BY <2>1, <2>2 DEF JobInv, JobsInv, PairInv, FifoInv
<1>3. QED
  BY <1>1, <1>2

LEMMA JobKeeps == ASSUME TypeOK, JobInv, [Next]_vars PROVE JobInv'
<1>1. CASE UNCHANGED vars
  BY <1>1 DEF vars, jobVars, JobInv, JobsInv, PairInv, FifoInv, Current, Living
<1>2. CASE Shell \/ User
  BY <1>2, ShellSteps, LoopsKeep, MovesKeep, ForkKeeps, PipeKeeps, WaitsKeep, InterruptKeeps
<1>3. ASSUME NEW p \in Pids, Others(p) PROVE JobInv'
  BY <1>3, ProcessSteps, MovesKeep, ForkOutKeeps, ExitsKeep
<1>4. QED
  BY <1>1, <1>2, <1>3 DEF Next

-----------------------------------------------------------------------------
(* Descriptors *)

Readers == {p \in Pids : role[p] = "in"}

LEMMA ReadersFinite == ASSUME TypeOK PROVE IsFiniteSet(Readers) /\ Cardinality(Readers) \in Nat
<1>1. Readers \subseteq Pids
  BY DEF Readers
<1>2. QED
  BY <1>1, ShellAssumption, FS_Subset, FS_CardinalityType

(* pipe() takes two descriptors, one of them for a child to come, and      *)
(* close(fd[1]) gives one back; a ^C that comes in between costs two at    *)
(* most, and is paid for by its own.                                       *)
Cost(b) == IF b THEN 2 ELSE 0

LEMMA FdsKeep ==
  ASSUME TypeOK, CloseHasFds, JobInv, FdsInv, [Next]_vars PROVE FdsInv'
<1> DEFINE c == Cardinality(Readers)
<1>1. /\ fds \in Nat /\ signals \in Nat /\ c \in Nat /\ IsFiniteSet(Readers)
      /\ InHand \in {0, 1, 2} /\ InHand' \in {0, 1, 2}
      /\ Cost(SHELL \in pending) \in {0, 2} /\ Cost(SHELL \in pending') \in {0, 2}
  BY ReadersFinite, ShellAssumption DEF TypeOK, InHand, Cost
<1>2. shell \notin Over => fds + Cost(SHELL \in pending) <= c + 2 * signals + InHand
  BY DEF FdsInv, Readers, Cost
<1>3. /\ FdsInv' <=> (shell' \notin Over =>
          fds' + Cost(SHELL \in pending') <= Cardinality(Readers') + 2 * signals' + InHand')
      /\ Readers' = Readers => Cardinality(Readers') = c
  BY DEF FdsInv, Readers, Cost
<1> HIDE DEF c
<1>4. CASE UNCHANGED vars
  BY <1>4 DEF vars, jobVars, FdsInv, InHand
<1>5. CASE Loops
  <2>1. Readers' = Readers /\ shell \notin Over
    BY <1>5 DEF Loops, Readers, jobVars, AtPrompt, Over
  <2>2. /\ shell' \notin Over => InHand' = 0 /\ InHand = 0
        /\ fds' = fds /\ pending' = pending /\ signals' = signals
    BY <1>5 DEF Loops, AtPrompt, Over, InHand, jobVars
  <2>3. QED
    BY <1>1, <1>2, <1>3, <2>1, <2>2
<1>6. CASE Moves
  <2>1. Readers' = Readers /\ InHand' = InHand
    BY <1>6 DEF Moves, Readers, InHand
  <2>2. /\ fds' = fds /\ shell' = shell /\ signals' \in {signals, signals + 1}
        /\ Cost(SHELL \in pending') <= Cost(SHELL \in pending) + 2 * (signals' - signals)
    <3>1. /\ fds' = fds /\ shell' = shell /\ signals' \in {signals, signals + 1}
          /\ SHELL \in pending' => SHELL \in pending \/ signals' = signals + 1
      BY <1>6 DEF Moves
    <3>2. SHELL \in pending => Cost(SHELL \in pending) = 2
      BY DEF Cost
    <3>3. SHELL \notin pending' => Cost(SHELL \in pending') = 0
      BY DEF Cost
    <3>4. QED
      BY <1>1, <3>1, <3>2, <3>3
  <2>3. QED
    BY <1>1, <1>2, <1>3, <2>1, <2>2
<1>7. CASE Fork
  <2>1. Readers' = Readers
    BY <1>7, ForkKeeps DEF Readers, TypeOK
  <2>2. /\ shell = "run" /\ shell' = "wait" /\ fds' = fds /\ pending' = pending
        /\ signals' = signals
    BY <1>7 DEF Fork, At, KeepSignals
  <2>3. InHand = 0 /\ InHand' = 0 /\ shell \notin Over
    BY <2>2 DEF InHand, Over
  <2>4. QED
    BY <1>1, <1>2, <1>3, <2>1, <2>2, <2>3
<1>8. CASE Pipe /\ SHELL \notin pending
  <2>1. /\ shell = "pipe" /\ shell' = "fork_in" /\ fds' = fds + 2 /\ Readers' = Readers
        /\ pending' = pending /\ signals' = signals
    BY <1>8 DEF Pipe, At, KeepSignals, Readers
  <2>2. InHand = 0 /\ InHand' = 2 /\ shell \notin Over
    BY <2>1 DEF InHand, Over
  <2>3. QED
    BY <1>1, <1>2, <1>3, <2>1, <2>2
<1>9. CASE ForkIn /\ SHELL \notin pending
  <2>1. /\ ~Fork /\ shell = "fork_in" /\ shell' = "close" /\ fds' = fds
        /\ pending' = pending /\ signals' = signals
    BY <1>9 DEF ForkIn, Fork, At, KeepSignals
  <2>2. PICK p \in Pids : role[p] = "none" /\ role' = [role EXCEPT ![p] = "in"]
    BY <1>9, <2>1, ForkKeeps
  <2>3. p \notin Readers /\ Readers' = Readers \cup {p}
    BY <2>2 DEF Readers, TypeOK
  <2>4. Cardinality(Readers') = c + 1
    BY <1>1, <2>3, FS_AddElement DEF c
  <2>5. InHand = 2 /\ InHand' = 1 /\ shell \notin Over
    BY <2>1 DEF InHand, Over
  <2>6. QED
    BY <1>1, <1>2, <1>3, <2>1, <2>4, <2>5
<1>10. CASE ClosePipe \/ Scan \/ WaitOut \/ Wait
  <2>1. Readers' = Readers /\ pending' = pending /\ signals' = signals
    BY <1>10 DEF ClosePipe, Scan, WaitOut, Wait, KeepProcs, KeepSignals, Readers
  <2>2. /\ shell \in {"close", "scan", "wait_out", "wait"}
        /\ shell' \in {"scan", "wait_out", "wait", "prompt"}
        /\ fds' = IF shell = "close" THEN fds - 1 ELSE fds
    BY <1>10 DEF ClosePipe, Scan, WaitOut, Wait, KeepProcs, At
  <2>3. /\ InHand = (IF shell = "close" THEN 1 ELSE 0) /\ InHand' = 0
        /\ shell \notin Over
    BY <2>2 DEF InHand, Over
  <2>4. QED
    BY <1>1, <1>2, <1>3, <2>1, <2>2, <2>3
<1>11. CASE Interrupted
  <2>1. /\ Readers' = Readers /\ shell \notin Over /\ shell' = "asking"
        /\ SHELL \in pending /\ SHELL \notin pending' /\ fds' = fds /\ signals' = signals
    BY <1>11 DEF Interrupted, KeepJobs, jobVars, Readers
  <2>2. InHand' = 0 /\ Cost(SHELL \in pending) = 2 /\ Cost(SHELL \in pending') = 0
    BY <2>1 DEF InHand, Cost
  <2>3. QED
    BY <1>1, <1>2, <1>3, <2>1, <2>2
<1>12. CASE AnswerNo
  <2>1. /\ Readers' = Readers /\ pending' = pending /\ shell = "asking"
        /\ shell' \in {"read", "crashed"} /\ fds' = fds /\ signals' = signals
    BY <1>12 DEF AnswerNo, At, KeepSignals, jobVars, Readers
  <2>2. InHand = 0 /\ InHand' = 0 /\ shell \notin Over
    BY <2>1 DEF InHand, Over
  <2>3. QED
    BY <1>1, <1>2, <1>3, <2>1, <2>2
<1>13. ASSUME NEW p \in Pids, ForkOut(p) \/ Exits(p) PROVE FdsInv'
  <2>1. fds' = fds /\ signals' = signals /\ shell' = shell /\ InHand' = InHand
    BY <1>13 DEF ForkOut, ForkGrandchild, Exits, KeepShell, InHand
  <2>2. Cost(SHELL \in pending') <= Cost(SHELL \in pending)
    BY <1>13 DEF ForkOut, ForkGrandchild, Exits, Cost
  <2>3. Readers' = Readers
    <3>1. CASE Exits(p)
      BY <3>1 DEF Exits, Readers
    <3>2. CASE ForkOut(p)
      <4>1. PICK q \in Pids : proc[q] = "none" /\ role' = [role EXCEPT ![q] = "out"]
        BY <3>2 DEF ForkOut, ForkGrandchild, Unborn
      <4>2. role[q] = "none"
        BY <4>1 DEF JobInv, PairInv
      <4>3. QED
        BY <4>1, <4>2 DEF Readers, TypeOK
    <3>3. QED
      BY <1>13, <3>1, <3>2
  <2>4. QED
    BY <1>1, <1>2, <1>3, <2>1, <2>2, <2>3
<1>14. CASE Shell \/ User
  BY <1>5, <1>6, <1>7, <1>8, <1>9, <1>10, <1>11, <1>12, <1>14, ShellSteps
<1>15. ASSUME NEW p \in Pids, Others(p) PROVE FdsInv'
  BY <1>6, <1>13, <1>15, ProcessSteps
<1>16. QED
  BY <1>4, <1>14, <1>15 DEF Next

-----------------------------------------------------------------------------
LEMMA Initially == ASSUME Init PROVE IndInv
<1>1. TypeOK
  <2>1. LineTypeOK
    <3>1. line \in [number : Nat, words : Lines \cup {<<>>}]
      BY DEF Init, LineInit
    <3>2. args \in [Slots -> {NULL, "own", "stale", "wild"}]
      BY DEF Init, LineInit
    <3>3. HISTORY \in [0 .. MAX_HISTORY_AMOUNT - 1 -> Nat]
      BY DEF Init, LineInit
    <3>4. /\ HIST_COUNT \in Nat /\ cleared \in BOOLEAN
          /\ typed \in Seq(Nat) /\ Len(typed) = HIST_COUNT
      <4>1. HIST_COUNT = 0 /\ cleared = FALSE /\ typed = <<>>
        BY DEF Init, LineInit
      <4>2. <<>> \in Seq(Nat) /\ Len(<<>>) = 0
        OBVIOUS
      <4>3. QED
        BY ONLY <4>1, <4>2
    <3>5. QED
      BY <3>1, <3>2, <3>3, <3>4 DEF LineTypeOK
  <2>2. /\ shell = "prompt" /\ RUNNING \in BOOLEAN /\ FIFO_PATH \in Paths
        /\ {pid, told, pid_out_cp} \subseteq {NONE}
        /\ writers = {} /\ pending = {} /\ fifo = {} /\ left = {}
    BY DEF Init
  <2>3. fds \in 0 .. MaxFds /\ signals \in 0 .. MaxSignals
    BY ShellAssumption DEF Init
  <2>4. /\ proc \in [Pids -> {"none"}] /\ role \in [Pids -> {"none"}]
        /\ out \in [Pids -> {NONE}]
    BY DEF Init
  <2>5. QED
    BY <2>1, <2>2, <2>3, <2>4 DEF TypeOK, AtPrompt
<1>2. RingInv /\ ArgsInv /\ CrashCause
  BY DEF Init, LineInit, RingInv, ArgsInv, CrashCause
<1>3. Current = {}
  BY DEF Init, Current, Living
<1>4. JobsInv /\ PairInv /\ FifoInv
  BY <1>3 DEF Init, JobsInv, PairInv, FifoInv
<1>5. FdsInv
  BY <1>1, ReadersFinite DEF Init, FdsInv, Readers, InHand
<1>6. QED
  BY <1>1, <1>2, <1>4, <1>5 DEF Init, IndInv

LEMMA StepKeeps == ASSUME IndInv, [Next]_vars PROVE IndInv'
<1>1. TypeOK /\ LineTypeOK /\ CloseHasFds /\ JobInv /\ FdsInv
  BY DEF IndInv, TypeOK, CloseHasFds, JobInv
<1>2. TypeOK' /\ CloseHasFds'
  BY <1>1, TypeKeeps
<1>3. RingInv' /\ ArgsInv' /\ CrashCause'
  BY <1>1, RingKeeps, ArgsKeep, CrashKeeps DEF IndInv
<1>4. JobInv' /\ FdsInv'
  BY <1>1, JobKeeps, FdsKeep
<1>5. QED
  BY <1>2, <1>3, <1>4 DEF IndInv, CloseHasFds, JobInv

(* The inductive invariant: the line, the ring of HISTORY, the processes   *)
(* of the command that runs, and the descriptors of the shell.             *)
THEOREM Invariance == Spec => []IndInv
<1>1. Init => IndInv
  BY Initially
<1>2. IndInv /\ [Next]_vars => IndInv'
  BY StepKeeps
<1>3. QED
  BY <1>1, <1>2, PTL DEF Spec

(* tiny_shell.c keeps all its variables in range, whatever is typed.       *)
THEOREM TypeCorrect == Spec => []TypeOK
<1>1. IndInv => TypeOK
  BY DEF IndInv
<1>2. QED
  BY <1>1, Invariance, PTL

(* main(), handle_sigint(): at the prompt, and until the next command is   *)
(* started, there is no process but those that ^C has made the shell leave. *)
THEOREM NothingRuns == Spec => []NothingRunsAtThePrompt
<1>1. IndInv => NothingRunsAtThePrompt
  BY DEF IndInv, JobsInv, Current, NothingRunsAtThePrompt
<1>2. QED
  BY <1>1, Invariance, PTL

(* run_pipe(): the one FIFO does not connect a program to one of another   *)
(* pipe, but for those that ^C has left behind.                            *)
THEOREM NoMixing == Spec => []PipesDoNotMix
<1>1. ASSUME IndInv, NEW p \in fifo \ left, NEW q \in fifo \ left,
             role[p] = "in", role[q] = "out"
      PROVE  out[p] = q
  <2>1. p \in Current /\ q \in Current
    BY <1>1 DEF IndInv, TypeOK, FifoInv, Current, Living
  <2>2. QED
    BY <1>1, <2>1 DEF IndInv, PairInv
<1>2. IndInv => PipesDoNotMix
  BY <1>1 DEF PipesDoNotMix
<1>3. QED
  BY <1>2, Invariance, PTL

(* run_pipe(): fd[0] is never closed; fd[1] is not if ^C comes before, and *)
(* then there may be no child either; and nothing else is lost.            *)
THEOREM Descriptors == Spec => []DescriptorsLost
<1>1. ASSUME IndInv PROVE DescriptorsLost
  <2>1. fds \in Nat
    BY <1>1, ShellAssumption DEF IndInv, TypeOK
  <2>2. Cardinality({p \in Pids : role[p] = "in"}) \in Nat /\ signals \in Nat
    BY <1>1, ReadersFinite, ShellAssumption DEF IndInv, TypeOK, Readers
  <2>3. QED
    BY <1>1, <2>1, <2>2 DEF IndInv, FdsInv, DescriptorsLost, InHand
<1>2. QED
  BY <1>1, Invariance, PTL

(* shell_system(): the pointers that strcmp() and atoi() are given are     *)
(* good but after a blank line, a bare "limit", a line too long for what   *)
(* memset() has cleared, or ^C.                                            *)
THEOREM CrashesOnlyOf == Spec => []CrashCause
<1>1. IndInv => CrashCause
  BY DEF IndInv
<1>2. QED
  BY <1>1, Invariance, PTL

(* parse_line(): a short line is run with its words and no others.         *)
THEOREM ShortLines == Spec => []ShortLinesAreExact
<1>1. IndInv => ShortLinesAreExact
  BY ArgsOfShortLine DEF IndInv, TypeOK, ShortLinesAreExact
<1>2. QED
  BY <1>1, Invariance, PTL

(* show_history(): where the lines it prints are, and that they are the    *)
(* last of those recorded, in order.                                       *)
LEMMA RingShowsTheLast ==
  ASSUME LineTypeOK, RingInv, shell = "run" PROVE HistoryShowsTheLast
<1> USE HistoryAssumption
<1> DEFINE H == HIST_COUNT
           M == MAX_HISTORY_AMOUNT
           first == IF H <= M THEN 0 ELSE H % M
           n == IF H < M THEN H ELSE M
           place(k) == (first + k - 1) % M
<1>1. H \in Nat /\ M \in Nat \ {0} /\ n \in Nat
  BY DEF LineTypeOK
<1>2. /\ H % M \in 0 .. M - 1 /\ H \div M \in Nat /\ H = M * (H \div M) + (H % M)
  BY <1>1, DivMod
<1>3. ASSUME H > M PROVE H >= M + (H % M) /\ (H < 2 * M => H % M = H - M)
  <2> DEFINE q == H \div M
             r == H % M
  <2>1. q \in Nat /\ r \in 0 .. M - 1 /\ H = M * q + r
    BY <1>2
  <2> HIDE DEF q, r
  <2>2. q # 0
    BY <1>1, <1>3, <2>1
  <2>3. PICK d \in Nat : q = d + 1
    BY <2>1, <2>2
  <2>4. M * q = M + M * d /\ M * d \in Nat
    BY <1>1, <2>3
  <2>5. d # 0 => M * d >= M
    BY <1>1, <2>3
  <2>6. H < 2 * M => d = 0
    BY <1>1, <2>1, <2>3, <2>4, <2>5
  <2>7. d = 0 => M * d = 0
    BY <1>1
  <2>8. QED
    BY <1>1, <2>1, <2>4, <2>6, <2>7 DEF r
<1>4. print_history = [k \in 1 .. n |-> [number |-> first + k, line |-> HISTORY[place(k)]]]
  <2>1. n = IF H < first + M THEN H - first ELSE M
    <3>1. CASE H <= M
      BY <1>1, <3>1
    <3>2. CASE H > M
      BY <1>1, <1>2, <1>3, <3>2
    <3>3. QED
      BY <1>1, <3>1, <3>2
  <2>2. QED
    BY <2>1 DEF print_history
<1>5. ASSUME NEW k \in 1 .. n PROVE HISTORY[place(k)] = typed[H - n + k]
  <2>1. H - n + k \in 1 .. H /\ H - n + k >= H - M + 1
    BY <1>1, <1>5
  <2>2. HISTORY[(H - n + k - 1) % M] = typed[H - n + k]
    <3>1. PICK j \in 1 .. H : j = H - n + k
      BY <2>1
    <3>2. HISTORY[(j - 1) % M] = typed[j]
      BY <1>1, <2>1, <3>1 DEF RingInv
    <3>3. j - 1 = H - n + k - 1
      BY <1>1, <1>5, <3>1
    <3>4. QED
      BY <3>1, <3>2, <3>3
  <2>3. CASE H <= M
    <3>1. H - n + k - 1 = first + k - 1
      BY <1>1, <1>5, <2>3
    <3>2. QED
      BY <2>2, <3>1
  <2>4. CASE H > M
    <3> DEFINE d == (H \div M) - 1
               x == (H % M) + k - 1
    <3>1. H \div M # 0
      BY <1>1, <1>2, <2>4
    <3>2. d \in Nat /\ x \in Nat
      BY <1>1, <1>2, <1>5, <3>1
    <3>3. M * (H \div M) = M * d + M
      BY <1>1, <1>2, <3>2
    <3>4. H - n + k - 1 = M * d + x
      BY <1>1, <1>2, <1>5, <2>4, <3>2, <3>3
    <3>5. (M * d + x) % M = x % M
      BY <1>1, <3>2, ModSum
    <3>6. place(k) = x % M
      BY <1>1, <2>4
    <3>7. QED
      BY <2>2, <3>4, <3>5, <3>6
  <2>5. QED
    BY <1>1, <2>3, <2>4
<1>6. /\ Len(print_history) = n
      /\ \A k \in 1 .. n : /\ print_history[k].line = HISTORY[place(k)]
                           /\ print_history[k].number = first + k
  BY <1>1, <1>4
<1>7. LastTyped = [k \in 1 .. n |-> typed[H - n + k]]
  BY DEF LastTyped
<1>8. [k \in 1 .. Len(print_history) |-> print_history[k].line] = LastTyped
  BY <1>5, <1>6, <1>7
<1>9. H < 2 * M => \A k \in 1 .. n : first + k = H - n + k
  BY <1>1, <1>2, <1>3
<1>10. QED
  BY <1>6, <1>8, <1>9 DEF HistoryShowsTheLast

(* record_history(), show_history(): "history" prints the last lines.      *)
THEOREM HistoryIsTheLast == Spec => []HistoryShowsTheLast
<1>1. IndInv => HistoryShowsTheLast
  BY RingShowsTheLast DEF IndInv, TypeOK, HistoryShowsTheLast
<1>2. QED
  BY <1>1, Invariance, PTL

=============================================================================
