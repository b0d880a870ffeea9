------------------------------- MODULE TinyShell -------------------------------
(***************************************************************************)
(* tiny-shell/tiny_shell.c: the command loop, the processes it forks, the  *)
(* pipe and the FIFO between them, and the signals of the terminal, which  *)
(* go to all of them at once and are taken by each in its own time.        *)
(*                                                                         *)
(* proc[p] is where process p is:                                          *)
(*   "fork" "tell" "open" "exec"   in the shell's code, before execvp()    *)
(*   "program" "stopped"           in the program                          *)
(*   "asking" "loop"    in handle_sigint(), and back in main()'s loop as a *)
(*                      second shell, whose commands are not followed      *)
(*   "zombie" "gone"    exited and not yet waited for; waited for          *)
(* A SIGINT is taken between two actions, and there is one for each        *)
(* statement of the shell that changes what is modelled; parse_line() and  *)
(* memset() are one each.                                                  *)
(*                                                                         *)
(* Left out: that a stopped process is continued from elsewhere, a shell   *)
(* for which pipe() has failed, and an open() of the FIFO that fails.      *)
(***************************************************************************)
EXTENDS CommandLine

CONSTANTS
  Pids,                           \* processes there can be, 1 ..
  MaxLines, MaxSignals,           \* bounds: lines read, keys ^C and ^Z hit
  MaxFds                          \* descriptors there can be beyond the first three

ASSUME ShellAssumption ==
  /\ MaxLines \in Nat /\ MaxSignals \in Nat /\ MaxFds \in Nat
  /\ Pids \subseteq Nat \ {0} /\ IsFiniteSet(Pids)

VARIABLES
  shell,        \* where the shell is
  RUNNING,      \* sigsetjmp(RUNNING) has been called
  FIFO_PATH,    \* "" if none is given, "fifo", or "other" if mkfifo() makes none of it
  pid,          \* whom the shell waits for: pid, or pid_in
  told,         \* what has been written to the pipe: NULL, or pid_out
  pid_out_cp,
  writers,      \* who has the pipe open for writing
  fds,          \* descriptors that the shell has open
  proc, role,   \* "simple", or "in" and "out", the two sides of a pipe
  out,          \* of an "in" process: its pid_out
  fifo,         \* processes that have the FIFO open
  pending,      \* those that have not yet taken a SIGINT
  signals,
  left          \* history: processes the shell has jumped away from

jobVars == <<pid, told, pid_out_cp, writers, fds, proc, role, out, fifo>>
vars == <<lineVars, jobVars, shell, RUNNING, FIFO_PATH, pending, signals, left>>

SHELL == 0
NONE  == -1
PreExec == {"fork", "tell", "open", "exec"}
Living  == {p \in Pids : proc[p] \notin {"none", "gone"}}
Over    == {"exited", "crashed"}
Paths   == {"", "fifo", "other"}

Init ==
  /\ LineInit
  /\ shell = "prompt" /\ RUNNING = FALSE /\ FIFO_PATH \in Paths
  /\ pid = NONE /\ told = NONE /\ pid_out_cp = NONE /\ writers = {} /\ fds = 0
  /\ proc = [p \in Pids |-> "none"] /\ role = [p \in Pids |-> "none"]
  /\ out = [p \in Pids |-> NONE]
  /\ fifo = {} /\ pending = {} /\ signals = 0 /\ left = {}

-----------------------------------------------------------------------------
(* The command loop *)

At(here, next) == shell = here /\ shell' = next
KeepJobs    == UNCHANGED <<jobVars, left>>
KeepSignals == UNCHANGED <<FIFO_PATH, pending, signals>>

Prompt ==
  /\ At("prompt", "read") /\ memset /\ RUNNING' = TRUE
  /\ KeepJobs /\ KeepSignals

ReadLine ==
  /\ line.number < MaxLines
  /\ \E words \in Lines : At("read", "record") /\ read_line(words)
  /\ UNCHANGED RUNNING /\ KeepJobs /\ KeepSignals

(* An empty line, or no line. *)
ReadNothing ==
  /\ line.number < MaxLines
  /\ \/ At("read", "prompt") /\ read_line(<<>>)
     \/ At("read", "exited") /\ UNCHANGED lineVars
  /\ UNCHANGED RUNNING /\ KeepJobs /\ KeepSignals

Record == At("record", "count") /\ RecordLine /\ UNCHANGED RUNNING /\ KeepJobs /\ KeepSignals
Count  == At("count", "parse") /\ CountLine /\ UNCHANGED RUNNING /\ KeepJobs /\ KeepSignals
Parse  == At("parse", "run") /\ parse_line /\ UNCHANGED RUNNING /\ KeepJobs /\ KeepSignals

(* shell_system(): strcmp() of NULL, or of a wild pointer; atoi() of NULL. *)
External == Text(0) \cap {"ls", "|"} # {}
Crash ==
  /\ At("run", "crashed")
  /\ \/ args[0] = NULL
     \/ "limit" \in Text(0) /\ args[1] = NULL
     \/ External /\ wild_read
  /\ UNCHANGED <<lineVars, RUNNING>> /\ KeepJobs /\ KeepSignals

Internal ==
  /\ args[0] # NULL
  /\ \/ At("run", "prompt") /\ Text(0) \cap {"history", "cd"} # {}
     \/ At("run", "prompt") /\ "limit" \in Text(0) /\ args[1] # NULL
     \/ At("run", "exited") /\ "exit" \in Text(0)
  /\ UNCHANGED <<lineVars, RUNNING>> /\ KeepJobs /\ KeepSignals

(* fork(); pids are given out in turn. *)
Unborn == {p \in Pids : proc[p] = "none"}
Spawn(p, here, as) ==
  /\ p \in Unborn /\ \A q \in Unborn : p <= q
  /\ proc' = [proc EXCEPT ![p] = here] /\ role' = [role EXCEPT ![p] = as]

ForkFails ==
  /\ \/ At("run", "exited") /\ args[0] # NULL /\ External
     \/ At("fork_in", "exited")
  /\ UNCHANGED <<lineVars, RUNNING>> /\ KeepJobs /\ KeepSignals

Fork ==
  /\ At("run", "wait") /\ args[0] # NULL /\ External /\ -1 \in find_pipe
  /\ \E p \in Pids : Spawn(p, "exec", "simple") /\ pid' = p
  /\ UNCHANGED <<lineVars, told, pid_out_cp, writers, fds, out, fifo, RUNNING, left>>
  /\ KeepSignals

NoFifo ==
  /\ At("run", "prompt") /\ args[0] # NULL /\ External /\ find_pipe # {-1}
  /\ FIFO_PATH = ""
  /\ UNCHANGED <<lineVars, RUNNING>> /\ KeepJobs /\ KeepSignals

(* run_pipe(), which a SIGINT may leave after each of its statements. *)
RunPipe ==
  /\ At("run", "pipe") /\ args[0] # NULL /\ External /\ FIFO_PATH # ""
  /\ \E s \in find_pipe \ {-1} : EndAtPipe(s)
  /\ UNCHANGED RUNNING /\ KeepJobs /\ KeepSignals

Pipe ==
  /\ At("pipe", "fork_in")
  /\ fds + 2 <= MaxFds                  \* bound: pipe() does not fail
  /\ fds' = fds + 2 /\ told' = NONE /\ pid_out_cp' = NONE /\ writers' = {SHELL}
  /\ UNCHANGED <<lineVars, pid, proc, role, out, fifo, RUNNING, left>>
  /\ KeepSignals

ForkIn ==
  /\ At("fork_in", "close")
  /\ \E p \in Pids : Spawn(p, "fork", "in") /\ pid' = p /\ writers' = {SHELL, p}
  /\ UNCHANGED <<lineVars, told, pid_out_cp, fds, out, fifo, RUNNING, left>>
  /\ KeepSignals

KeepProcs == UNCHANGED <<proc, role, out, fifo, left, lineVars, RUNNING>> /\ KeepSignals

(* Mutants: the shell keeps its writing end; it does not wait for the end  *)
(* of what comes through the pipe.                                         *)
DoNotClose ==
  /\ At("close", "scan")
  /\ UNCHANGED <<pid, told, pid_out_cp, writers, fds>> /\ KeepProcs
ScanPidOnly ==
  /\ At("scan", "wait_out") /\ (writers = {} \/ told # NONE)
  /\ pid_out_cp' = told
  /\ UNCHANGED <<pid, told, writers, fds>> /\ KeepProcs

ClosePipe ==
  /\ At("close", "scan")
  /\ writers' = writers \ {SHELL} /\ fds' = fds - 1
  /\ UNCHANGED <<pid, told, pid_out_cp>> /\ KeepProcs

(* fscanf("%d") reads on behind the last digit, to the end of file.  If no *)
(* pid came, pid_out_cp is not initialised: it may be that of any child.   *)
Children == {p \in Pids : role[p] \in {"simple", "in"}}
Scan ==
  /\ At("scan", "wait_out") /\ writers = {}
  /\ IF told # NONE THEN pid_out_cp' = told ELSE pid_out_cp' \in Children \cup {NONE}
  /\ UNCHANGED <<pid, told, writers, fds>> /\ KeepProcs

(* waitpid() fails for what is not the shell's child, such as the          *)
(* grandchild, and has nothing to wait for in a child it has reaped.       *)
(* pid_out_cp and told are of no use from then on, and are forgotten.      *)
WaitOut ==
  /\ At("wait_out", "wait")
  /\ IF pid_out_cp \in Children
       THEN /\ proc[pid_out_cp] \in {"zombie", "gone"}
            /\ proc' = [proc EXCEPT ![pid_out_cp] = "gone"]
       ELSE UNCHANGED proc
  /\ told' = NONE /\ pid_out_cp' = NONE
  /\ UNCHANGED <<lineVars, pid, writers, fds, role, out, fifo, RUNNING, left>>
  /\ KeepSignals

Wait ==
  /\ At("wait", "prompt") /\ proc[pid] \in {"zombie", "gone"}
  /\ proc' = [proc EXCEPT ![pid] = "gone"]
  /\ UNCHANGED <<lineVars, pid, told, pid_out_cp, writers, fds, role, out, fifo, RUNNING, left>>
  /\ KeepSignals

-----------------------------------------------------------------------------
(* The processes *)

KeepShell == UNCHANGED <<lineVars, shell, RUNNING, FIFO_PATH, pid, pid_out_cp, fds, signals>>

(* The exit of a grandchild is of no concern to the shell. *)
Exits(p) ==
  /\ proc' = [proc EXCEPT ![p] = IF role[p] = "out" THEN "gone" ELSE "zombie"]
  /\ writers' = writers \ {p} /\ fifo' = fifo \ {p} /\ pending' = pending \ {p}
  /\ UNCHANGED <<told, role, out, left>> /\ KeepShell

(* The grandchild inherits the pipe, if the child still has the latest one. *)
ForkGrandchild(p, q) ==
  /\ proc[p] = "fork" /\ \A r \in Unborn : q <= r
  /\ proc' = [proc EXCEPT ![p] = "tell", ![q] = "open"]
  /\ role' = [role EXCEPT ![q] = "out"]
  /\ out' = [out EXCEPT ![p] = q]
  /\ left' = IF p \in left THEN left \cup {q} ELSE left
  /\ UNCHANGED <<told, fifo, pending>> /\ KeepShell

(* Mutant: it closes its end for writing. *)
ForkOutClosing(p) == \E q \in Unborn : ForkGrandchild(p, q) /\ UNCHANGED writers
ForkOut(p) ==
  \E q \in Unborn :
    /\ ForkGrandchild(p, q)
    /\ writers' = IF p \in writers THEN writers \cup {q} ELSE writers
ForkOutFails(p) == proc[p] = "fork" /\ Exits(p)

Tell(p) ==
  /\ proc[p] = "tell"
  /\ told' = IF p \in writers THEN out[p] ELSE told
  /\ proc' = [proc EXCEPT ![p] = "open"]
  /\ UNCHANGED <<writers, role, out, fifo, pending, left>> /\ KeepShell

(* open(FIFO_PATH) waits for the other side, of whichever pipe. *)
OpenIn(p) ==
  LET readers == {q \in Pids : role[q] = "out" /\ (q \in fifo \/ proc[q] = "open")}
  IN  /\ proc[p] = "open" /\ FIFO_PATH = "fifo" /\ role[p] = "in" /\ readers # {}
      /\ fifo' = fifo \cup {p} \cup readers
      /\ proc' = [q \in Pids |-> IF q = p \/ (q \in readers /\ proc[q] = "open")
                                   THEN "exec" ELSE proc[q]]
      /\ UNCHANGED <<told, writers, role, out, pending, left>> /\ KeepShell
OpenOut(p) ==
  /\ proc[p] = "open" /\ FIFO_PATH = "fifo" /\ role[p] = "out" /\ \E q \in fifo : role[q] = "in"
  /\ fifo' = fifo \cup {p}
  /\ proc' = [proc EXCEPT ![p] = "exec"]
  /\ UNCHANGED <<told, writers, role, out, pending, left>> /\ KeepShell

(* A path that mkfifo() has made no FIFO of: a plain file is opened, and   *)
(* one that cannot be opened leaves the process as it is.                  *)
OpenOther(p) ==
  /\ proc[p] = "open" /\ FIFO_PATH = "other"
  /\ proc' = [proc EXCEPT ![p] = "exec"]
  /\ UNCHANGED <<told, writers, role, out, fifo, pending, left>> /\ KeepShell

Exec(p) ==
  /\ proc[p] = "exec"
  /\ proc' = [proc EXCEPT ![p] = "program"]
  /\ UNCHANGED <<told, writers, role, out, fifo, pending, left>> /\ KeepShell
ExecFails(p) == proc[p] = "exec" /\ Exits(p)

Ends(p) == proc[p] \in {"program", "loop"} /\ Exits(p)

-----------------------------------------------------------------------------
(* Signals *)

(* ^C: to the shell and all the processes. *)
TypeInterrupt ==
  /\ signals < MaxSignals /\ signals' = signals + 1 /\ shell \notin Over
  /\ pending' = {SHELL} \cup {p \in Pids : proc[p] \in PreExec \cup {"program"}}
  /\ UNCHANGED <<lineVars, shell, RUNNING, FIFO_PATH>> /\ KeepJobs

(* ^Z: handle_sigtstp() does nothing; programs stop. *)
TypeStop ==
  /\ signals < MaxSignals /\ signals' = signals + 1 /\ shell \notin Over
  /\ proc' = [p \in Pids |-> IF proc[p] = "program" THEN "stopped" ELSE proc[p]]
  /\ UNCHANGED <<lineVars, shell, RUNNING, FIFO_PATH, pid, told, pid_out_cp, writers, fds,
                 role, out, fifo, pending, left>>

(* handle_sigint(), in the shell. *)
Interrupted ==
  /\ SHELL \in pending /\ shell \notin Over \cup {"asking"}
  /\ shell' = "asking" /\ pending' = pending \ {SHELL}
  /\ UNCHANGED <<lineVars, RUNNING, FIFO_PATH, signals>> /\ KeepJobs
AnswerYes ==
  /\ At("asking", "exited")
  /\ UNCHANGED <<lineVars, RUNNING>> /\ KeepJobs /\ KeepSignals
(* siglongjmp(), also if sigsetjmp() has not been called.  What follows on *)
(* the line of the answer, if only its end, is the next line read.         *)
AnswerNo ==
  /\ At("asking", IF RUNNING THEN "read" ELSE "crashed")
  /\ JumpBack /\ left' = left \cup Living
  /\ UNCHANGED <<jobVars, RUNNING>> /\ KeepSignals

(* In a process before its execvp() the same handler runs. *)
ProcessInterrupted(p) ==
  /\ p \in pending /\ proc[p] \in PreExec
  /\ proc' = [proc EXCEPT ![p] = "asking"] /\ pending' = pending \ {p}
  /\ UNCHANGED <<told, writers, role, out, fifo, left>> /\ KeepShell
ProcessYes(p) == proc[p] = "asking" /\ Exits(p)
ProcessNo(p) ==
  /\ proc[p] = "asking"
  /\ proc' = [proc EXCEPT ![p] = "loop"]
  /\ UNCHANGED <<told, writers, role, out, fifo, pending, left>> /\ KeepShell

(* A program dies of it, or ignores it. *)
Killed(p) == p \in pending /\ proc[p] = "program" /\ Exits(p)
Ignored(p) ==
  /\ p \in pending /\ proc[p] = "program" /\ pending' = pending \ {p}
  /\ UNCHANGED <<told, proc, writers, role, out, fifo, left>> /\ KeepShell

(* Who has a SIGINT pending takes it before anything else. *)
Shell ==
  \/ /\ SHELL \notin pending
     /\ \/ Prompt \/ Record \/ Count \/ Parse \/ Crash \/ Internal \/ ForkFails \/ Fork
        \/ NoFifo \/ RunPipe \/ Pipe \/ ForkIn \/ ClosePipe \/ Scan \/ WaitOut \/ Wait
  \/ Interrupted
Process(p) ==
  \/ /\ p \notin pending
     /\ \/ ForkOut(p) \/ ForkOutFails(p) \/ Tell(p) \/ OpenIn(p) \/ OpenOut(p)
        \/ OpenOther(p) \/ Exec(p) \/ ExecFails(p)
  \/ ProcessInterrupted(p) \/ Killed(p) \/ Ignored(p)
Others(p) == Process(p) \/ Ends(p) \/ ProcessYes(p) \/ ProcessNo(p)
User ==
  \/ SHELL \notin pending /\ (ReadLine \/ ReadNothing)
  \/ AnswerYes \/ AnswerNo \/ TypeInterrupt \/ TypeStop

Next == Shell \/ User \/ \E p \in Pids : Others(p)

Spec == Init /\ [][Next]_vars

(* The operating system runs the shell and the processes; programs end.    *)
FairSpec ==
  /\ Spec
  /\ WF_vars(Shell)
  /\ \A p \in Pids : /\ WF_vars(Process(p))
                     /\ WF_vars(proc[p] = "program" /\ Ends(p))

-----------------------------------------------------------------------------
(* Where the shell has not yet started, or has done with, the command. *)
AtPrompt == {"prompt", "read", "record", "count", "parse", "run", "pipe", "fork_in"}

TypeOK ==
  /\ LineTypeOK
  /\ shell \in AtPrompt \cup {"wait", "close", "scan", "wait_out", "asking"} \cup Over
  /\ RUNNING \in BOOLEAN /\ FIFO_PATH \in Paths
  /\ {pid, told, pid_out_cp} \subseteq Pids \cup {NONE}
  /\ writers \subseteq Pids \cup {SHELL} /\ pending \subseteq Pids \cup {SHELL}
  /\ fds \in 0 .. MaxFds /\ signals \in 0 .. MaxSignals
  /\ proc \in [Pids -> PreExec \cup {"none", "program", "stopped", "asking", "loop",
                                     "zombie", "gone"}]
  /\ role \in [Pids -> {"none", "simple", "in", "out"}]
  /\ out \in [Pids -> Pids \cup {NONE}]
  /\ fifo \subseteq Pids /\ left \subseteq Pids

(* What "history" prints are the last MAX_HISTORY_AMOUNT lines that were   *)
(* counted, in order, wherever the ring has wrapped and whatever line ^C   *)
(* has interrupted between the two statements of record_history().  They   *)
(* have their numbers until there are twice as many lines.                 *)
HistoryShowsTheLast ==
  shell = "run" =>
    LET shown == print_history
    IN  /\ [k \in 1 .. Len(shown) |-> shown[k].line] = LastTyped
        /\ HIST_COUNT < 2 * MAX_HISTORY_AMOUNT =>
             \A k \in 1 .. Len(shown) : shown[k].number = HIST_COUNT - Len(shown) + k

(* A line of fewer words than memset() clears is run with these words and  *)
(* no others, unless ^C has led around memset().                           *)
ShortLinesAreExact ==
  shell = "run" /\ cleared /\ Len(line.words) < MEMSET => Exact(Len(line.words))

(* Descriptors of the pipe being made, beyond the one a child stands for.  *)
InHand == CASE shell = "fork_in" -> 2 [] shell = "close" -> 1 [] OTHER -> 0

(* At the prompt no process of an earlier command runs, or waits to be     *)
(* reaped, but those that ^C has made the shell leave -- the grandchild of *)
(* a pipe included, for which the shell cannot wait with waitpid().        *)
NothingRunsAtThePrompt ==
  shell \in AtPrompt => Living \subseteq left

(* All pipes go through one FIFO: a program reads from another's only if   *)
(* they are of one pipe, or ^C has left one of them behind.                *)
PipesDoNotMix ==
  \A p, q \in fifo \ left : role[p] = "in" /\ role[q] = "out" => out[p] = q

(* A piped command costs the shell one descriptor, and one that ^C has     *)
(* interrupted at most two: between pipe() and fork() it has two and no    *)
(* child yet, and until it closes its end for writing two and a child.     *)
DescriptorsLost ==
  shell \notin Over => fds <= Cardinality({p \in Pids : role[p] = "in"}) + 2 * signals + InHand

(* The shell crashes of nothing but a blank line, a bare "limit", a line   *)
(* of as many words as memset() clears or more, or ^C.                     *)
CrashCause ==
  shell = "crashed" =>
    line.words \in {<<>>, <<"limit">>} \/ Len(line.words) >= MEMSET \/ ~cleared

-----------------------------------------------------------------------------
(* What else holds in every state, from which the properties above follow. *)

(* A place of HISTORY has the line that was the last to be counted there;  *)
(* but the oldest of them is lost as soon as the next is recorded, even if *)
(* ^C then keeps that one from being counted.                              *)
RingInv ==
  LET oldest == HIST_COUNT - MAX_HISTORY_AMOUNT + (IF shell \in {"parse", "run"} THEN 1 ELSE 2)
  IN  /\ \A k \in 1 .. HIST_COUNT :
           k >= oldest => HISTORY[(k - 1) % MAX_HISTORY_AMOUNT] = typed[k]
      /\ shell = "count" => HISTORY[HIST_COUNT % MAX_HISTORY_AMOUNT] = line.number

(* What memset() has cleared is NULL until the words of the line are there. *)
ArgsInv ==
  cleared =>
    /\ shell \in {"read", "record", "count", "parse"} => \A s \in 0 .. MEMSET - 1 : args[s] = NULL
    /\ shell = "run" => \A s \in 0 .. MEMSET - 1 :
                          args[s] = IF s < Len(line.words) THEN "own" ELSE NULL

(* Which processes the shell has to do with in its states.  While it waits *)
(* for the end of what comes through the pipe both sides have it open, and *)
(* when it waits for pid there is no other process.                        *)
Current == Living \ left
JobsInv ==
  /\ shell \in AtPrompt => Current = {}
  /\ shell \in {"close", "scan"} => \A p \in Current :
       /\ role[p] = "out" \/ p = pid
       /\ p \in writers \/ proc[p] = "zombie"
  /\ shell \in {"wait_out", "wait"} => \A p \in Current : p = pid /\ proc[p] # "fork"

(* There is one child at a time, and one grandchild, its own. *)
PairInv ==
  /\ \A p \in Pids : /\ proc[p] = "none" => role[p] = "none"
                     /\ proc[p] = "fork" => role[p] = "in"
                     /\ proc[p] = "zombie" => role[p] # "out"
  /\ \A p, q \in Current :
       /\ role[p] # "out" /\ role[q] # "out" => p = q
       /\ role[p] = "in" /\ role[q] = "out" => out[p] = q /\ proc[p] # "fork"

FifoInv == \A p \in fifo : proc[p] \notin {"none", "zombie", "gone"}

(* A ^C that the shell has not yet taken has cost it no descriptor yet. *)
FdsInv ==
  shell \notin Over =>
    fds + (IF SHELL \in pending THEN 2 ELSE 0)
      <= Cardinality({p \in Pids : role[p] = "in"}) + 2 * signals + InHand

IndInv ==
  /\ TypeOK /\ RingInv /\ ArgsInv /\ CrashCause
  /\ JobsInv /\ PairInv /\ FifoInv /\ FdsInv
  /\ shell \in {"fork_in", "close"} => fds > 0

-----------------------------------------------------------------------------
(* The shell comes back from every command, though two processes and the   *)
(* shell wait for each other around a pipe and a FIFO -- unless a program  *)
(* is stopped, or ^C has interrupted an earlier pipe: while one of its     *)
(* processes has the FIFO open, one side of the next pipe may open it with *)
(* that partner and be done, and the other side then waits for ever.  Nor  *)
(* need it if pid_out_cp, which nobody has set, is that of a process that  *)
(* ^C has left behind.                                                     *)
Busy == shell \in {"pipe", "fork_in", "wait", "close", "scan", "wait_out"}
ComesBack == Busy ~> \/ ~Busy
                     \/ \E p \in Pids : proc[p] = "stopped"
                     \/ \E p \in left : role[p] # "simple"
                     \/ shell = "wait_out" /\ pid_out_cp \in left

(* "ls -l" -> {"ls", "-l", NULL} (tiny_shell.c:55): the words of a line are *)
(* followed by a NULL.  Not so where memset() has not put one: after ^C    *)
(* the words of the next line are followed by what is left of the last.    *)
WordsEndInNull ==
  shell = "run" /\ Len(line.words) < MEMSET => Argc = Len(line.words)
=============================================================================
