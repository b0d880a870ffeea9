------------------------------ MODULE CommandLine ------------------------------
(***************************************************************************)
(* tiny-shell/tiny_shell.c: what the shell keeps of the lines it reads.    *)
(*                                                                         *)
(* args holds pointers into the buffer line, into which the next line is   *)
(* read.  A pointer is NULL, or points                                     *)
(*   "own"    to a word of the line that was read last                     *)
(*   "stale"  to where a word of an earlier line was: to any text          *)
(*   "wild"   nowhere in particular: args is not initialised               *)
(* Lines stay below MAX_LINE_LENGTH characters, so that getline() does not *)
(* outgrow the buffer.                                                     *)
(***************************************************************************)
EXTENDS Integers, Sequences, FiniteSets

CONSTANTS
  Lines,               \* what is typed: sequences of words
  MAX_LINE_LENGTH,     \* pointers of args
  MEMSET,              \* of these, the ones that memset(args, 0, 120) clears
  MAX_HISTORY_AMOUNT   \* lines of HISTORY

ASSUME LinesAssumption ==
  /\ MEMSET \in Nat \ {0} /\ MAX_LINE_LENGTH \in Nat /\ MEMSET <= MAX_LINE_LENGTH
  /\ \A words \in Lines : words \in Seq(STRING) /\ Len(words) <= MAX_LINE_LENGTH
ASSUME HistoryAssumption == MAX_HISTORY_AMOUNT \in Nat \ {0}

VARIABLES
  line,        \* its words, and how many lines have been read with it
  args, HISTORY, HIST_COUNT,
  cleared,     \* history: memset() has been called since line was last run
  typed        \* history: every line recorded, as its number

lineVars == <<line, args, HISTORY, HIST_COUNT, cleared, typed>>

NULL == "NULL"
Slots == 0 .. MAX_LINE_LENGTH - 1

LineInit ==
  /\ line = [number |-> 0, words |-> <<>>]
  /\ args \in [Slots -> {NULL, "wild"}]
  /\ HISTORY = [h \in 0 .. MAX_HISTORY_AMOUNT - 1 |-> 0]
  /\ HIST_COUNT = 0
  /\ cleared = FALSE
  /\ typed = <<>>

(* Mutant: memset() is left out. *)
DoNotClear ==
  /\ cleared' = TRUE
  /\ UNCHANGED <<line, args, HISTORY, HIST_COUNT, typed>>

(* 120 bytes are 15 of the 120 pointers.  line is cleared too. *)
memset ==
  /\ args' = [s \in Slots |-> IF s < MEMSET THEN NULL ELSE args[s]]
  /\ cleared' = TRUE
  /\ UNCHANGED <<line, HISTORY, HIST_COUNT, typed>>

read_line(words) ==
  /\ line' = [number |-> line.number + 1, words |-> words]
  /\ args' = [s \in Slots |-> IF args[s] = "own" THEN "stale" ELSE args[s]]
  /\ UNCHANGED <<HISTORY, HIST_COUNT, cleared, typed>>

(* Mutant: the slot is found from the next count. *)
RecordAhead ==
  /\ HISTORY' = [HISTORY EXCEPT ![(HIST_COUNT + 1) % MAX_HISTORY_AMOUNT] = line.number]
  /\ UNCHANGED <<line, args, HIST_COUNT, cleared, typed>>

(* record_history(), in two steps: SIGINT may come between. *)
RecordLine ==
  /\ HISTORY' = [HISTORY EXCEPT ![HIST_COUNT % MAX_HISTORY_AMOUNT] = line.number]
  /\ UNCHANGED <<line, args, HIST_COUNT, cleared, typed>>

(* Mutant: the line is not counted. *)
CountNothing ==
  /\ typed' = Append(typed, line.number)
  /\ UNCHANGED <<line, args, HISTORY, HIST_COUNT, cleared>>

CountLine ==
  /\ HIST_COUNT' = HIST_COUNT + 1
  /\ typed' = Append(typed, line.number)
  /\ UNCHANGED <<line, args, HISTORY, cleared>>

(* parse_line() ends the words with no NULL. *)
parse_line ==
  /\ args' = [s \in Slots |-> IF s < Len(line.words) THEN "own" ELSE args[s]]
  /\ UNCHANGED <<line, HISTORY, HIST_COUNT, cleared, typed>>

(* What "history" prints. *)
print_history ==
  LET first == IF HIST_COUNT <= MAX_HISTORY_AMOUNT THEN 0
               ELSE HIST_COUNT % MAX_HISTORY_AMOUNT
      shown == IF HIST_COUNT < first + MAX_HISTORY_AMOUNT THEN HIST_COUNT - first
               ELSE MAX_HISTORY_AMOUNT
  IN  [k \in 1 .. shown |->
         [number |-> first + k, line |-> HISTORY[(first + k - 1) % MAX_HISTORY_AMOUNT]]]

(* The words that a program, or find_pipe(), finds. *)
Argc == CHOOSE n \in 0 .. MAX_LINE_LENGTH :
          /\ n = MAX_LINE_LENGTH \/ args[n] = NULL
          /\ \A s \in 0 .. n - 1 : args[s] # NULL

Words == {"history", "limit", "exit", "cd", "|", "ls"}
Text(s) == IF args[s] = "own" THEN {line.words[s + 1]} ELSE Words

(* find_pipe(), where stale words may be read as anything. *)
SeenBefore(s) == \A r \in 0 .. s - 1 : Text(r) # {"|"}
find_pipe ==
  {s \in 0 .. Argc - 1 : "|" \in Text(s) /\ SeenBefore(s)}
    \cup {n \in {-1} : SeenBefore(Argc)}
wild_read ==
  \E s \in {r \in Slots : args[r] = "wild" /\ r < Argc} \cup ({Argc} \ Slots) : SeenBefore(s)

(* siglongjmp() leads behind memset(). *)
JumpBack ==
  /\ cleared' = FALSE
  /\ UNCHANGED <<line, args, HISTORY, HIST_COUNT, typed>>

(* args[pipe_index] = NULL *)
EndAtPipe(s) ==
  /\ args' = [args EXCEPT ![s] = NULL]
  /\ UNCHANGED <<line, HISTORY, HIST_COUNT, cleared, typed>>

-----------------------------------------------------------------------------
LineTypeOK ==
  /\ line \in [number : Nat, words : Lines \cup {<<>>}]
  /\ args \in [Slots -> {NULL, "own", "stale", "wild"}]
  /\ HISTORY \in [0 .. MAX_HISTORY_AMOUNT - 1 -> Nat]
  /\ HIST_COUNT \in Nat
  /\ cleared \in BOOLEAN
  /\ typed \in Seq(Nat) /\ Len(typed) = HIST_COUNT

Exact(n) == Argc = n /\ \A s \in 0 .. n - 1 : args[s] = "own"
LastTyped == LET n == IF HIST_COUNT < MAX_HISTORY_AMOUNT THEN HIST_COUNT ELSE MAX_HISTORY_AMOUNT
             IN  [k \in 1 .. n |-> typed[HIST_COUNT - n + k]]
=============================================================================
