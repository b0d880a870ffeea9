-------------------------------- MODULE RWLock --------------------------------
(***************************************************************************)
(* What a readers-writers lock promises to the threads of readers-writers/ *)
(* whatever it is built from: readers share the value, a writer has it     *)
(* alone, and only the writer that has it changes it.                      *)
(***************************************************************************)
CONSTANTS Readers, Writers, Values

VARIABLES
  reading,   \* the readers that hold the lock
  writing,   \* the writers that hold the lock
  value      \* the data the lock protects

vars == <<reading, writing, value>>

Init ==
  /\ reading = {} /\ writing = {}
  /\ value \in Values

EnterRead(r) ==
  /\ r \notin reading
  /\ writing = {}
  /\ reading' = reading \cup {r}
  /\ UNCHANGED <<writing, value>>

LeaveRead(r) ==
  /\ r \in reading
  /\ reading' = reading \ {r}
  /\ UNCHANGED <<writing, value>>

EnterWrite(w) ==
  /\ reading = {} /\ writing = {}
  /\ writing' = {w}
  /\ UNCHANGED <<reading, value>>

Write(w) ==
  /\ w \in writing
  /\ value' \in Values
  /\ UNCHANGED <<reading, writing>>

LeaveWrite(w) ==
  /\ w \in writing
  /\ writing' = writing \ {w}
  /\ UNCHANGED <<reading, value>>

Next ==
  \/ \E r \in Readers : EnterRead(r) \/ LeaveRead(r)
  \/ \E w \in Writers : EnterWrite(w) \/ Write(w) \/ LeaveWrite(w)

Spec == Init /\ [][Next]_vars
=============================================================================
