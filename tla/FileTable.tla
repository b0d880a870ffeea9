------------------------------ MODULE FileTable ------------------------------
(***************************************************************************)
(* What sfs_fopen, sfs_fclose and sfs_remove say of names and descriptors, *)
(* contents apart: a name stands for one file at a time, a file has one    *)
(* name and at most one descriptor, a new file is none that is still named *)
(* or open, and removing a file takes it from the directory and from the   *)
(* table of descriptors (sfs_api.c:751-752, "Close the file if opened"     *)
(* :804).                                                                  *)
(***************************************************************************)
CONSTANTS Names, Descriptors, Files

VARIABLES
  named,    \* <<name, file>>
  opened    \* <<descriptor, file>>

vars == <<named, opened>>

Init == named = {} /\ opened = {}

Create(n, x) ==
  /\ \A p \in named : p[1] # n /\ p[2] # x
  /\ \A q \in opened : q[2] # x
  /\ named' = named \cup {<<n, x>>}
  /\ UNCHANGED opened

OpenFile(f, n) ==
  /\ \A q \in opened : q[1] # f
  /\ \E p \in named : /\ p[1] = n
                      /\ \A q \in opened : q[2] # p[2]
                      /\ opened' = opened \cup {<<f, p[2]>>}
  /\ UNCHANGED named

Close(f) ==
  /\ \E q \in opened : q[1] = f /\ opened' = opened \ {q}
  /\ UNCHANGED named

Remove(n) ==
  \E p \in named :
    /\ p[1] = n
    /\ named' = named \ {p}
    /\ opened' = {q \in opened : q[2] # p[2]}

Next ==
  \/ \E n \in Names, x \in Files : Create(n, x)
  \/ \E n \in Names, f \in Descriptors : OpenFile(f, n)
  \/ \E f \in Descriptors : Close(f)
  \/ \E n \in Names : Remove(n)

Spec == Init /\ [][Next]_vars
=============================================================================
