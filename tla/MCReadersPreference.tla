------------------------- MODULE MCReadersPreference -------------------------
(* Two readers and two writers: of the readers either may come in first and *)
(* either go out last, and a writer has another to compete with.            *)
EXTENDS ReadersPreference

CONSTANTS r1, r2, w1, w2

MCReaders == {r1, r2}
MCWriters == {w1, w2}
=============================================================================
