------------------------------ MODULE MCTinyShell ------------------------------
(* A simple command of one word and of two, a pipe, and the lines that the *)
(* shell treats by itself or trips over.                                   *)
EXTENDS TinyShell

MCLines == {<<>>, <<"ls">>, <<"ls", "|", "ls">>, <<"limit", "ls">>,
            <<"history">>, <<"limit">>, <<"exit">>}
MCPlainLines == {<<"ls">>, <<"ls", "ls">>}
=============================================================================
