----------------------------- MODULE MCMyStdio -----------------------------
(* Values of the constants of MyStdio for TLC.                             *)
EXTENDS MyStdio

(* A part of a line, a line, the end of one, and a line and a half.        *)
TheChunks == {<<"x">>, <<"x", "\n">>, <<"\n">>, <<"x", "\n", "x">>}

OldContent == <<"x", "\n">>
=============================================================================
