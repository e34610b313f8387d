---------------------------- MODULE MCConnection ----------------------------
(* Instance of Connection for TLC. *)
EXTENDS Connection

\* No content, content shorter and longer than the first buffers.
MCBodies == {<<>>, <<"lf", "x">>}
\* No limit, and one that cuts a header.
MCHdrMaxes == {-1, 4}
=============================================================================
