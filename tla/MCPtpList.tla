----------------------------- MODULE MCPtpList -----------------------------
(* Two threads and three entries: enough for both to work on the same      *)
(* entry, for a loop to remove one entry and go on to the next, and for    *)
(* Remove to have a neighbour on either side.  Liveness is checked, so no  *)
(* symmetry is declared.                                                   *)
EXTENDS PtpList
============================================================================
