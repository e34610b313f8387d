--------------------------- MODULE MCTrutThreads ----------------------------
(* One host, which the user or PortThread adds, one search and two downloads. *)
EXTENDS TrutThreads
=============================================================================
