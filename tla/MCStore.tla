------------------------------- MODULE MCStore -------------------------------
(* Three entries are the fewest in which an identity without a key stands   *)
(* in front of two others; the address of one that was removed may be used  *)
(* again by the next one.                                                   *)
EXTENDS Store, TLC

Symmetry == Permutations(Ptrs) \cup Permutations(Bodies)
==============================================================================
