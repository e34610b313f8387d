----------------------------- MODULE MCTrutGroup -----------------------------
(* Two peers are enough for a join that meets a member, a join that races  *)
(* an answer and a member that restarts or leaves; for any number of them  *)
(* the invariants are proved in NetGroupProofs.                            *)
EXTENDS TrutGroup
==============================================================================
