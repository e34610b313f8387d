--------------------------- MODULE MCAuthenticator ---------------------------
(* Two threads verify and challenge; two challenges are pending together.  *)
EXTENDS Authenticator, TLC

Symmetry == Permutations(Threads) \cup Permutations(Nonces) \cup Permutations(Contexts)
==============================================================================
