---------------------------- MODULE MCKeyStream ----------------------------
(* A digest of two bytes, so that it can be cut, and a buffer with room for one *)
(* byte more than is held back.                                              *)
EXTENDS KeyStream
============================================================================
