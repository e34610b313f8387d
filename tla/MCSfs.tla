------------------------------- MODULE MCSfs -------------------------------
(* Two users on one computer and a third elsewhere.  Bob's certificate is      *)
(* signed by Alice, so that Carol accepts it only after she has met Alice.     *)
EXTENDS Sfs

MCIdentity == <<"alice", "bob", "carol">>
MCIssuer == [alice |-> "alice", bob |-> "alice", carol |-> "carol"]
MCKnown == [p \in Procs |-> {}]
MCHost == <<"home", "home", "work">>
============================================================================
