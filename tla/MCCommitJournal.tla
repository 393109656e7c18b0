-------------------------- MODULE MCCommitJournal --------------------------
(***************************************************************************)
(* Instances of CommitJournal for TLC.                                     *)
(***************************************************************************)
EXTENDS CommitJournal

CONSTANTS p1, p2, t1, t2

(* Both request threads belong to the one service process. *)
OneProcess == [t \in Threads |-> p1]

(* Each of two processes has one request thread. *)
TwoProcesses == [t \in Threads |-> IF t = t1 THEN p1 ELSE p2]
=============================================================================
