-------------------------- MODULE MCDurableJournal --------------------------
(***************************************************************************)
(* Instances of DurableJournal for TLC.                                    *)
(***************************************************************************)
EXTENDS DurableJournal, TLC

CONSTANTS p1, lake, checkpoint

FirstProcess == [t \in Threads |-> p1]

(* The directory of a lake partition comes into being with its first file. *)
Paths == [f \in Files |-> IF f = lake THEN <<"lake", "data">> ELSE <<"checkpoint">>]

(* Contents are interchangeable. *)
Symmetry == Permutations(Contents)
=============================================================================
