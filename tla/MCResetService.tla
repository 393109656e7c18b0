--------------------------- MODULE MCResetService ---------------------------
(***************************************************************************)
(* Instances of ResetService for TLC.                                      *)
(***************************************************************************)
EXTENDS ResetService

CONSTANTS p1, customers

FirstProcess == [t \in Threads |-> p1]

OneTable == <<customers>>

(* The first updated_at is of another day than the later ones. *)
Days == [at \in 1..MaxTime |-> IF at = 1 THEN 1 ELSE 2]
=============================================================================
