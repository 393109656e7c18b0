-------------------------- MODULE MCIngestService --------------------------
(***************************************************************************)
(* Instances of IngestService, with its inductive invariants, for TLC.     *)
(***************************************************************************)
EXTENDS IngestInvariant, TLC

CONSTANTS p1, p2, t1, customers, cases

(* The request threads belong to the first process. *)
FirstProcess == [t \in Threads |-> p1]

OneTable == <<customers>>

(* domain/tables.py: ALL_TABLES *)
TwoTables == <<customers, cases>>

(* The first updated_at is of another day than the later ones. *)
Days == [at \in 1..MaxTime |-> IF at = 1 THEN 1 ELSE 2]
=============================================================================
