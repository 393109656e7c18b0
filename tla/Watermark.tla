----------------------------- MODULE Watermark -----------------------------
(***************************************************************************)
(* Composite watermarks: domain/checkpoint.py, the delta query of          *)
(* source/repository.py and pipeline/checkpoint_advance.py.                *)
(*                                                                         *)
(* A source table is a function from primary keys to the updated_at of     *)
(* their row; what else a row holds changes only together with updated_at  *)
(* and is left out.  A row and a watermark are the same pair of an         *)
(* updated_at and a primary key.                                           *)
(***************************************************************************)
EXTENDS Naturals, Sequences, FiniteSets, Functions

Stamps == [at : Nat, pk : Nat]

Row(at, pk) == [at |-> at, pk |-> pk]

(* Before the first run: earlier than every row. *)
EmptyWatermark == Row(0, 0)

(* updated_at first, primary key second. *)
Later(a, b) == a.at > b.at \/ (a.at = b.at /\ a.pk > b.pk)

Rows(table) == {Row(table[pk], pk) : pk \in DOMAIN table}

(* Mutants: rows at the watermark's updated_at are skipped, or read again. *)
MatchingAfter(table, watermark) == {row \in Rows(table) : row.at > watermark.at}
MatchingFrom(table, watermark) == {row \in Rows(table) : row.at >= watermark.at}

(* WHERE updated_at > ... OR (updated_at = ... AND pk > ...) *)
Matching(table, watermark) == {row \in Rows(table) : Later(row, watermark)}

Ascending(s) == \A i, j \in DOMAIN s : i < j => Later(s[j], s[i])

(* ORDER BY updated_at ASC, pk ASC: the one sequence of these rows in order. *)
Ordered(rows) == {s \in [1..Cardinality(rows) -> rows] : Ascending(s)}

(* Mutant: a table without changes loses its watermark. *)
AdvanceOnlyChanged(before, delta) ==
  [t \in DOMAIN before |->
     IF delta[t] = << >> THEN EmptyWatermark ELSE delta[t][Len(delta[t])]]

(* The last row of a delta is its table's next watermark. *)
AdvanceCheckpoint(before, delta) ==
  [t \in DOMAIN before |->
     IF delta[t] = << >> THEN before[t] ELSE delta[t][Len(delta[t])]]

-----------------------------------------------------------------------------
(* The one sequence of the numbers of a finite set in order.               *)
InNumberOrder(S) == {s \in [1..Cardinality(S) -> S] : \A i, j \in DOMAIN s : i < j => s[i] < s[j]}

(* What a table can become if no row goes and each that comes is later     *)
(* than all there were.                                                    *)
Successor(old, new) ==
  /\ DOMAIN old \subseteq DOMAIN new
  /\ \A row \in Rows(new) \ Rows(old), other \in Rows(old) : Later(row, other)

(* A table has a row at or after a watermark that is not empty. *)
Reached(table, watermark) ==
  watermark = EmptyWatermark \/ \E row \in Rows(table) : row = watermark \/ Later(row, watermark)
=============================================================================
