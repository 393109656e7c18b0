-------------------------- MODULE IncrementalFeed --------------------------
(***************************************************************************)
(* What the service promises the consumers of its data: for each table of  *)
(* a source that goes on changing, a log that grows by whole batches.  A   *)
(* batch is what one look at the source shows after the watermarks, in     *)
(* order, for all tables at once.  There are no requests, no files, no     *)
(* crashes and no retries at this level.                                   *)
(***************************************************************************)
EXTENDS Watermark, PartialFunctions

CONSTANTS Tables,   \* the source's tables
          MaxTime,  \* bound: updated_at are 1..MaxTime
          MaxPk     \* bound: primary keys are 1..MaxPk

Sources == [Tables -> Partial(1..MaxPk, 1..MaxTime)]

VARIABLES source,  \* the source database
          snap,    \* the look at it that the next batch is taken from, or << >>
          log,     \* the rows each table's consumers have been given
          mark,    \* the watermarks
          batch    \* the rows of each table's last batch

vars == <<source, snap, log, mark, batch>>

Init ==
  /\ source = [t \in Tables |-> << >>]
  /\ snap = << >>
  /\ log = [t \in Tables |-> << >>]
  /\ mark = [t \in Tables |-> EmptyWatermark]
  /\ batch = [t \in Tables |-> << >>]

(* Rows come, or come anew, after all rows of their table; none goes. *)
Write ==
  /\ source' \in Sources
  /\ \A t \in Tables :
       /\ DOMAIN source[t] \subseteq DOMAIN source'[t]
       /\ \A new \in Rows(source'[t]) \ Rows(source[t]), old \in Rows(source[t]) : Later(new, old)
  /\ UNCHANGED <<snap, log, mark, batch>>

Look ==
  /\ snap' = source
  /\ UNCHANGED <<source, log, mark, batch>>

Forget ==
  /\ snap' = << >>
  /\ UNCHANGED <<source, log, mark, batch>>

(* What each table's consumers have not been given yet, in order. *)
Deltas ==
  LET Delta(t) == Ordered(Matching(snap[t], mark[t]))
  IN {delta \in [Tables -> UNION {Delta(t) : t \in Tables}] : \A t \in Tables : delta[t] \in Delta(t)}

Deliver ==
  /\ snap # << >>
  /\ \E delta \in Deltas :
       /\ log' = [t \in Tables |-> log[t] \o delta[t]]
       /\ mark' = AdvanceCheckpoint(mark, delta)
       /\ batch' = [t \in Tables |-> IF delta[t] = << >> THEN batch[t] ELSE delta[t]]
  /\ snap' = << >>
  /\ UNCHANGED source

Next == Write \/ Look \/ Forget \/ Deliver

Spec == Init /\ [][Next]_vars

-----------------------------------------------------------------------------
(* What consumers may rely on. *)

(* A table's log is in order, has no row twice and ends at its watermark. *)
InOrder ==
  \A t \in Tables :
    /\ Ascending(log[t])
    /\ mark[t] = IF log[t] = << >> THEN EmptyWatermark ELSE log[t][Len(log[t])]

(* A row of the source is still to come, or it has been delivered. *)
NothingSkipped ==
  \A t \in Tables : \A row \in Rows(source[t]) : Later(row, mark[t]) \/ row \in Range(log[t])
=============================================================================
