---------------------------- MODULE DurableFiles ----------------------------
(***************************************************************************)
(* AtomicFiles on a disk that can lose power.  The durable outputs lag     *)
(* behind the live ones by a batch at most: a power loss keeps the last    *)
(* batch or takes it back, and never leaves a part of it.                  *)
(***************************************************************************)
EXTENDS PartialFunctions

CONSTANTS Files, Contents, CheckpointFile \* as in AtomicFiles

VARIABLES live, offer, \* as in AtomicFiles
          stable       \* the output files a power loss leaves

A == INSTANCE AtomicFiles

Init == A!Init /\ stable = << >>

Flush == stable' = live /\ UNCHANGED <<live, offer>>

PowerLoss ==
  /\ stable' \in {stable, live}
  /\ live' = stable'
  /\ offer' \in Partial(Files, Contents)

Next ==
  \/ UNCHANGED stable /\ A!Next
  \/ Flush
  \/ PowerLoss

Spec == Init /\ [][Next]_<<live, offer, stable>>
=============================================================================
