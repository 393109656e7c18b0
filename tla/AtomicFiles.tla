---------------------------- MODULE AtomicFiles ----------------------------
(***************************************************************************)
(* What the commit journal promises its readers: the output files change   *)
(* only by whole batches.  A batch names a set of files, the checkpoint    *)
(* among them, and replaces all of them in one step; the files it does not *)
(* name keep their contents.  A batch is on offer before it is committed,  *)
(* it may be withdrawn, and it is committed once.  There are no crashes,   *)
(* no run directories and no partial commits at this level.                *)
(***************************************************************************)
EXTENDS PartialFunctions

CONSTANTS Files,          \* names of the output files
          Contents,       \* what a file can hold
          CheckpointFile  \* the file whose replacement is the commit point

VARIABLES live,           \* a function from the files that exist to contents
          offer           \* the files of the batch that is on offer

(* The files that make a batch. *)
IsBatch(files) == CheckpointFile \in DOMAIN files

Init == live = << >> /\ offer = << >>

(* A batch is offered, added to or withdrawn. *)
Prepare ==
  /\ offer' \in Partial(Files, Contents)
  /\ UNCHANGED live

Commit ==
  /\ IsBatch(offer)
  /\ live' = Overlay(live, offer)
  /\ offer' = << >>

Next == Prepare \/ Commit

Spec == Init /\ [][Next]_<<live, offer>>
=============================================================================
