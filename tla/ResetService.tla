---------------------------- MODULE ResetService ----------------------------
(***************************************************************************)
(* The service and the operator who wipes its outputs to start over:       *)
(* scripts/reset_state.sh (and make reset), "rm -rf state lake share       *)
(* events".  The arguments are removed one after the other, the entries of *)
(* each in any order, a directory's own before rm leaves it; the operator  *)
(* may interrupt the script anywhere.                                      *)
(*                                                                         *)
(* The script is used "between manual test runs": it is started while no   *)
(* request is at work, and no request is made and no process started       *)
(* before it ends.  It may find the run directory of a request that failed *)
(* or died, READY or not.  The source goes on changing, and a process that *)
(* serves may be up, or die, beside it.                                    *)
(***************************************************************************)
EXTENDS IngestService

CONSTANT MaxTorn     \* bound: so many resets are interrupted before one ends

ASSUME ResetAssumption == MaxTorn \in Nat

VARIABLES removing,  \* how many arguments of rm are done with, or NotResetting
          inside,    \* the run directory rm has begun to remove, or NoRun
          torn,      \* how many were interrupted since the last that ended
          left       \* history: the worst these have left in ./state/runs, see Remains

resetVars == <<vars, removing, inside, torn, left>>

NotResetting == 100

(* Mutants: the state goes last, or not at all. *)
ArgumentsStateLast == <<"lake", "share", "events", "state">>
ArgumentsOutputs == <<"lake", "share", "events">>

(* The arguments of rm. *)
Arguments == <<"state", "lake", "share", "events">>

(* rm is at its argument arg. *)
At(arg) == removing < Len(Arguments) /\ arg = Arguments[removing + 1]

(* The argument an output file is under.  In ./state there is the          *)
(* checkpoint, beside the run directories and the lock file, which any     *)
(* request makes anew.                                                     *)
ArgumentOf(f) == IF f[1] \in {"lake", "share", "events"} THEN f[1] ELSE "state"

BeginReset ==
  /\ removing = NotResetting
  /\ \A a \in J!Actors : pc[a] = "idle"
  /\ removing' = 0
  /\ UNCHANGED <<vars, inside, torn, left>>

RemoveFile(f) ==
  /\ At(ArgumentOf(f))
  /\ inside = NoRun
  /\ f \in DOMAIN live
  /\ live' = Drop(live, f)
  /\ UNCHANGED <<dirs, lock, svc, pc, own, run, todo, steps, source, req>>
  /\ UNCHANGED <<removing, inside, torn, left>>

(* A run directory without one of its entries. *)
Without(dir) ==
  {[dir EXCEPT !.files = Drop(@, f)] : f \in DOMAIN dir.files}
    \cup (IF dir.plan = NoPlan THEN {} ELSE {[dir EXCEPT !.plan = NoPlan]})
    \cup (IF dir.ready THEN {[dir EXCEPT !.ready = FALSE]} ELSE {})

(* Once rm is in a run directory it leaves it when that is gone. *)
RemoveEntry(r) ==
  /\ At("state")
  /\ inside \in {NoRun, r}
  /\ r \in DOMAIN dirs
  /\ inside' = r
  /\ \E dir \in Without(dirs[r]) : dirs' = Put(dirs, r, dir)
  /\ UNCHANGED <<live, lock, svc, pc, own, run, todo, steps, source, req>>
  /\ UNCHANGED <<removing, torn, left>>

RemoveRun(r) ==
  /\ At("state")
  /\ inside \in {NoRun, r}
  /\ r \in DOMAIN dirs
  /\ dirs[r] = J!NewDir
  /\ inside' = NoRun
  /\ dirs' = Drop(dirs, r)
  /\ UNCHANGED <<live, lock, svc, pc, own, run, todo, steps, source, req>>
  /\ UNCHANGED <<removing, torn, left>>

(* Mutant: what rm could not remove is passed over. *)
NextArgumentAnyway ==
  /\ removing < Len(Arguments)
  /\ removing' = removing + 1
  /\ UNCHANGED <<vars, inside, torn, left>>

NextArgument ==
  /\ removing < Len(Arguments)
  /\ \A f \in DOMAIN live : ~At(ArgumentOf(f))
  /\ At("state") => DOMAIN dirs = {}
  /\ removing' = removing + 1
  /\ UNCHANGED <<vars, inside, torn, left>>

EndReset ==
  /\ removing = Len(Arguments)
  /\ removing' = NotResetting
  /\ torn' = 0
  /\ left' = "none"
  /\ UNCHANGED <<vars, inside>>

(* What a reset that is interrupted now leaves in ./state/runs.            *)
(*   none:  nothing that is READY; the next sweep discards what there is;  *)
(*   whole: a READY run directory as it was;                               *)
(*   cut:   a READY run directory that has lost some of its entries.       *)
Remains ==
  IF \A r \in DOMAIN dirs : ~dirs[r].ready THEN "none"
  ELSE IF inside = NoRun THEN "whole" ELSE "cut"

InterruptReset ==
  /\ removing <= Len(Arguments)
  /\ removing' = NotResetting
  /\ inside' = NoRun
  /\ torn < MaxTorn
  /\ torn' = torn + 1
  /\ left' = IF left = "cut" \/ Remains = "none" THEN left ELSE Remains
  /\ UNCHANGED vars

Reset ==
  \/ \E f \in DOMAIN live : RemoveFile(f)
  \/ \E r \in DOMAIN dirs : RemoveEntry(r) \/ RemoveRun(r)
  \/ NextArgument
  \/ EndReset

(* While a reset is under way nobody begins anything. *)
Serve ==
  /\ Next
  /\ removing # NotResetting => pc' = pc
  /\ UNCHANGED <<removing, inside, torn, left>>

ResetInit ==
  Init /\ removing = NotResetting /\ inside = NoRun /\ torn = 0 /\ left = "none"

ResetNext == Serve \/ BeginReset \/ Reset \/ InterruptReset

ResetSpec == ResetInit /\ [][ResetNext]_resetVars

(* A reset that was started goes on unless it is interrupted. *)
FairResetSpec == ResetSpec /\ Fairness /\ WF_resetVars(Reset)

-----------------------------------------------------------------------------
(* The checkpoint is not ahead of the lake, in the middle of a reset and   *)
(* after one that was interrupted, whatever is pending then: ./state goes  *)
(* first.  The exception is a READY run directory that rm was interrupted  *)
(* in: a staged lake file may be gone and the staged checkpoint not, and   *)
(* the next sweep takes it for renamed.                                    *)
ResetStaysBehind == left # "cut" => CheckpointNeverAhead

(* A complete reset restores what readers rely on, whatever interrupted    *)
(* ones have left before it: once it is over, the lake is ordered and free *)
(* of duplicates again and the events account for it.                      *)
ResetRestores ==
  removing = NotResetting /\ torn = 0 => LakeOrdered /\ ShareIsLatestBatch /\ EventsAccountForLake

(* After a reset everything is delivered anew: every row of the source     *)
(* reaches the lake again, unless it is changed first, faults or resets    *)
(* never end, the journal is wedged for good, or the last reset was        *)
(* interrupted in a READY run directory and none has ended since.          *)
ResetsKeepComing == []<><<BeginReset \/ InterruptReset>>_resetVars

ChangesDeliveredAnew ==
  ResetsKeepComing \/ <>[](left = "cut") \/ ChangesDelivered
=============================================================================
