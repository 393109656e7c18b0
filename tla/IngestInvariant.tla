-------------------------- MODULE IngestInvariant --------------------------
(***************************************************************************)
(* The inductive invariant of the service with one process: what a request *)
(* knows, what the run directory it has made holds, and how both stand to  *)
(* the live files.  A run's id names its batch, so that what a directory   *)
(* must hold can be said when the request that made it is gone.            *)
(***************************************************************************)
EXTENDS IngestService

AfterOf(r) == AdvanceCheckpoint(r.before, r.tables)

(* The rows of the batch r that belong in the lake partition f. *)
DayRows(r, f) == {row \in Range(r.tables[f[2]]) : DayOf[row.at] = f[3]}

OutputsOf(r) ==
  (UNION {Partitions(t, r.tables[t]) : t \in Tables})
    \cup {ShareFile(t) : t \in {u \in Tables : r.tables[u] # << >>}}
    \cup {EventsFile(r), CheckpointFile}

ShareOf(r, t) == [run |-> r, after |-> AfterOf(r), rows |-> r.tables[t]]

EventsOf(r) ==
  [t \in Tables |-> [rows  |-> Len(r.tables[t]),
                     lake  |-> Partitions(t, r.tables[t]),
                     share |-> r.tables[t] # << >>,
                     after |-> AfterOf(r)]]

-----------------------------------------------------------------------------
(* Requests. *)

Staging(t) == pc[t] \in {"stage", "plan", "ready"}

Writing(t) == Staging(t) \/ pc[t] = "commit"

(* A request works on a run of its own from its first staged file on, and  *)
(* what it has read of the checkpoint and the source is still so: the      *)
(* checkpoint is the live one, each delta is what its snapshot shows after *)
(* it, and the tables were read in their order.                            *)
RequestInv(t) ==
  /\ Writing(t) => own[t]
  /\ own[t] => Writing(t) \/ pc[t] \in {"execute", "replace", "clean"}
  /\ own[t] \/ pc[t] = "prepare" \/ [req[t] EXCEPT !.dry = FALSE] = NewRequest
  /\ (pc[t] = "prepare" \/ Staging(t)) /\ req[t].before # << >> => req[t].before = LiveCheckpoint
  /\ \E n \in 0..Len(TableSpecs) : DOMAIN req[t].delta = {TableSpecs[i] : i \in 1..n}
  /\ \A table \in DOMAIN req[t].delta :
       req[t].delta[table] \in Ordered(Matching(req[t].snap[table], req[t].before[table]))

-----------------------------------------------------------------------------
(* Run directories and live files. *)

(* A directory whose files are renamed one day, or were. *)
InUse(r) == r \in DOMAIN dirs /\ (dirs[r].ready \/ \E t \in Threads : own[t])

(* A run whose checkpoint is still to be renamed. *)
Pending(r) == r \in DOMAIN dirs /\ dirs[r].ready /\ CheckpointFile \in DOMAIN dirs[r].files

(* Rows of f's day. *)
OfItsDay(f, rows) ==
  /\ rows \in Seq(Stamps)
  /\ \A row \in Range(rows) : DayOf[row.at] = f[3]

(* What a live file may hold. *)
LiveFits(f) ==
  CASE f[1] = "lake"       -> OfItsDay(f, live[f])
    [] f[1] = "share"      -> live[f].run \in RunIds /\ live[f] = ShareOf(live[f].run, f[2])
    [] f[1] = "events"     -> live[f] = EventsOf(f[2])
    [] f[1] = "checkpoint" -> live[f] \in Checkpoints

(* What a run r may stage for f: a lake partition goes on from the live    *)
(* one with the batch's rows and no others.                                *)
Fits(r, f, c) ==
  CASE f[1] = "lake"       -> /\ OfItsDay(f, c)
                              /\ DayRows(r, f) \subseteq Range(c)
                              /\ f \in DOMAIN live => IsPrefix(live[f], c)
                              /\ \A row \in Range(c) \ DayRows(r, f) : f \in DOMAIN live /\ row \in Range(live[f])
    [] f[1] = "share"      -> c = ShareOf(r, f[2])
    [] f[1] = "events"     -> c = EventsOf(r)
    [] f[1] = "checkpoint" -> c = AfterOf(r)

(* f has been renamed and nobody has written over it since. *)
Published(r, f) ==
  /\ f \in DOMAIN live
  /\ CASE f[1] = "lake"       -> DayRows(r, f) \subseteq Range(live[f])
       [] f[1] = "share"      -> live[f] = ShareOf(r, f[2])
       [] f[1] = "events"     -> live[f] = EventsOf(r)
       [] f[1] = "checkpoint" -> live[f] = AfterOf(r)

InSequence(r) ==
  \A t \in Tables : Ascending(r.tables[t]) /\ \A row \in Range(r.tables[t]) : Later(row, r.before[t])

(* A batch follows the checkpoint it was read from, which is the live one  *)
(* until its own replaces it, and nothing of it is ever missing: a file is *)
(* to be staged, staged or live.                                           *)
BatchInv(r) ==
  /\ InSequence(r)
  /\ Pending(r) \/ (\E t \in Threads : Staging(t)) => r.before = LiveCheckpoint
  /\ \A f \in DOMAIN dirs[r].files : f \in OutputsOf(r) /\ Fits(r, f, dirs[r].files[f])
  /\ (dirs[r].ready \/ \E t \in Threads : own[t] /\ pc[t] # "stage") =>
       \A f \in OutputsOf(r) : f \in DOMAIN dirs[r].files \/ Published(r, f)

-----------------------------------------------------------------------------
(* The order of the renames. *)

Rank(f) == KindOrder[f[1]]

InRankOrder(s) == \A i, j \in DOMAIN s : i < j => Rank(s[i]) <= Rank(s[j])

(* Whatever is staged, planned or renamed is so in the order of its kind.  *)
OrderInv ==
  /\ \A r \in DOMAIN dirs : InUse(r) /\ dirs[r].plan # NoPlan => InRankOrder(dirs[r].plan)
  /\ \A a \in J!Actors : Staging(a) \/ pc[a] \in {"execute", "replace"} => InRankOrder(steps[a])
  /\ \A a \in J!Actors : pc[a] = "stage" =>
       \A f \in Range(steps[a]), g \in OutputsOf(run[a]) \ Range(steps[a]) : Rank(f) <= Rank(g)

(* All of this survives the loss of live files while nobody is at work. *)
FilesInv ==
  /\ \A t \in Threads : RequestInv(t)
  /\ \A f \in DOMAIN live : LiveFits(f)
  /\ \A r \in DOMAIN dirs : InUse(r) => BatchInv(r)
  /\ OrderInv

-----------------------------------------------------------------------------
(* The order of the rows in the lake, if no live file is ever lost.        *)

(* The live checkpoint has passed w, or will when a READY run is replayed. *)
Passed(t, w) ==
  \/ ~Later(w, LiveCheckpoint[t])
  \/ \E r \in DOMAIN dirs : Pending(r) /\ ~Later(w, AfterOf(r)[t])

(* Live rows are in order, and they and the batches that have been         *)
(* announced were passed.                                                  *)
LiveInOrder(f) ==
  /\ f[1] = "lake" => Ascending(live[f]) /\ \A row \in Range(live[f]) : Passed(f[2], row)
  /\ f[1] = "events" => \A t \in Tables : Passed(t, AfterOf(f[2])[t])

(* A partition that is to be renamed is in order up to its batch's end.    *)
StagedInOrder(r, f, rows) ==
  f[1] = "lake" => Ascending(rows) /\ \A row \in Range(rows) : ~Later(row, AfterOf(r)[f[2]])

LakeInv ==
  /\ \A f \in DOMAIN live : LiveInOrder(f)
  /\ \A r \in DOMAIN dirs : InUse(r) =>
       \A f \in DOMAIN dirs[r].files : StagedInOrder(r, f, dirs[r].files[f])

ServiceInv == FilesInv /\ LakeInv

-----------------------------------------------------------------------------
(* The source, if its writers come after all they find. *)

MarksReached == \A t \in Tables : Reached(source[t], LiveCheckpoint[t])

(* What a request has seen is what the source was, and it saw the rows its *)
(* checkpoint had come to.                                                 *)
LooksBack(t) ==
  req[t].snap # << >> =>
    /\ req[t].before # << >>
    /\ \A table \in Tables : /\ Successor(req[t].snap[table], source[table])
                             /\ Reached(req[t].snap[table], req[t].before[table])

(* What the source has and the batch r leaves out comes after r, or came   *)
(* before it.                                                              *)
Follows(r) ==
  \A t \in Tables :
    /\ Reached(source[t], AfterOf(r)[t])
    /\ \A row \in Rows(source[t]) :
         \/ Later(row, AfterOf(r)[t])
         \/ row \in Range(r.tables[t])
         \/ ~Later(row, r.before[t])

SourceInv ==
  /\ MarksReached
  /\ \A t \in Threads : LooksBack(t)
  /\ \A r \in DOMAIN dirs : InUse(r) => Follows(r)
  /\ CheckpointNeverAhead

-----------------------------------------------------------------------------
(* The source, if every transaction has a later updated_at than all before *)
(* it: its history up to a moment is told from what follows.               *)

(* A moment of the source's past or its newest. *)
Moment(now) == now \in 0..MaxTime /\ (now = 0 \/ \E s \in Newest : now <= s)

(* The watermarks w are where the source was at one moment. *)
Cut(w) ==
  \E now \in 0..MaxTime :
    /\ Moment(now)
    /\ \A t \in Tables : \A row \in Rows(source[t]) : row.at > now <=> Later(row, w[t])

(* A snapshot is of one moment. *)
OfAMoment(snap) ==
  \E now \in 0..MaxTime :
    /\ Moment(now)
    /\ \A t \in Tables : \A row \in Rows(source[t]) : row.at > now <=> row \notin Rows(snap[t])
    /\ \A t \in Tables : \A row \in Rows(snap[t]) : row.at <= now

CutInv ==
  /\ Cut(LiveCheckpoint)
  /\ \A t \in Threads : req[t].snap # << >> => OfAMoment(req[t].snap)
  /\ \A r \in DOMAIN dirs : InUse(r) => Cut(AfterOf(r))
=============================================================================
