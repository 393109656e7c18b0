--------------------------- MODULE IngestService ---------------------------
(***************************************************************************)
(* The whole service: requests that read a changing source database and    *)
(* publish its deltas to lake, share and events files and a checkpoint,    *)
(* through the journal of CommitJournal (pipeline/orchestrator.py with     *)
(* source/, outputs/, domain/ and api/app.py).                             *)
(*                                                                         *)
(* CommitJournal gives every step that touches the state directory; this   *)
(* module says which request takes it, what the run is called and what its *)
(* files hold.                                                             *)
(***************************************************************************)
EXTENDS Watermark, PartialFunctions, SequencesExt

CONSTANTS Procs, Threads, ProcOf, Nobody, NoRun, NoPlan, \* as in CommitJournal
          TableSpecs,  \* the tables, in the order of domain/tables.py
          DayOf,       \* the UTC date of an updated_at
          MaxTime,     \* bound: the source's updated_at are 1..MaxTime
          MaxPk,       \* bound: a table's primary keys are 1..MaxPk
          Discipline   \* what the source's writers guarantee, see Allowed

Tables == Range(TableSpecs)

ASSUME ServiceAssumption ==
  /\ TableSpecs \in Seq(Tables) /\ Tables # {}
  /\ \A i, j \in DOMAIN TableSpecs : TableSpecs[i] = TableSpecs[j] => i = j
  /\ MaxTime \in Nat /\ MaxPk \in Nat
  /\ DayOf \in [1..MaxTime -> Nat]
  /\ \A s, t \in 1..MaxTime : s <= t => DayOf[s] <= DayOf[t]
  /\ Discipline \in {"strict", "keys", "clock"}

-----------------------------------------------------------------------------
(* Names: a run is named by the hash of its checkpoint and row identities, *)
(* which is taken to be injective; an output file by its path.             *)

Checkpoints == [Tables -> Stamps]
Deltas == [Tables -> Seq(Stamps)]

(* Mutant: the hash leaves the rows out. *)
RunIdOfCheckpoint(before, delta) == [before |-> before, tables |-> [t \in Tables |-> << >>]]

RunId(before, delta) == [before |-> before, tables |-> delta]
RunIds == [before : Checkpoints, tables : Deltas]

LakeFile(t, day) == <<"lake", t, day>>
ShareFile(t)     == <<"share", t>>
EventsFile(id)   == <<"events", id>>
CheckpointFile   == <<"checkpoint">>

Files == ({"lake"} \X Tables \X Nat) \cup ({"share"} \X Tables) \cup ({"events"} \X RunIds)
           \cup {CheckpointFile}

(* A lake partition is its rows, the checkpoint its watermarks.            *)
ShareContents  == [run : RunIds, after : Checkpoints, rows : Seq(Stamps)]
EventsContents == [Tables -> [rows : Nat, lake : SUBSET Files, share : BOOLEAN, after : Checkpoints]]
Contents == Seq(Stamps) \cup ShareContents \cup EventsContents \cup Checkpoints

VARIABLES live, dirs, lock, svc, pc, own, run, todo, steps, \* as in CommitJournal
          source,  \* the source database
          req      \* what each request thread has computed so far

J == INSTANCE CommitJournal

(* What CommitJournal assumes of its constants. *)
ASSUME JournalConstants == J!JournalAssumption

vars == <<live, dirs, lock, svc, pc, own, run, todo, steps, source, req>>

NewRequest == [dry |-> FALSE, before |-> << >>, snap |-> << >>, delta |-> << >>]

(* Mutant: what a request has read outlives it. *)
KeepAlways == req' = req

(* A request's memory goes when its thread returns, raises or dies. *)
KeepRequests == req' = [t \in Threads |-> IF pc'[t] = "idle" THEN NewRequest ELSE req[t]]

-----------------------------------------------------------------------------
(* The source database. *)

Newest == {row.at : row \in UNION {Rows(source[t]) : t \in Tables}}

(* What the order of the writers' updated_at is assumed to be:             *)
(*   strict: every transaction has a later updated_at than all before it;  *)
(*   keys:   every row it writes comes after all rows of its table in the  *)
(*           order of (updated_at, primary key);                           *)
(*   clock:  updated_at never goes back, and nothing is written while an   *)
(*           ingest runs (README, "Source consistency").                   *)
Allowed(at, pks) ==
  CASE Discipline = "strict" -> \A s \in Newest : at > s
    [] Discipline = "keys"   -> \A t \in Tables : \A pk \in pks[t] :
                                  \A row \in Rows(source[t]) : Later(Row(at, pk), row)
    [] Discipline = "clock"  -> lock = Nobody /\ \A s \in Newest : at >= s

(* A transaction inserts or updates rows of any tables at one updated_at;  *)
(* primary keys are handed out in order.                                   *)
Transaction(at, pks) ==
  /\ \E t \in Tables : pks[t] # {}
  /\ Allowed(at, pks)
  /\ source' = [t \in Tables |-> Overlay(source[t], [pk \in pks[t] |-> at])]
  /\ \A t \in Tables : \E n \in 0..MaxPk : DOMAIN source'[t] = 1..n
  /\ UNCHANGED <<live, dirs, lock, svc, pc, own, run, todo, steps, req>>

-----------------------------------------------------------------------------
(* A request: Orchestrator.run. *)

Boot(p) == J!Boot(p) /\ UNCHANGED <<source, req>>

Request(t, dry) ==
  /\ J!Acquire(t)
  /\ req' = [req EXCEPT ![t] = [NewRequest EXCEPT !.dry = dry]]
  /\ UNCHANGED source

InitialCheckpoint == [t \in Tables |-> EmptyWatermark]

LiveCheckpoint ==
  IF CheckpointFile \in DOMAIN live THEN live[CheckpointFile] ELSE InitialCheckpoint

(* After the sweep the request loads the checkpoint. *)
LoadCheckpoint(t) ==
  /\ pc[t] = "prepare"
  /\ req[t].before = << >>
  /\ req' = [req EXCEPT ![t].before = LiveCheckpoint]
  /\ UNCHANGED <<live, dirs, lock, svc, pc, own, run, todo, steps, source>>

(* Mutant: every query sees the newest rows (READ COMMITTED). *)
SnapshotPerQuery(t) == source

(* The tables are read one after the other in one REPEATABLE READ          *)
(* transaction, whose snapshot is taken by its first query.                *)
Snapshot(t) == IF req[t].snap = << >> THEN source ELSE req[t].snap

Fetched(t) == DOMAIN req[t].delta = Tables

FetchDelta(t) ==
  /\ pc[t] = "prepare"
  /\ req[t].before # << >>
  /\ ~Fetched(t)
  /\ LET table == TableSpecs[Cardinality(DOMAIN req[t].delta) + 1]
     IN \E rows \in Ordered(Matching(Snapshot(t)[table], req[t].before[table])) :
          req' = [req EXCEPT ![t].snap = Snapshot(t), ![t].delta = Put(@, table, rows)]
  /\ UNCHANGED <<live, dirs, lock, svc, pc, own, run, todo, steps, source>>

(* A dry run returns its manifest. *)
ReturnDry(t) ==
  /\ Fetched(t) /\ req[t].dry
  /\ J!ReturnDry(t)
  /\ KeepRequests /\ UNCHANGED source

(* The checkpoint cannot be read, the source not be queried, or the        *)
(* directory of a run that is not dry not be made: the request raises and  *)
(* has staged nothing.                                                     *)
SourceFails(t) ==
  /\ Fetched(t) => ~req[t].dry
  /\ J!ReturnDry(t)
  /\ KeepRequests /\ UNCHANGED source

-----------------------------------------------------------------------------
(* What a run stages. *)

IdOf(t) == RunId(req[t].before, req[t].delta)
After(t) == AdvanceCheckpoint(req[t].before, req[t].delta)

Partitions(table, rows) == {LakeFile(table, DayOf[row.at]) : row \in Range(rows)}

Changed(t) == {table \in Tables : req[t].delta[table] # << >>}

(* A table without rows has no lake and share files; the events file and   *)
(* the checkpoint are always written.                                      *)
Outputs(t) ==
  (UNION {Partitions(table, req[t].delta[table]) : table \in Tables})
    \cup {ShareFile(table) : table \in Changed(t)}
    \cup {EventsFile(IdOf(t)), CheckpointFile}

(* Mutant: share files are renamed before the lake's. *)
ShareFirst == [share |-> 1, lake |-> 2, events |-> 3, checkpoint |-> 4]

(* Mutant: the events are announced first. *)
EventsFirst == [events |-> 1, lake |-> 2, share |-> 3, checkpoint |-> 4]

(* The order in which they are staged, which is the order of the plan.     *)
KindOrder == [lake |-> 1, share |-> 2, events |-> 3, checkpoint |-> 4]

Position(table) == CHOOSE i \in DOMAIN TableSpecs : TableSpecs[i] = table

Precedes(f, g) ==
  \/ KindOrder[f[1]] < KindOrder[g[1]]
  \/ f[1] = g[1] /\ f[1] \in {"lake", "share"} /\ Position(f[2]) < Position(g[2])
  \/ f[1] = "lake" /\ g[1] = "lake" /\ f[2] = g[2] /\ f[3] < g[3]

(* Mutant: a partition is written without the rows it had. *)
LakeContentAlone(t, f) == Ordered({row \in Range(req[t].delta[f[2]]) : DayOf[row.at] = f[3]})

(* The live partition and the day's rows after it. *)
LakeContent(t, f) ==
  {(IF f \in DOMAIN live THEN live[f] ELSE << >>) \o rows :
     rows \in Ordered({row \in Range(req[t].delta[f[2]]) : DayOf[row.at] = f[3]})}

(* Mutant: the share file carries the checkpoint the run started from. *)
ShareContentBefore(t, f) ==
  {[run |-> IdOf(t), after |-> req[t].before, rows |-> req[t].delta[f[2]]]}

ShareContent(t, f) ==
  {[run |-> IdOf(t), after |-> After(t), rows |-> req[t].delta[f[2]]]}

(* One event per table, whether or not it changed. *)
EventsContent(t) ==
  {[table \in Tables |->
      [rows  |-> Len(req[t].delta[table]),
       lake  |-> Partitions(table, req[t].delta[table]),
       share |-> table \in Changed(t),
       after |-> After(t)]]}

(* The answer to a request: what it has read and the outputs it names. *)
Manifest(t) ==
  [run    |-> IdOf(t),
   before |-> req[t].before,
   after  |-> After(t),
   rows   |-> req[t].delta,
   lake   |-> UNION {Partitions(table, req[t].delta[table]) : table \in Tables},
   share  |-> {ShareFile(table) : table \in Changed(t)}]

(* What f may hold: one content, as Ordered has one member. *)
Content(t, f) ==
  CASE f[1] = "lake"       -> LakeContent(t, f)
    [] f[1] = "share"      -> ShareContent(t, f)
    [] f[1] = "events"     -> EventsContent(t)
    [] f[1] = "checkpoint" -> {After(t)}

(* Mutant: a dry run stages as well. *)
BeginRunAlways(t) ==
  /\ Fetched(t)
  /\ J!BeginRun(t, IdOf(t))
  /\ UNCHANGED <<source, req>>

BeginRun(t) ==
  /\ Fetched(t) /\ ~req[t].dry
  /\ J!BeginRun(t, IdOf(t))
  /\ UNCHANGED <<source, req>>

StageNext(t) ==
  /\ pc[t] = "stage"
  /\ \E f \in Outputs(t) \ Range(steps[t]) :
       /\ \A g \in Outputs(t) \ Range(steps[t]) : g = f \/ Precedes(f, g)
       /\ \E c \in Content(t, f) : J!StageFile(t, f, c)
  /\ UNCHANGED <<source, req>>

-----------------------------------------------------------------------------
Init ==
  /\ J!Init
  /\ source = [t \in Tables |-> << >>]
  /\ req = [t \in Threads |-> NewRequest]

Work(a) == J!Work(a) /\ KeepRequests /\ UNCHANGED source

Ingest(t) ==
  LoadCheckpoint(t) \/ FetchDelta(t) \/ ReturnDry(t) \/ BeginRun(t) \/ StageNext(t)

SourceChanges ==
  \E at \in 1..MaxTime, pks \in [Tables -> SUBSET (1..MaxPk)] : Transaction(at, pks)

Fault ==
  \/ J!Fault /\ KeepRequests /\ UNCHANGED source
  \/ \E t \in Threads : SourceFails(t)

Next ==
  \/ SourceChanges
  \/ \E p \in Procs : Boot(p)
  \/ \E t \in Threads, dry \in BOOLEAN : Request(t, dry)
  \/ \E t \in Threads : Ingest(t)
  \/ \E a \in J!Actors : Work(a)
  \/ Fault

Spec == Init /\ [][Next]_vars

(* The service is restarted when it is down, a real ingest is requested    *)
(* again and again, and a request that can go on does.                     *)
Fairness ==
  /\ \A p \in Procs : WF_vars(Boot(p))
  /\ SF_vars(\E t \in Threads : Request(t, FALSE))
  /\ \A t \in Threads : WF_vars(Ingest(t))
  /\ \A a \in J!Actors : WF_vars(Work(a))

FairSpec == Spec /\ Fairness

-----------------------------------------------------------------------------
(* Types. *)

(* Every variable of this module has the shape its declaration says; a     *)
(* request that stages or commits its own run has read all it needs, and   *)
(* the memory of a request ends with it.                                   *)
TypeOK ==
  /\ source \in [Tables -> Partial(1..MaxPk, 1..MaxTime)]
  /\ DOMAIN req = Threads
  /\ \A t \in Threads :
       /\ DOMAIN req[t] = {"dry", "before", "snap", "delta"}
       /\ req[t].dry \in BOOLEAN
       /\ req[t].before \in Checkpoints \cup {<< >>}
       /\ req[t].snap \in [Tables -> Partial(1..MaxPk, 1..MaxTime)] \cup {<< >>}
       /\ DOMAIN req[t].delta \subseteq Tables
       /\ req[t].delta \in [DOMAIN req[t].delta -> Seq(Stamps)]
  /\ \A t \in Threads : req[t].delta # << >> => req[t].before # << >> /\ req[t].snap # << >>
  /\ \A t \in Threads : own[t] => Fetched(t) /\ ~req[t].dry /\ run[t] = IdOf(t)
  /\ \A t \in Threads : pc[t] \in {"idle", "scan"} => [req[t] EXCEPT !.dry = FALSE] = NewRequest

-----------------------------------------------------------------------------
(* What the service promises the readers of its output files.              *)

InLake(files, t) == UNION {Range(files[f]) : f \in {g \in DOMAIN files : g[1] = "lake" /\ g[2] = t}}

(* "The single invariant this preserves: the checkpoint never advances     *)
(* ahead of durable outputs" (README): a row of the source that the live   *)
(* checkpoint has passed is in the live lake, at any moment of a run, of a *)
(* crash or of a recovery.                                                 *)
CheckpointNeverAhead ==
  \A t \in Tables : \A row \in Rows(source[t]) :
    Later(row, LiveCheckpoint[t]) \/ row \in InLake(live, t)

(* Readers of a live partition may "rely on rows being ordered by          *)
(* (updated_at, pk) within each file" (README): no row is out of order or  *)
(* there twice, whatever was replayed, and none is in another day's file.  *)
LakeOrdered ==
  \A f \in DOMAIN live : f[1] = "lake" =>
    /\ Ascending(live[f])
    /\ \A row \in Range(live[f]) : DayOf[row.at] = f[3]

(* Whoever reads a change in a share file finds it in the lake too, in the *)
(* middle of a commit as well.                                             *)
ShareRowsInLake ==
  \A f \in DOMAIN live : f[1] = "share" => Range(live[f].rows) \subseteq InLake(live, f[2])

(* "The share artifact is the latest batch" (README): once pending runs    *)
(* are replayed, a table's share file ends at the table's watermark and    *)
(* says so, and it exists if the table ever had a row.                     *)
ShareIsLatestBatch ==
  LET files == J!Committed
  IN CheckpointFile \in DOMAIN files =>
       \A t \in Tables :
         LET mark == files[CheckpointFile][t]
         IN IF ShareFile(t) \in DOMAIN files
            THEN LET share == files[ShareFile(t)]
                 IN share.after[t] = mark /\ share.rows[Len(share.rows)] = mark
            ELSE mark = EmptyWatermark

(* The events files account for the lake: the row counts they give for a   *)
(* table add up to the rows in its partitions.  No batch is counted twice, *)
(* overwritten by another one's events or published without events.        *)
EventsAccountForLake ==
  LET files == J!Committed
      Events == {f \in DOMAIN files : f[1] = "events"}
      Parts(t) == {f \in DOMAIN files : f[1] = "lake" /\ f[2] = t}
  IN \A t \in Tables :
       SumFunctionOnSet([f \in Events |-> files[f][t].rows], Events)
         = SumFunctionOnSet([f \in Parts(t) |-> Len(files[f])], Parts(t))

(* An event is no rumour: at any moment of a commit or a recovery, the     *)
(* lake files that a live events file names are there and hold the table   *)
(* up to the checkpoint it names, and so does the share file, unless a     *)
(* later batch has replaced it.                                            *)
EventsAnnounceTheLive ==
  \A f \in DOMAIN live : f[1] = "events" =>
    \A t \in Tables :
      LET event == live[f][t]
      IN /\ event.lake \subseteq DOMAIN live
         /\ event.rows > 0 => event.after[t] \in UNION {Range(live[g]) : g \in event.lake}
         /\ event.share => /\ ShareFile(t) \in DOMAIN live
                           /\ ~Later(event.after[t], live[ShareFile(t)].after[t])

(* A transaction on several tables arrives as a whole: the watermarks of   *)
(* all tables are at one point of the source's history.  (For sources that *)
(* give each transaction a later updated_at than all before it.)           *)
CheckpointIsACut ==
  \E now \in 0..MaxTime : \A t \in Tables : \A row \in Rows(source[t]) :
    row.at > now <=> Later(row, LiveCheckpoint[t])

-----------------------------------------------------------------------------
(* What no step may do. *)

(* "New rows are only ever appended after existing bytes" (README): a      *)
(* staged copy that was made from an older partition never replaces it.    *)
AppendOnlyLake ==
  [][\A f \in DOMAIN live : f[1] = "lake" =>
       /\ f \in DOMAIN live'
       /\ SubSeq(live'[f], 1, Len(live[f])) = live[f]]_vars

(* An events file never changes once it is there: a run id that comes      *)
(* again stands for the same batch ("Consumers can dedupe by run_id").     *)
EventsImmutable ==
  [][\A f \in DOMAIN live : f[1] = "events" => f \in DOMAIN live' /\ live'[f] = live[f]]_vars

(* No watermark goes back, across any crashes and replays. *)
CheckpointMonotone ==
  [][\A t \in Tables :
       LiveCheckpoint[t]' = LiveCheckpoint[t] \/ Later(LiveCheckpoint[t]', LiveCheckpoint[t])]_vars

(* Whoever gets a manifest can read what it says: when a real request      *)
(* returns, the live checkpoint is the manifest's, the files it names hold *)
(* its rows, and the events file of its run is there, although a sweep or  *)
(* a failed request may have come between the plan and the renames.        *)
ReplyIsPublished ==
  [][\A t \in Threads : own[t] /\ (J!RemoveDir(t) \/ J!CleanupMissing(t)) =>
       LET m == Manifest(t)
       IN /\ LiveCheckpoint = m.after
          /\ m.lake \cup m.share \cup {EventsFile(m.run)} \subseteq DOMAIN live
          /\ \A table \in Tables :
               /\ Range(m.rows[table]) \subseteq UNION {Range(live[f]) : f \in m.lake}
               /\ ShareFile(table) \in m.share => live[ShareFile(table)].rows = m.rows[table]]_vars

(* A dry run commits nothing: it may complete what an earlier run has      *)
(* sealed with READY, but what the outputs will then be stays the same.    *)
DryRunCommitsNothing ==
  [][(\E t \in Threads : pc[t] # "idle" /\ req[t].dry) => J!Committed' = J!Committed]_vars

(* "write nothing, do not advance the on-disk checkpoint" (api/app.py), of *)
(* dry_run=true: while it runs no output file changes.                     *)
DryRunWritesNothing ==
  [][(\E t \in Threads : pc[t] # "idle" /\ req[t].dry) => live' = live]_vars

-----------------------------------------------------------------------------
(* The service as a feed.  A table's log is its lake partitions in the     *)
(* order of their days, its batch the rows of its share file; the look at  *)
(* the source is that of the request that is about to commit.              *)

FeedLog(t) ==
  LET days == {f[3] : f \in {g \in DOMAIN J!Committed : g[1] = "lake" /\ g[2] = t}}
      inOrder == CHOOSE s \in InNumberOrder(days) : TRUE
  IN FlattenSeq([i \in DOMAIN inOrder |-> J!Committed[LakeFile(t, inOrder[i])]])

FeedMark ==
  IF CheckpointFile \in DOMAIN J!Committed THEN J!Committed[CheckpointFile] ELSE InitialCheckpoint

FeedBatch(t) ==
  IF ShareFile(t) \in DOMAIN J!Committed THEN J!Committed[ShareFile(t)].rows ELSE << >>

FeedSnap ==
  LET looking == {t \in Threads : ~req[t].dry /\ pc[t] \in {"prepare", "stage", "plan", "ready"}}
  IN IF looking = {} THEN << >> ELSE req[CHOOSE t \in looking : TRUE].snap

F == INSTANCE IncrementalFeed
       WITH snap <- FeedSnap, log <- [t \in Tables |-> FeedLog(t)], mark <- FeedMark,
            batch <- [t \in Tables |-> FeedBatch(t)]

(* Requests, retries, crashes, replays and writers that race with them     *)
(* amount to a feed: each commit gives the consumers of all tables what    *)
(* one look at the source shows after what they were given before, no row  *)
(* twice and none left out, and nothing else gives them anything.          *)
ImplementsFeed == F!Spec

-----------------------------------------------------------------------------
(* Liveness. *)

(* What the service would not have done by itself.  A dry run that returns *)
(* and a boot that raises at what it finds are no faults.                  *)
Interruption ==
  /\ Fault
  /\ ~\E a \in J!Actors : Work(a)
  /\ ~\E t \in Threads : Ingest(t)

FaultsKeepComing == []<><<Interruption>>_vars

(* A run directory is READY and has no plan.  Every removal that unlinks   *)
(* the plan first passes through such a state; a crash there makes it one  *)
(* that lasts, as every later sweep raises at it.                          *)
Wedged == \E r \in DOMAIN dirs : J!IsReady(r) /\ ~J!HasPlan(r)

(* Every change of the source reaches the lake, unless the row is changed  *)
(* again first, faults never end or the journal is wedged for good.  Dry   *)
(* runs, however many, are no excuse.                                      *)
ChangesDelivered ==
  FaultsKeepComing \/ <>[]Wedged \/
    \A t \in Tables : \A pk \in 1..MaxPk, at \in 1..MaxTime :
      Row(at, pk) \in Rows(source[t]) ~>
        (Row(at, pk) \in InLake(live, t) \/ Row(at, pk) \notin Rows(source[t]))
=============================================================================
