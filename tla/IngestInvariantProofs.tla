----------------------- MODULE IngestInvariantProofs -----------------------
(***************************************************************************)
(* The inductive invariant of IngestService with one process.  First its   *)
(* steps as steps of the journal, so that what CommitJournalProofs shows   *)
(* of CommitJournal holds of the service's; then what a request knows,     *)
(* what each step leaves alone, and that every step keeps FilesInv.        *)
(***************************************************************************)
EXTENDS IngestInvariant, WatermarkTheorems

JP == INSTANCE CommitJournalProofs

-----------------------------------------------------------------------------
(* J and JP are two names of the same module. *)

(* What CommitJournal assumes of its constants holds of the service.       *)
LEMMA JournalAssumed == JP!JournalAssumption
BY JournalConstants DEF J!JournalAssumption, JP!JournalAssumption, J!Actors, JP!Actors

(* Its predicates on states say the same under both names.                 *)
LEMMA SameState ==
  /\ J!TypeOK <=> JP!TypeOK
  /\ J!JournalInv <=> JP!JournalInv
  /\ J!SingleInstance <=> JP!SingleInstance
<1>1. J!TypeOK <=> JP!TypeOK
  BY DEF J!TypeOK, JP!TypeOK, J!Partial, JP!Partial, J!RunDirs, JP!RunDirs, J!Labels, JP!Labels,
         J!Actors, JP!Actors
<1>2. J!LockInv <=> JP!LockInv
  BY DEF J!LockInv, JP!LockInv, J!Active, JP!Active
<1>3. ASSUME NEW a PROVE J!ActorInv(a) <=> JP!ActorInv(a)
  BY DEF J!ActorInv, JP!ActorInv, J!StageInv, JP!StageInv, J!ExecuteInv, JP!ExecuteInv,
         J!Staged, JP!Staged, J!CheckpointAtEnd, JP!CheckpointAtEnd, J!IsReady, JP!IsReady,
         J!HasPlan, JP!HasPlan, J!Range, JP!Range
<1>4. J!DirsInv <=> JP!DirsInv
  BY DEF J!DirsInv, JP!DirsInv, J!ReadyIsReplayable, JP!ReadyIsReplayable, J!Staged, JP!Staged,
         J!CheckpointAtEnd, JP!CheckpointAtEnd, J!Range, JP!Range
<1>5. J!JournalInv <=> JP!JournalInv
  BY <1>2, <1>3, <1>4 DEF J!JournalInv, JP!JournalInv, J!Actors, JP!Actors
<1> QED
  BY <1>1, <1>5 DEF J!SingleInstance, JP!SingleInstance

(* And of the next state.                                                  *)
LEMMA SameStateNext ==
  /\ J!TypeOK' <=> JP!TypeOK'
  /\ J!JournalInv' <=> JP!JournalInv'
BY SameState, PTL

(* The journal's operators are the same under both names. *)
LEMMA SameOperators ==
  /\ \A r, d : J!SetDir(r, d) <=> JP!SetDir(r, d)
  /\ \A r : J!DirOf(r) = JP!DirOf(r)
  /\ \A f, x, y : J!Put(f, x, y) = JP!Put(f, x, y)
  /\ \A f, x : J!Drop(f, x) = JP!Drop(f, x)
  /\ \A s : J!Range(s) = JP!Range(s)
  /\ \A r, f : J!IsStaged(r, f) <=> JP!IsStaged(r, f)
  /\ \A r : J!IsReady(r) <=> JP!IsReady(r)
  /\ \A r : J!HasPlan(r) <=> JP!HasPlan(r)
  /\ \A a : J!Removing(a) <=> JP!Removing(a)
BY DEF J!SetDir, JP!SetDir, J!DirOf, JP!DirOf, J!NewDir, JP!NewDir, J!Put, JP!Put, J!Drop, JP!Drop,
       J!Restrict, JP!Restrict, J!Range, JP!Range, J!IsStaged, JP!IsStaged, J!IsReady, JP!IsReady,
       J!HasPlan, JP!HasPlan, J!Removing, JP!Removing

(* A step of J is a step of JP. *)
LEMMA SameSteps == [J!Next]_(J!vars) => [JP!Next]_(JP!vars)
<1> USE DEF J!disk, JP!disk, J!memory, JP!memory, J!Goto, JP!Goto
<1>1. ASSUME NEW p PROVE J!Boot(p) => JP!Boot(p)
  BY DEF J!Boot, JP!Boot
<1>2. ASSUME NEW t PROVE J!Acquire(t) => JP!Acquire(t)
  BY DEF J!Acquire, JP!Acquire
<1>3. ASSUME NEW a, NEW status PROVE J!Leave(a, status) <=> JP!Leave(a, status)
  BY DEF J!Leave, JP!Leave
<1>4. ASSUME NEW a PROVE J!Sweep(a) => JP!Sweep(a)
  <2>1. J!Scan(a) => JP!Scan(a)
    BY DEF J!Scan, JP!Scan
  <2>2. \A r : J!ResumeReady(a, r) => JP!ResumeReady(a, r)
    BY DEF J!ResumeReady, JP!ResumeReady, J!IsReady, JP!IsReady, J!HasPlan, JP!HasPlan
  <2>3. \A r : J!ResumeDiscard(a, r) => JP!ResumeDiscard(a, r)
    BY DEF J!ResumeDiscard, JP!ResumeDiscard, J!IsReady, JP!IsReady
  <2>4. J!ResumeDone(a) => JP!ResumeDone(a)
    BY <1>3 DEF J!ResumeDone, JP!ResumeDone
  <2> QED
    BY <2>1, <2>2, <2>3, <2>4 DEF J!Sweep, JP!Sweep
<1>6. ASSUME NEW a PROVE J!Stage(a) => JP!Stage(a)
  <2>1. J!ReturnDry(a) => JP!ReturnDry(a)
    BY <1>3 DEF J!ReturnDry, JP!ReturnDry
  <2>2. \A r : J!BeginRun(a, r) => JP!BeginRun(a, r)
    BY SameOperators DEF J!BeginRun, JP!BeginRun
  <2>3. \A f, c : J!StageFile(a, f, c) => JP!StageFile(a, f, c)
    BY SameOperators DEF J!StageFile, JP!StageFile
  <2> QED
    BY <2>1, <2>2, <2>3 DEF J!Stage, JP!Stage
<1>7. ASSUME NEW a PROVE J!Execute(a) => JP!Execute(a)
  <2>1. J!WritePlan(a) => JP!WritePlan(a)
    BY SameOperators DEF J!WritePlan, JP!WritePlan
  <2>2. J!MarkReady(a) => JP!MarkReady(a)
    BY SameOperators DEF J!MarkReady, JP!MarkReady
  <2>3. J!Commit(a) => JP!Commit(a)
    BY SameOperators DEF J!Commit, JP!Commit
  <2>4. J!CheckStaged(a) => JP!CheckStaged(a)
    BY SameOperators DEF J!CheckStaged, JP!CheckStaged
  <2>5. J!SkipStep(a) => JP!SkipStep(a)
    BY SameOperators DEF J!SkipStep, JP!SkipStep
  <2>6. J!Replace(a) => JP!Replace(a)
    BY SameOperators DEF J!Replace, JP!Replace
  <2>7. J!ExecuteDone(a) => JP!ExecuteDone(a)
    BY DEF J!ExecuteDone, JP!ExecuteDone
  <2> QED
    BY <2>1, <2>2, <2>3, <2>4, <2>5, <2>6, <2>7 DEF J!Execute, JP!Execute
<1>8. ASSUME NEW a PROVE J!Remove(a) => JP!Remove(a)
  <2>1. J!Removed(a) <=> JP!Removed(a)
    BY <1>3 DEF J!Removed, JP!Removed
  <2>2. \A f : J!RemoveStaged(a, f) => JP!RemoveStaged(a, f)
    BY SameOperators DEF J!RemoveStaged, JP!RemoveStaged
  <2>3. J!RemovePlan(a) => JP!RemovePlan(a)
    BY SameOperators DEF J!RemovePlan, JP!RemovePlan
  <2>4. J!RemoveReady(a) => JP!RemoveReady(a)
    BY SameOperators DEF J!RemoveReady, JP!RemoveReady
  <2>5. J!RemoveDir(a) => JP!RemoveDir(a)
    BY SameOperators, <2>1 DEF J!RemoveDir, JP!RemoveDir, J!NewDir, JP!NewDir
  <2>6. J!CleanupMissing(a) => JP!CleanupMissing(a)
    BY <2>1 DEF J!CleanupMissing, JP!CleanupMissing
  <2> QED
    BY SameOperators, <2>2, <2>3, <2>4, <2>5, <2>6 DEF J!Remove, JP!Remove
<1>9. ASSUME NEW a PROVE (J!Raise(a) => JP!Raise(a)) /\ (J!OSError(a) => JP!OSError(a))
  <2>1. J!Stuck(a) <=> JP!Stuck(a)
    BY SameOperators DEF J!Stuck, JP!Stuck
  <2> QED
    BY <1>3, <2>1 DEF J!Raise, JP!Raise, J!OSError, JP!OSError
<1>10. ASSUME NEW p PROVE J!Crash(p) => JP!Crash(p)
  BY DEF J!Crash, JP!Crash, J!Killed, JP!Killed, J!Actors, JP!Actors
<1>11. J!Next => JP!Next
  BY <1>1, <1>2, <1>4, <1>6, <1>7, <1>8, <1>9, <1>10
     DEF J!Next, JP!Next, J!Work, JP!Work, J!Fault, JP!Fault, J!Actors, JP!Actors
<1> QED
  BY <1>11 DEF J!vars, JP!vars

(* The journal's own steps keep its invariant. *)
LEMMA JournalStep ==
  ASSUME J!SingleInstance, J!TypeOK, J!JournalInv, [J!Next]_(J!vars)
  PROVE  J!TypeOK' /\ J!JournalInv'
<1>1. JP!TypeOK /\ JP!JournalInv /\ JP!SingleInstance /\ [JP!Next]_(JP!vars)
  BY SameState, SameSteps
<1>2. JP!TypeOK' /\ JP!JournalInv'
  BY <1>1, JournalAssumed, JP!TypeStep, JP!InvStep
<1> QED
  BY <1>2, SameStateNext

(* Only writing READY changes what the journal's outputs will be: they are *)
(* then what is live with the files of the run over it.                    *)
LEMMA JournalCommits ==
  ASSUME J!SingleInstance, J!TypeOK, J!JournalInv, [J!Next]_(J!vars)
  PROVE  \/ J!Committed' = J!Committed
         \/ \E a \in J!Actors : /\ J!MarkReady(a)
                                /\ J!Committed = live
                                /\ J!Committed' = Overlay(live, dirs[run[a]].files)
<1>1. JP!TypeOK /\ JP!JournalInv /\ JP!SingleInstance /\ [JP!Next]_(JP!vars)
  BY SameState, SameSteps
<1>2. JP!Committed' = JP!Committed \/ \E a \in JP!Actors : JP!MarkReady(a)
  BY <1>1, JournalAssumed, JP!CommittedStep
<1>3. J!Committed = JP!Committed /\ J!Committed' = JP!Committed'
  BY DEF J!Committed, JP!Committed, J!Replayed, JP!Replayed
<1>4. ASSUME NEW a \in JP!Actors, JP!MarkReady(a)
      PROVE  /\ a \in J!Actors /\ J!MarkReady(a)
             /\ JP!Committed = live /\ JP!Committed' = Overlay(live, dirs[run[a]].files)
  <2>1. a \in J!Actors /\ J!MarkReady(a)
    BY <1>4, SameOperators DEF J!MarkReady, JP!MarkReady, J!Goto, JP!Goto, J!memory, JP!memory,
                               J!Actors, JP!Actors
  <2>2. JP!Committed = live /\ JP!Committed' = JP!Overlay(live, dirs[run[a]].files)
    BY <1>1, <1>4, JournalAssumed, JP!MarkReadySeals
  <2> QED
    BY <2>1, <2>2 DEF JP!Overlay, Overlay
<1> QED
  BY <1>2, <1>3, <1>4

-----------------------------------------------------------------------------
(* Output files. *)

(* Every output file is named. *)
LEMMA FileNames ==
  /\ CheckpointFile \in Files
  /\ \A t \in Tables, day \in Nat : LakeFile(t, day) \in Files
  /\ \A t \in Tables : ShareFile(t) \in Files
  /\ \A id \in RunIds : EventsFile(id) \in Files
BY DEF Files, LakeFile, ShareFile, EventsFile

(* A name says what kind of file it is of, and of what. *)
LEMMA NameParts ==
  /\ \A t, day : LakeFile(t, day)[1] = "lake" /\ LakeFile(t, day)[2] = t /\ LakeFile(t, day)[3] = day
  /\ \A t : ShareFile(t)[1] = "share" /\ ShareFile(t)[2] = t
  /\ \A id : EventsFile(id)[1] = "events" /\ EventsFile(id)[2] = id
  /\ CheckpointFile[1] = "checkpoint"
BY DEF LakeFile, ShareFile, EventsFile, CheckpointFile

(* An output file is a lake, share or events file or the checkpoint.       *)
LEMMA FileKinds ==
  ASSUME NEW f \in Files
  PROVE  \/ f[1] = "lake" /\ f[2] \in Tables /\ f[3] \in Nat /\ f = LakeFile(f[2], f[3])
         \/ f[1] = "share" /\ f[2] \in Tables /\ f = ShareFile(f[2])
         \/ f[1] = "events" /\ f[2] \in RunIds /\ f = EventsFile(f[2])
         \/ f[1] = "checkpoint" /\ f = CheckpointFile
BY DEF Files, LakeFile, ShareFile, EventsFile, CheckpointFile

-----------------------------------------------------------------------------
(* Batches. *)

(* A run's name has a checkpoint and a delta for each table.               *)
LEMMA RunIdParts ==
  ASSUME NEW r \in RunIds
  PROVE  /\ r.before \in Checkpoints /\ r.tables \in Deltas
         /\ AfterOf(r) \in Checkpoints
         /\ \A t \in Tables :
              AfterOf(r)[t] = IF r.tables[t] = << >> THEN r.before[t] ELSE r.tables[t][Len(r.tables[t])]
         /\ \A t \in Tables : r.before[t] \in Stamps /\ r.tables[t] \in Seq(Stamps) /\ AfterOf(r)[t] \in Stamps
<1>1. r.before \in Checkpoints /\ r.tables \in Deltas
  BY DEF RunIds
<1>2. \A t \in Tables : r.before[t] \in Stamps /\ r.tables[t] \in Seq(Stamps)
  BY <1>1 DEF Checkpoints, Deltas
<1>3. \A t \in Tables : r.tables[t] # << >> => r.tables[t][Len(r.tables[t])] \in Stamps
  BY <1>2
<1>4. AfterOf(r) = [t \in Tables |-> IF r.tables[t] = << >> THEN r.before[t] ELSE r.tables[t][Len(r.tables[t])]]
  BY <1>1 DEF AfterOf, AdvanceCheckpoint, Checkpoints
<1>5. AfterOf(r) \in Checkpoints
  BY <1>2, <1>3, <1>4 DEF Checkpoints
<1> QED
  BY <1>1, <1>2, <1>4, <1>5 DEF Checkpoints

(* The checkpoint after a batch is not before the one it follows, nor      *)
(* before any of its rows.                                                 *)
LEMMA AfterIsLatest ==
  ASSUME NEW r \in RunIds, InSequence(r), NEW t \in Tables
  PROVE  /\ \A row \in Range(r.tables[t]) : row \in Stamps /\ ~Later(row, AfterOf(r)[t])
         /\ r.tables[t] # << >> => AfterOf(r)[t] \in Range(r.tables[t]) /\ Later(AfterOf(r)[t], r.before[t])
         /\ ~Later(r.before[t], AfterOf(r)[t])
<1>1. /\ r.before[t] \in Stamps /\ r.tables[t] \in Seq(Stamps) /\ AfterOf(r)[t] \in Stamps
      /\ AfterOf(r)[t] = IF r.tables[t] = << >> THEN r.before[t] ELSE r.tables[t][Len(r.tables[t])]
  BY RunIdParts
<1>2. Ascending(r.tables[t]) /\ \A row \in Range(r.tables[t]) : Later(row, r.before[t])
  BY DEF InSequence
<1>3. \A row \in Range(r.tables[t]) : row \in Stamps
  BY <1>1 DEF Range
<1>4. CASE r.tables[t] = << >>
  <2>1. Range(r.tables[t]) = {}
    BY <1>4 DEF Range
  <2>2. AfterOf(r)[t] = r.before[t]
    BY <1>1, <1>4
  <2> QED
    BY <1>1, <1>4, <2>1, <2>2, LaterIsAnOrder
<1>5. CASE r.tables[t] # << >>
  <2>1. AfterOf(r)[t] = r.tables[t][Len(r.tables[t])]
    BY <1>1, <1>5
  <2>2. /\ AfterOf(r)[t] \in Range(r.tables[t])
        /\ \A row \in Range(r.tables[t]) : ~Later(row, AfterOf(r)[t])
    BY <1>1, <1>2, <1>5, <2>1, LastIsLatest
  <2>3. Later(AfterOf(r)[t], r.before[t])
    BY <1>2, <2>2
  <2>4. ~Later(r.before[t], AfterOf(r)[t])
    BY <1>1, <2>3, LaterIsAnOrder
  <2> QED
    BY <1>3, <2>2, <2>3, <2>4
<1> QED
  BY <1>4, <1>5

(* What a request that has read every table knows.                         *)
LEMMA RequestKnows ==
  ASSUME TypeOK, NEW t \in Threads, RequestInv(t), Fetched(t)
  PROVE  /\ IdOf(t) \in RunIds /\ IdOf(t).before = req[t].before /\ IdOf(t).tables = req[t].delta
         /\ req[t].before \in Checkpoints
         /\ InSequence(IdOf(t))
         /\ \A table \in Tables : \A row \in Range(req[t].delta[table]) : row.at \in 1..MaxTime
         /\ After(t) = AfterOf(IdOf(t))
         /\ Outputs(t) = OutputsOf(IdOf(t))
         /\ Outputs(t) \subseteq Files
         /\ EventsContent(t) = {EventsOf(IdOf(t))}
         /\ \A f : ShareContent(t, f) = {ShareOf(IdOf(t), f[2])}
<1>1. /\ IdOf(t) = [before |-> req[t].before, tables |-> req[t].delta]
      /\ IdOf(t).before = req[t].before /\ IdOf(t).tables = req[t].delta
  BY DEF IdOf, RunId
<1>2. req[t].delta # << >>
  BY ServiceAssumption DEF Fetched
<1>3. /\ req[t].before \in Checkpoints
      /\ req[t].snap \in [Tables -> Partial(1..MaxPk, 1..MaxTime)]
      /\ req[t].delta \in Deltas
  BY <1>2 DEF TypeOK, Fetched, Deltas
<1>4. ASSUME NEW table \in Tables
      PROVE  /\ Ascending(req[t].delta[table])
             /\ \A row \in Range(req[t].delta[table]) :
                  row.at \in 1..MaxTime /\ Later(row, req[t].before[table])
  <2>1. /\ req[t].before[table] \in Stamps
        /\ req[t].snap[table] \in Partial(1..MaxPk, 1..MaxTime)
        /\ req[t].delta[table] \in Ordered(Matching(req[t].snap[table], req[t].before[table]))
    BY <1>3 DEF Checkpoints, RequestInv, Fetched
  <2>2. MaxTime \in Nat /\ MaxPk \in Nat
    BY ServiceAssumption
  <2> QED
    BY <2>1, <2>2, DeltaIsMatching
<1>5. IdOf(t) \in RunIds
  BY <1>1, <1>3 DEF RunIds
<1>6. InSequence(IdOf(t))
  BY <1>1, <1>4 DEF InSequence
<1>7. After(t) = AfterOf(IdOf(t))
  BY <1>1 DEF After, AfterOf
<1>8. Outputs(t) = OutputsOf(IdOf(t))
  BY <1>1 DEF Outputs, OutputsOf, Changed
<1>9. Outputs(t) \subseteq Files
  <2>1. ASSUME NEW table \in Tables, NEW row \in Range(req[t].delta[table])
        PROVE  LakeFile(table, DayOf[row.at]) \in Files
    BY <1>4, <2>1, ServiceAssumption, FileNames
  <2> QED
    BY <1>5, <2>1, FileNames DEF Outputs, Partitions, Changed
<1>10. EventsContent(t) = {EventsOf(IdOf(t))}
  BY <1>1, <1>7 DEF EventsContent, EventsOf, Changed
<1>11. \A f : ShareContent(t, f) = {ShareOf(IdOf(t), f[2])}
  BY <1>1, <1>7 DEF ShareContent, ShareOf
<1> QED
  BY <1>1, <1>3, <1>4, <1>5, <1>6, <1>7, <1>8, <1>9, <1>10, <1>11

-----------------------------------------------------------------------------
(* Staging. *)

Inv == J!TypeOK /\ J!JournalInv /\ TypeOK /\ FilesInv

(* The run directory of a request that stages is the only one, and no run  *)
(* waits for its replay.                                                   *)
LEMMA StagingAlone ==
  ASSUME Inv, NEW t \in Threads, Staging(t)
  PROVE  /\ own[t] /\ Fetched(t) /\ ~req[t].dry /\ run[t] = IdOf(t) /\ run[t] \in RunIds
         /\ DOMAIN dirs = {run[t]} /\ ~dirs[run[t]].ready
         /\ DOMAIN dirs[run[t]].files = Range(steps[t])
         /\ steps[t] \in Seq(Files)
         /\ InUse(run[t]) /\ BatchInv(run[t])
         /\ run[t].before = LiveCheckpoint
         /\ \A r : ~Pending(r)
<1>1. RequestInv(t) /\ t \in J!Actors
  BY DEF Inv, FilesInv, J!Actors
<1>2. own[t] /\ Fetched(t) /\ ~req[t].dry /\ run[t] = IdOf(t)
  BY <1>1 DEF RequestInv, Writing, Inv, TypeOK
<1>3. J!StageInv(t)
  BY <1>1 DEF Inv, J!JournalInv, J!ActorInv, Staging
<1>4. /\ DOMAIN dirs = {run[t]} /\ ~dirs[run[t]].ready
      /\ DOMAIN dirs[run[t]].files = Range(steps[t])
  BY <1>3 DEF J!StageInv, J!Staged, J!Range, Range
<1>5. run[t] \in RunIds /\ steps[t] \in Seq(Files)
  BY <1>1, <1>2 DEF Inv, J!TypeOK, Staging
<1>6. InUse(run[t]) /\ BatchInv(run[t])
  BY <1>2, <1>4 DEF InUse, Inv, FilesInv
<1>7. run[t].before = LiveCheckpoint
  BY <1>6 DEF BatchInv
<1>8. \A r : ~Pending(r)
  BY <1>4 DEF Pending
<1> QED
  BY <1>2, <1>4, <1>5, <1>6, <1>7, <1>8

(* What a partition holds, if it is there. *)
LiveRows(f) == IF f \in DOMAIN live THEN live[f] ELSE << >>

(* What is staged for a partition is what it holds and the day's rows of   *)
(* the batch, in order.                                                    *)
LEMMA LakeContentParts ==
  ASSUME Inv, NEW t \in Threads, Staging(t), NEW f \in Outputs(t), f[1] = "lake",
         NEW c \in LakeContent(t, f)
  PROVE  /\ f \in Files /\ f[2] \in Tables
         /\ OfItsDay(f, LiveRows(f))
         /\ \E rows \in Seq(Stamps) :
              c = LiveRows(f) \o rows /\ Ascending(rows) /\ Range(rows) = DayRows(run[t], f)
         /\ \A row \in DayRows(run[t], f) :
              /\ row \in Stamps /\ DayOf[row.at] = f[3]
              /\ Later(row, run[t].before[f[2]]) /\ ~Later(row, AfterOf(run[t])[f[2]])
<1> DEFINE r    == run[t]
           day  == {row \in Range(req[t].delta[f[2]]) : DayOf[row.at] = f[3]}
           w    == r.before[f[2]]
<1>1. /\ own[t] /\ Fetched(t) /\ r = IdOf(t) /\ r \in RunIds /\ r.before = LiveCheckpoint
      /\ \A s : ~Pending(s)
  BY StagingAlone
<1>2. RequestInv(t) /\ TypeOK
  BY DEF Inv, FilesInv
<1>3. /\ r.tables = req[t].delta /\ InSequence(r) /\ Outputs(t) \subseteq Files
  BY <1>1, <1>2, RequestKnows
<1>4. f \in Files /\ f[2] \in Tables /\ w \in Stamps /\ AfterOf(r)[f[2]] \in Stamps /\ r.tables[f[2]] \in Seq(Stamps)
  BY <1>1, <1>3, FileKinds, RunIdParts
<1>5. PICK rows \in Ordered(day) : c = LiveRows(f) \o rows
  BY DEF LakeContent, LiveRows
<1>6. day = DayRows(r, f)
  BY <1>3 DEF DayRows
<1>7. day \in SUBSET Stamps /\ IsFiniteSet(day)
  <2>1. day \in SUBSET Stamps
    BY <1>3, <1>4 DEF Range
  <2>2. IsFiniteSet(Range(r.tables[f[2]]))
    <3>1. req[t].delta # << >>
      BY <1>1, <1>4 DEF Fetched
    <3>2. /\ req[t].before[f[2]] \in Stamps
          /\ req[t].snap[f[2]] \in Partial(1..MaxPk, 1..MaxTime)
          /\ req[t].delta[f[2]] \in Ordered(Matching(req[t].snap[f[2]], req[t].before[f[2]]))
      BY <1>1, <1>2, <1>4, <3>1 DEF TypeOK, RequestInv, Fetched, Checkpoints
    <3>3. MaxTime \in Nat /\ MaxPk \in Nat
      BY ServiceAssumption
    <3>4. Range(req[t].delta[f[2]]) = Matching(req[t].snap[f[2]], req[t].before[f[2]])
      BY <3>2, <3>3, DeltaIsMatching
    <3>5. IsFiniteSet(Rows(req[t].snap[f[2]]))
      BY <3>2, <3>3, RowsAreFinite
    <3>6. Matching(req[t].snap[f[2]], req[t].before[f[2]]) \subseteq Rows(req[t].snap[f[2]])
      BY DEF Matching
    <3> QED
      BY <1>3, <3>4, <3>5, <3>6, FS_Subset
  <2>3. day \subseteq Range(r.tables[f[2]])
    BY <1>3
  <2> QED
    BY <2>1, <2>2, <2>3, FS_Subset
<1>8. rows \in Seq(Stamps) /\ Ascending(rows) /\ Range(rows) = day
  <2>1. rows \in Seq(day) /\ Ascending(rows) /\ Range(rows) = day
    BY <1>7, OrderedHasAll
  <2> QED
    BY <1>7, <2>1
<1>9. OfItsDay(f, LiveRows(f))
  <2>1. CASE f \in DOMAIN live
    BY <2>1 DEF Inv, FilesInv, LiveFits, LiveRows
  <2>2. CASE f \notin DOMAIN live
    BY <2>2 DEF OfItsDay, Range, LiveRows
  <2> QED
    BY <2>1, <2>2
<1>10. \A row \in day : Later(row, w) /\ ~Later(row, AfterOf(r)[f[2]]) /\ DayOf[row.at] = f[3]
  BY <1>1, <1>3, <1>4, AfterIsLatest DEF InSequence
<1> QED
  BY <1>4, <1>5, <1>6, <1>7, <1>8, <1>9, <1>10

(* A live lake partition and the day's rows make one that fits.            *)
LEMMA LakeContentFits ==
  ASSUME Inv, NEW t \in Threads, Staging(t), NEW f \in Outputs(t), f[1] = "lake",
         NEW c \in LakeContent(t, f)
  PROVE  Fits(run[t], f, c) /\ c \in Contents
<1>1. PICK old : old = LiveRows(f)
  OBVIOUS
<1>2. PICK rows \in Seq(Stamps) : c = old \o rows /\ Range(rows) = DayRows(run[t], f)
  BY <1>1, LakeContentParts
<1>3. OfItsDay(f, old) /\ old \in Seq(Stamps) /\ \A row \in DayRows(run[t], f) : DayOf[row.at] = f[3]
  BY <1>1, LakeContentParts DEF OfItsDay
<1>4. /\ c \in Seq(Stamps) /\ Range(c) = Range(old) \cup DayRows(run[t], f)
      /\ Len(old) <= Len(c) /\ SubSeq(old, 1, Len(old)) = SubSeq(c, 1, Len(old))
  BY <1>2, <1>3, JoiningRows
<1>5. OfItsDay(f, c)
  BY <1>3, <1>4 DEF OfItsDay
<1>6. f \in DOMAIN live => IsPrefix(live[f], c)
  BY <1>1, <1>4 DEF IsPrefix, LiveRows
<1>7. \A row \in Range(old) : f \in DOMAIN live /\ row \in Range(live[f])
  BY <1>1 DEF LiveRows, Range
<1>8. Fits(run[t], f, c)
  BY <1>4, <1>5, <1>6, <1>7 DEF Fits
<1> QED
  BY <1>4, <1>8 DEF Contents

(* What a request stages next is one of its run's outputs and fits.        *)
LEMMA StagingNext ==
  ASSUME Inv, NEW t \in Threads, StageNext(t)
  PROVE  \E f \in OutputsOf(run[t]) \ Range(steps[t]), c \in Contents :
           /\ f \in Files
           /\ \A g \in OutputsOf(run[t]) \ Range(steps[t]) : g = f \/ Precedes(f, g)
           /\ f \in Outputs(t) /\ c \in Content(t, f)
           /\ Fits(run[t], f, c)
           /\ J!StageFile(t, f, c)
<1>1. Staging(t)
  BY DEF StageNext, Staging
<1>2. /\ own[t] /\ Fetched(t) /\ run[t] = IdOf(t) /\ run[t] \in RunIds
      /\ RequestInv(t) /\ TypeOK
  BY <1>1, StagingAlone DEF Inv, FilesInv
<1>3. /\ Outputs(t) = OutputsOf(run[t]) /\ Outputs(t) \subseteq Files
      /\ After(t) = AfterOf(run[t])
      /\ EventsContent(t) = {EventsOf(run[t])}
      /\ \A f : ShareContent(t, f) = {ShareOf(run[t], f[2])}
      /\ run[t].tables = req[t].delta
      /\ \A table \in Tables : \A row \in Range(req[t].delta[table]) : row.at \in 1..MaxTime
  BY <1>2, RequestKnows
<1>4. PICK f \in Outputs(t) \ Range(steps[t]) :
        /\ \A g \in Outputs(t) \ Range(steps[t]) : g = f \/ Precedes(f, g)
        /\ \E c \in Content(t, f) : J!StageFile(t, f, c)
  BY DEF StageNext
<1>5. PICK c \in Content(t, f) : J!StageFile(t, f, c)
  BY <1>4
<1>6. f \in Files
  BY <1>3
<1>7. Fits(run[t], f, c) /\ c \in Contents
  <2>1. CASE f[1] = "lake"
    <3>1. c \in LakeContent(t, f)
      BY <2>1 DEF Content
    <3> QED
      BY <1>1, <2>1, <3>1, LakeContentFits
  <2>2. CASE f[1] = "share"
    <3>1. c = ShareOf(run[t], f[2])
      BY <1>3, <2>2 DEF Content
    <3>2. f[2] \in Tables
      BY <1>6, <2>2, FileKinds
    <3>3. c \in ShareContents
      BY <1>2, <3>1, <3>2, RunIdParts DEF ShareOf, ShareContents
    <3> QED
      BY <2>2, <3>1, <3>3 DEF Fits, Contents
  <2>3. CASE f[1] = "events"
    <3>1. c = EventsOf(run[t])
      BY <1>3, <2>3 DEF Content
    <3>2. c \in EventsContents
      <4> SUFFICES ASSUME NEW table \in Tables
                   PROVE  /\ Len(run[t].tables[table]) \in Nat
                          /\ Partitions(table, run[t].tables[table]) \in SUBSET Files
                          /\ AfterOf(run[t]) \in Checkpoints
        BY <3>1 DEF EventsOf, EventsContents
      <4>1. run[t].tables[table] \in Seq(Stamps) /\ AfterOf(run[t]) \in Checkpoints
        BY <1>2, RunIdParts
      <4>2. \A row \in Range(run[t].tables[table]) : LakeFile(table, DayOf[row.at]) \in Files
        BY <1>3, ServiceAssumption, FileNames
      <4> QED
        BY <4>1, <4>2 DEF Partitions
    <3> QED
      BY <2>3, <3>1, <3>2 DEF Fits, Contents
  <2>4. CASE f[1] = "checkpoint"
    <3>1. c = AfterOf(run[t])
      BY <1>3, <2>4 DEF Content
    <3> QED
      BY <1>2, <2>4, <3>1, RunIdParts DEF Fits, Contents
  <2> QED
    BY <1>6, <2>1, <2>2, <2>3, <2>4, FileKinds
<1> QED
  BY <1>3, <1>4, <1>5, <1>6, <1>7

(* The service's steps are steps of the journal: it stages what the files  *)
(* can hold under names of files and runs.                                 *)
LEMMA ServiceIsJournal ==
  ASSUME Inv, [Next]_vars
  PROVE  [J!Next]_(J!vars)
<1>1. CASE SourceChanges
  BY <1>1 DEF SourceChanges, Transaction, J!vars
<1>2. CASE \E p \in Procs : Boot(p)
  BY <1>2 DEF Boot, J!Next
<1>3. CASE \E t \in Threads, dry \in BOOLEAN : Request(t, dry)
  BY <1>3 DEF Request, J!Next
<1>4. ASSUME NEW t \in Threads, Ingest(t)
      PROVE  [J!Next]_(J!vars)
  <2>1. t \in J!Actors
    BY DEF J!Actors
  <2>2. CASE LoadCheckpoint(t) \/ FetchDelta(t)
    BY <2>2 DEF LoadCheckpoint, FetchDelta, J!vars
  <2>3. CASE ReturnDry(t)
    BY <2>1, <2>3 DEF ReturnDry, J!Next, J!Stage
  <2>4. CASE BeginRun(t)
    <3>1. IdOf(t) \in RunIds
      BY <2>4, RequestKnows DEF BeginRun, Inv, FilesInv
    <3> QED
      BY <2>1, <2>4, <3>1 DEF BeginRun, J!Next, J!Stage
  <2>5. CASE StageNext(t)
    <3>1. \E f \in Files, c \in Contents : J!StageFile(t, f, c)
      BY <2>5, StagingNext
    <3> QED
      BY <2>1, <3>1 DEF J!Next, J!Stage
  <2> QED
    BY <1>4, <2>2, <2>3, <2>4, <2>5 DEF Ingest
<1>5. CASE \E a \in J!Actors : Work(a)
  BY <1>5 DEF Work, J!Next
<1>6. CASE Fault
  BY <1>6 DEF Fault, SourceFails, J!Next, J!Stage, J!Actors
<1>7. CASE UNCHANGED vars
  BY <1>7 DEF vars, J!vars
<1> QED
  BY <1>1, <1>2, <1>3, <1>4, <1>5, <1>6, <1>7 DEF Next

(* The journal's invariant holds of the service.                           *)
LEMMA JournalOfService ==
  ASSUME J!SingleInstance, Inv, [Next]_vars
  PROVE  J!TypeOK' /\ J!JournalInv'
<1>1. [J!Next]_(J!vars)
  BY ServiceIsJournal
<1>2. J!TypeOK /\ J!JournalInv
  BY DEF Inv
<1> QED
  BY <1>1, <1>2, JournalStep

-----------------------------------------------------------------------------
(* What the journal's steps leave alone. *)

(* With one process there is one actor at work. *)
LEMMA OneAtWork ==
  ASSUME J!SingleInstance, Inv, NEW a \in J!Actors, pc[a] # "idle", NEW b \in J!Actors, b # a
  PROVE  pc[b] = "idle" /\ (b \in Threads => ~own[b])
<1>1. \A t \in Threads : ProcOf[t] \in Procs
  BY JournalConstants DEF J!JournalAssumption
<1>2. pc[b] = "idle"
  BY <1>1 DEF Inv, J!SingleInstance, J!JournalInv, J!LockInv, J!Active, J!Actors
<1>3. b \in Threads => RequestInv(b)
  BY DEF Inv, FilesInv
<1> QED
  BY <1>2, <1>3 DEF RequestInv, Writing, Staging

Sealed(r) == dirs[r].ready \/ \E t \in Threads : own[t] /\ pc[t] # "stage"

SomeoneStages == \E t \in Threads : Staging(t)

(* A step after which all that directories in use have to satisfy is what  *)
(* they had to satisfy before.                                             *)
Quiet ==
  /\ live' = live
  /\ \A r \in DOMAIN dirs' : InUse(r)' =>
       /\ r \in DOMAIN dirs /\ InUse(r)
       /\ dirs'[r].files = dirs[r].files
       /\ Sealed(r)' => Sealed(r)
       /\ Pending(r)' => Pending(r) \/ SomeoneStages
  /\ SomeoneStages' => SomeoneStages
  /\ \A r \in DOMAIN dirs : Pending(r) => Pending(r)'

(* What a step may do to a thread's request that goes on. *)
GoesOn(t) ==
  /\ own'[t] = own[t]
  /\ own[t] => run'[t] = run[t]
  /\ Writing(t)' => Writing(t)
  /\ Staging(t)' => Staging(t)
  /\ own[t] => Writing(t)' \/ pc'[t] \in {"execute", "replace", "clean"}
  /\ pc[t] = "prepare" => pc'[t] = "prepare"
  /\ pc'[t] = "prepare" => pc[t] = "prepare" \/ (~own[t] /\ pc[t] = "resume")
  /\ pc'[t] \in {"idle", "scan"} => pc[t] = pc'[t]
  /\ live' # live => pc'[t] \notin {"prepare", "stage", "plan", "ready"}

ThreadGone(t) == pc'[t] = "idle" /\ ~own'[t]

(* An actor that leaves has nothing more to do with any directory. *)
LEMMA Leaving ==
  ASSUME J!SingleInstance, Inv, NEW a \in J!Actors, pc[a] # "idle", NEW status, J!Leave(a, status)
  PROVE  /\ live' = live /\ dirs' = dirs => Quiet
         /\ \A t \in Threads : ThreadGone(t) /\ ~Staging(t)'
<1>1. /\ pc \in [J!Actors -> J!Labels] /\ own \in [J!Actors -> BOOLEAN] /\ run \in [J!Actors -> RunIds \cup {NoRun}]
      /\ \A t \in Threads : t \in J!Actors
  BY DEF Inv, J!TypeOK, J!Actors
<1>2. \A b \in J!Actors : b # a => pc[b] = "idle" /\ (b \in Threads => ~own[b])
  BY OneAtWork
<1>3. /\ pc'[a] = "idle" /\ own'[a] = FALSE
      /\ \A b \in J!Actors : b # a => pc'[b] = pc[b] /\ own'[b] = own[b] /\ run'[b] = run[b]
  BY <1>1 DEF J!Leave, J!Goto
<1>4. \A t \in Threads : pc'[t] = "idle" /\ ~own'[t]
  BY <1>1, <1>2, <1>3
<1>5. \A t \in Threads : ~Staging(t)'
  BY <1>4 DEF Staging
<1>6. live' = live /\ dirs' = dirs => Quiet
  BY <1>4, <1>5 DEF Quiet, InUse, Sealed, SomeoneStages, Pending
<1> QED
  BY <1>4, <1>5, <1>6 DEF ThreadGone

(* An actor goes from one label to another and keeps its own run. *)
LEMMA Moving ==
  ASSUME J!SingleInstance, Inv, NEW a \in J!Actors, pc[a] # "idle", NEW label, J!Goto(a, label),
         UNCHANGED own,
         \A b \in J!Actors : b # a \/ (a \in Threads /\ own[a]) => run'[b] = run[b],
         a \in Threads =>
           /\ label \in {"stage", "plan", "ready"} => Staging(a)
           /\ label = "commit" => Writing(a)
           /\ own[a] => label \in {"stage", "plan", "ready", "commit", "execute", "replace", "clean"}
           /\ pc[a] = "prepare" => label = "prepare"
           /\ label = "prepare" => pc[a] = "prepare" \/ (~own[a] /\ pc[a] = "resume")
           /\ label \notin {"idle", "scan"}
           /\ live' # live => label \notin {"prepare", "stage", "plan", "ready"}
  PROVE  /\ \A t \in Threads : GoesOn(t)
         /\ SomeoneStages' => SomeoneStages
         /\ pc'[a] = label /\ \A b \in J!Actors : b # a => pc'[b] = pc[b]
<1>1. /\ pc \in [J!Actors -> J!Labels] /\ \A t \in Threads : t \in J!Actors
  BY DEF Inv, J!TypeOK, J!Actors
<1>2. \A b \in J!Actors : b # a => pc[b] = "idle" /\ (b \in Threads => ~own[b])
  BY OneAtWork
<1>3. pc'[a] = label /\ \A b \in J!Actors : b # a => pc'[b] = pc[b]
  BY <1>1 DEF J!Goto
<1>4. ASSUME NEW t \in Threads, t # a
      PROVE  GoesOn(t)
  <2>1. pc[t] = "idle" /\ pc'[t] = "idle" /\ ~own[t] /\ own' = own
    BY <1>1, <1>2, <1>3, <1>4
  <2> QED
    BY <2>1 DEF GoesOn, Writing, Staging
<1>5. ASSUME a \in Threads
      PROVE  GoesOn(a)
  BY <1>3, <1>5 DEF GoesOn, Writing, Staging
<1>6. SomeoneStages' => SomeoneStages
  BY <1>4, <1>5 DEF SomeoneStages, GoesOn
<1> QED
  BY <1>3, <1>4, <1>5, <1>6

(* If it leaves the disk alone too, the step is quiet. *)
LEMMA MovingQuietly ==
  ASSUME J!SingleInstance, Inv, UNCHANGED <<live, dirs, own>>, NEW a \in J!Actors,
         a \in Threads /\ own[a] => pc'[a] = "stage" \/ pc[a] # "stage",
         \A b \in J!Actors : b # a => pc'[b] = pc[b],
         SomeoneStages' => SomeoneStages
  PROVE  Quiet
<1>1. \A t \in Threads : t \in J!Actors
  BY DEF J!Actors
<1>2. (\E t \in Threads : own'[t] /\ pc'[t] # "stage") => \E t \in Threads : own[t] /\ pc[t] # "stage"
  BY <1>1
<1>3. \A r : InUse(r)' <=> InUse(r)
  BY DEF InUse
<1>4. \A r : Pending(r)' <=> Pending(r)
  BY DEF Pending
<1>5. \A r : Sealed(r)' => Sealed(r)
  BY <1>2 DEF Sealed
<1> QED
  BY <1>3, <1>4, <1>5 DEF Quiet, InUse

(* The sweep at boot and at the head of a request. *)
LEMMA SweepIsQuiet ==
  ASSUME J!SingleInstance, Inv, NEW a \in J!Actors, J!Sweep(a)
  PROVE  Quiet /\ \A t \in Threads : ThreadGone(t) \/ GoesOn(t)
<1> USE DEF J!disk, J!memory
<1>1. /\ a \in Threads => RequestInv(a)
      /\ run \in [J!Actors -> RunIds \cup {NoRun}]
      /\ own \in [J!Actors -> BOOLEAN]
      /\ pc[a] \in {"scan", "resume"} /\ pc[a] # "idle"
  BY DEF Inv, FilesInv, J!TypeOK, J!Sweep, J!Scan, J!ResumeReady, J!ResumeDiscard, J!ResumeDone
<1>2. a \in Threads => ~own[a]
  BY <1>1 DEF RequestInv, Writing, Staging
<1>3. ASSUME NEW label, label \in {"resume", "execute", "discard", "prepare"}, J!Goto(a, label),
             label = "prepare" => pc[a] = "resume",
             UNCHANGED <<live, dirs, own>>, \A b \in J!Actors : b # a => run'[b] = run[b]
      PROVE  Quiet /\ \A t \in Threads : ThreadGone(t) \/ GoesOn(t)
  <2>1. /\ \A t \in Threads : GoesOn(t)
        /\ SomeoneStages' => SomeoneStages
        /\ pc'[a] = label /\ \A b \in J!Actors : b # a => pc'[b] = pc[b]
    <3>1. a \in Threads =>
           /\ label \in {"stage", "plan", "ready"} => Staging(a)
           /\ label = "commit" => Writing(a)
           /\ own[a] => label \in {"stage", "plan", "ready", "commit", "execute", "replace", "clean"}
           /\ pc[a] = "prepare" => label = "prepare"
           /\ label = "prepare" => pc[a] = "prepare" \/ (~own[a] /\ pc[a] = "resume")
           /\ label \notin {"idle", "scan"}
           /\ live' # live => label \notin {"prepare", "stage", "plan", "ready"}
      BY <1>1, <1>2, <1>3
    <3>2. \A b \in J!Actors : b # a \/ (a \in Threads /\ own[a]) => run'[b] = run[b]
      BY <1>2, <1>3
    <3> QED
      BY <1>1, <1>3, <3>1, <3>2, Moving
  <2>2. Quiet
    BY <1>2, <1>3, <2>1, MovingQuietly
  <2> QED
    BY <2>1, <2>2
<1>4. CASE J!Scan(a)
  BY <1>1, <1>3, <1>4 DEF J!Scan
<1>5. CASE \E r \in todo[a] : J!ResumeReady(a, r)
  <2>1. PICK r : J!ResumeReady(a, r)
    BY <1>5
  <2>2. \A b \in J!Actors : b # a => run'[b] = run[b]
    BY <1>1, <2>1 DEF J!ResumeReady
  <2> QED
    BY <1>3, <2>1, <2>2 DEF J!ResumeReady
<1>6. CASE \E r \in todo[a] : J!ResumeDiscard(a, r)
  <2>1. PICK r : J!ResumeDiscard(a, r)
    BY <1>6
  <2>2. \A b \in J!Actors : b # a => run'[b] = run[b]
    BY <1>1, <2>1 DEF J!ResumeDiscard
  <2> QED
    BY <1>3, <2>1, <2>2 DEF J!ResumeDiscard
<1>7. CASE J!ResumeDone(a)
  <2>1. CASE J!Leave(a, "serving") /\ UNCHANGED <<live, dirs>>
    BY <1>1, <2>1, Leaving
  <2>2. CASE J!Goto(a, "prepare") /\ UNCHANGED <<live, dirs, lock, svc, own, run, todo, steps>>
    BY <1>3, <1>7, <2>2 DEF J!ResumeDone
  <2> QED
    BY <1>7, <2>1, <2>2 DEF J!ResumeDone
<1> QED
  BY <1>4, <1>5, <1>6, <1>7 DEF J!Sweep

(* Writing into the only run directory. *)
LEMMA SettingOnlyDir ==
  ASSUME NEW r, DOMAIN dirs = {r}, NEW d, J!SetDir(r, d)
  PROVE  DOMAIN dirs' = {r} /\ dirs'[r] = d
BY DEF J!SetDir, J!Put

(* The parts of the one run directory there is.                            *)
LEMMA OnlyDirType ==
  ASSUME Inv, NEW r, DOMAIN dirs = {r}
  PROVE  /\ r \in RunIds /\ dirs[r] \in J!RunDirs /\ J!DirOf(r) = dirs[r]
         /\ dirs[r].files \in J!Partial(Files, Contents)
         /\ dirs[r].plan \in Seq(Files) \cup {NoPlan} /\ dirs[r].ready \in BOOLEAN
         /\ \A s : [dirs[r] EXCEPT !.plan = s].files = dirs[r].files
                   /\ [dirs[r] EXCEPT !.plan = s].ready = dirs[r].ready
                   /\ [dirs[r] EXCEPT !.plan = s].plan = s
         /\ \A b : [dirs[r] EXCEPT !.ready = b].files = dirs[r].files
                   /\ [dirs[r] EXCEPT !.ready = b].ready = b
                   /\ [dirs[r] EXCEPT !.ready = b].plan = dirs[r].plan
         /\ \A g : [dirs[r] EXCEPT !.files = g].files = g
                   /\ [dirs[r] EXCEPT !.files = g].ready = dirs[r].ready
                   /\ [dirs[r] EXCEPT !.files = g].plan = dirs[r].plan
<1>1. r \in RunIds /\ dirs[r] \in J!RunDirs
  BY DEF Inv, J!TypeOK
<1> QED
  BY <1>1 DEF J!RunDirs, J!DirOf

(* Writing the plan and the marker, and the steps of a commit between the  *)
(* renames.                                                                *)
LEMMA ExecuteIsQuiet ==
  ASSUME J!SingleInstance, Inv, NEW a \in J!Actors, J!Execute(a)
  PROVE  /\ \A t \in Threads : GoesOn(t)
         /\ Quiet \/ J!Replace(a)
<1> USE DEF J!disk, J!memory
<1>1. /\ a \in Threads => RequestInv(a)
      /\ a \in Procs => a \notin Threads /\ ~(pc[a] \in {"plan", "ready", "commit"})
      /\ pc \in [J!Actors -> J!Labels]
      /\ \A t \in Threads : t \in J!Actors
  BY JournalConstants
     DEF Inv, FilesInv, J!TypeOK, J!JournalInv, J!LockInv, J!JournalAssumption, J!Actors
<1>2. ASSUME NEW label, label \in {"ready", "commit", "execute", "replace", "clean"}, J!Goto(a, label),
             pc[a] # "idle", pc[a] # "prepare", pc[a] # "stage",
             label = "ready" => pc[a] = "plan", label = "commit" => pc[a] = "ready",
             live' # live => label = "execute",
             UNCHANGED <<own, run>>
      PROVE  /\ \A t \in Threads : GoesOn(t)
             /\ UNCHANGED <<live, dirs>> => Quiet
             /\ SomeoneStages' => SomeoneStages
             /\ \A t \in Threads : own'[t] /\ pc'[t] # "stage" => own[t] /\ pc[t] # "stage"
  <2>1. /\ \A t \in Threads : GoesOn(t)
        /\ SomeoneStages' => SomeoneStages
        /\ pc'[a] = label /\ \A b \in J!Actors : b # a => pc'[b] = pc[b]
    <3>1. a \in Threads =>
           /\ label \in {"stage", "plan", "ready"} => Staging(a)
           /\ label = "commit" => Writing(a)
           /\ own[a] => label \in {"stage", "plan", "ready", "commit", "execute", "replace", "clean"}
           /\ pc[a] = "prepare" => label = "prepare"
           /\ label = "prepare" => pc[a] = "prepare" \/ (~own[a] /\ pc[a] = "resume")
           /\ label \notin {"idle", "scan"}
           /\ live' # live => label \notin {"prepare", "stage", "plan", "ready"}
      BY <1>2 DEF Writing, Staging
    <3> QED
      BY <1>2, <3>1, Moving
  <2>2. UNCHANGED <<live, dirs>> => Quiet
    BY <1>2, <2>1, MovingQuietly
  <2>3. \A t \in Threads : own'[t] /\ pc'[t] # "stage" => own[t] /\ pc[t] # "stage"
    BY <1>1, <1>2, <2>1
  <2> QED
    BY <2>1, <2>2, <2>3
<1>3. ASSUME pc[a] \in {"plan", "ready"}
      PROVE  Staging(a) /\ a \in Threads
  BY <1>1, <1>3 DEF Staging, J!Actors
<1>4. CASE J!WritePlan(a)
  <2>1. /\ \A t \in Threads : GoesOn(t)
        /\ SomeoneStages' => SomeoneStages
        /\ \A t \in Threads : own'[t] /\ pc'[t] # "stage" => own[t] /\ pc[t] # "stage"
    BY <1>2, <1>4 DEF J!WritePlan
  <2>2. DOMAIN dirs = {run[a]} /\ ~dirs[run[a]].ready /\ InUse(run[a])
    BY <1>3, <1>4, StagingAlone DEF J!WritePlan
  <2>3. DOMAIN dirs' = {run[a]} /\ dirs'[run[a]] = [dirs[run[a]] EXCEPT !.plan = steps[a]]
    <3>1. J!DirOf(run[a]) = dirs[run[a]]
      BY <2>2, OnlyDirType
    <3>2. J!SetDir(run[a], [dirs[run[a]] EXCEPT !.plan = steps[a]])
      BY <1>4, <3>1 DEF J!WritePlan
    <3> QED
      BY <2>2, <3>2, SettingOnlyDir
  <2>4. dirs'[run[a]].files = dirs[run[a]].files /\ ~dirs'[run[a]].ready
    BY <2>2, <2>3, OnlyDirType
  <2>5. Quiet
    BY <1>4, <2>1, <2>2, <2>3, <2>4 DEF Quiet, Sealed, Pending, J!WritePlan
  <2> QED
    BY <2>1, <2>5
<1>5. CASE J!MarkReady(a)
  <2>1. /\ \A t \in Threads : GoesOn(t)
        /\ SomeoneStages' => SomeoneStages
        /\ \A t \in Threads : own'[t] /\ pc'[t] # "stage" => own[t] /\ pc[t] # "stage"
    BY <1>2, <1>5 DEF J!MarkReady
  <2>2. DOMAIN dirs = {run[a]} /\ ~dirs[run[a]].ready /\ InUse(run[a]) /\ own[a] /\ a \in Threads
    BY <1>3, <1>5, StagingAlone DEF J!MarkReady
  <2>3. DOMAIN dirs' = {run[a]} /\ dirs'[run[a]] = [dirs[run[a]] EXCEPT !.ready = TRUE]
    <3>1. J!DirOf(run[a]) = dirs[run[a]]
      BY <2>2, OnlyDirType
    <3>2. J!SetDir(run[a], [dirs[run[a]] EXCEPT !.ready = TRUE])
      BY <1>5, <3>1 DEF J!MarkReady
    <3> QED
      BY <2>2, <3>2, SettingOnlyDir
  <2>4. dirs'[run[a]].files = dirs[run[a]].files
    BY <2>2, <2>3, OnlyDirType
  <2>5. Sealed(run[a]) /\ SomeoneStages
    BY <1>3, <1>5, <2>2 DEF Sealed, SomeoneStages, J!MarkReady
  <2>6. Quiet
    BY <1>5, <2>1, <2>2, <2>3, <2>4, <2>5 DEF Quiet, Pending, J!MarkReady
  <2> QED
    BY <2>1, <2>6
<1>6. CASE J!Commit(a) \/ J!CheckStaged(a) \/ J!ExecuteDone(a)
  BY <1>2, <1>6 DEF J!Commit, J!CheckStaged, J!ExecuteDone
<1>7. CASE J!SkipStep(a)
  <2>1. J!Goto(a, "execute")
    BY <1>1, <1>7 DEF J!SkipStep, J!Goto
  <2> QED
    BY <1>2, <1>7, <2>1 DEF J!SkipStep
<1>8. CASE J!Replace(a)
  <2>1. \A t \in Threads : GoesOn(t)
    BY <1>2, <1>8 DEF J!Replace
  <2> QED
    BY <1>8, <2>1
<1> QED
  BY <1>4, <1>5, <1>6, <1>7, <1>8 DEF J!Execute

(* Removing a directory: it holds nothing that is to be renamed. *)
LEMMA RemoveIsQuiet ==
  ASSUME J!SingleInstance, Inv, NEW a \in J!Actors, J!Remove(a)
  PROVE  Quiet /\ \A t \in Threads : ThreadGone(t) \/ GoesOn(t)
<1> USE DEF J!disk, J!memory
<1>1. /\ a \in Threads => RequestInv(a)
      /\ J!ActorInv(a)
      /\ pc[a] \in {"clean", "discard"}
      /\ own \in [J!Actors -> BOOLEAN] /\ pc \in [J!Actors -> J!Labels]
      /\ \A t \in Threads : t \in J!Actors
  BY DEF Inv, FilesInv, J!TypeOK, J!JournalInv, J!Remove, J!RemovePlan, J!RemoveReady, J!RemoveDir,
         J!CleanupMissing, J!Removing, J!Actors
<1>2. /\ DOMAIN dirs = {run[a]}
      /\ pc[a] = "clean" => DOMAIN dirs[run[a]].files = {}
      /\ pc[a] = "discard" => ~dirs[run[a]].ready
  BY <1>1 DEF J!ActorInv, J!Staged, J!IsReady
<1>3. /\ pc[a] = "discard" /\ a \in Threads => ~own[a]
      /\ \A b \in J!Actors : b # a => pc[b] = "idle" /\ (b \in Threads => ~own[b])
  BY <1>1, OneAtWork DEF RequestInv, Writing, Staging
<1>4. /\ pc[a] = "discard" => ~InUse(run[a])
      /\ ~Pending(run[a])
  BY <1>1, <1>2, <1>3 DEF InUse, Pending
<1>5. \A t \in Threads : UNCHANGED <<live, pc, own, run>> => GoesOn(t)
  BY <1>1, <1>3 DEF GoesOn, Writing, Staging, RequestInv
<1>6. ASSUME NEW d, J!SetDir(run[a], d), UNCHANGED <<live, pc, own, run>>,
             pc[a] = "clean" => d.files = dirs[run[a]].files,
             d.ready => dirs[run[a]].ready
      PROVE  Quiet /\ \A t \in Threads : ThreadGone(t) \/ GoesOn(t)
  <2>1. DOMAIN dirs' = {run[a]} /\ dirs'[run[a]] = d
    BY <1>2, <1>6, SettingOnlyDir
  <2>2. SomeoneStages' <=> SomeoneStages
    BY <1>6 DEF SomeoneStages, Staging
  <2>3. CASE pc[a] = "discard"
    <3>1. \A t \in Threads : ~own[t]
      BY <1>1, <1>3, <2>3
    <3>2. ~InUse(run[a])'
      BY <1>2, <1>6, <2>1, <2>3, <3>1 DEF InUse
    <3> QED
      BY <1>2, <1>4, <1>5, <1>6, <2>1, <2>2, <3>2 DEF Quiet
  <2>4. CASE pc[a] = "clean"
    <3>1. ~Pending(run[a])'
      BY <1>2, <1>6, <2>1, <2>4 DEF Pending
    <3>2. InUse(run[a])' => InUse(run[a])
      BY <1>2, <1>6, <2>1 DEF InUse
    <3>3. Sealed(run[a])' => Sealed(run[a])
      BY <1>6, <2>1 DEF Sealed
    <3> QED
      BY <1>2, <1>4, <1>5, <1>6, <2>1, <2>2, <2>4, <3>1, <3>2, <3>3 DEF Quiet
  <2> QED
    BY <1>1, <2>3, <2>4
<1>7. CASE \E f \in DOMAIN dirs[run[a]].files : J!RemoveStaged(a, f)
  <2>1. PICK f \in DOMAIN dirs[run[a]].files : J!RemoveStaged(a, f)
    BY <1>7
  <2>2. pc[a] = "discard"
    BY <1>1, <1>2, <2>1
  <2> DEFINE d == [dirs[run[a]] EXCEPT !.files = J!Drop(@, f)]
  <2>3. J!SetDir(run[a], d) /\ UNCHANGED <<live, pc, own, run>>
    BY <2>1 DEF J!RemoveStaged
  <2>4. d.ready = dirs[run[a]].ready
    BY <1>2, OnlyDirType
  <2> HIDE DEF d
  <2> QED
    BY <1>6, <2>2, <2>3, <2>4
<1>8. CASE J!RemovePlan(a)
  <2> DEFINE d == [dirs[run[a]] EXCEPT !.plan = NoPlan]
  <2>1. J!SetDir(run[a], d) /\ UNCHANGED <<live, pc, own, run>>
    BY <1>8 DEF J!RemovePlan
  <2>2. d.ready = dirs[run[a]].ready /\ d.files = dirs[run[a]].files
    BY <1>2, OnlyDirType
  <2> HIDE DEF d
  <2> QED
    BY <1>6, <2>1, <2>2
<1>9. CASE J!RemoveReady(a)
  <2> DEFINE d == [dirs[run[a]] EXCEPT !.ready = FALSE]
  <2>1. J!SetDir(run[a], d) /\ UNCHANGED <<live, pc, own, run>>
    BY <1>9 DEF J!RemoveReady
  <2>2. d.ready = FALSE /\ d.files = dirs[run[a]].files
    BY <1>2, OnlyDirType
  <2> HIDE DEF d
  <2> QED
    BY <1>6, <2>1, <2>2
<1>10. CASE J!RemoveDir(a)
  <2>1. DOMAIN dirs' = {} /\ live' = live
    BY <1>2, <1>10 DEF J!RemoveDir, J!Drop, J!Restrict
  <2>2. ASSUME SomeoneStages' => SomeoneStages
        PROVE  Quiet
    BY <1>2, <1>4, <2>1, <2>2 DEF Quiet
  <2>3. CASE J!Leave(a, "serving")
    <3>1. \A t \in Threads : ThreadGone(t) /\ ~Staging(t)'
      BY <1>1, <2>3, Leaving
    <3> QED
      BY <2>2, <3>1 DEF SomeoneStages
  <2>4. CASE ~own[a] /\ J!Goto(a, "resume") /\ UNCHANGED <<own, run>>
    <3>1. /\ \A t \in Threads : GoesOn(t)
          /\ SomeoneStages' => SomeoneStages
      BY <1>1, <2>1, <2>4, Moving
    <3> QED
      BY <2>2, <3>1
  <2> QED
    BY <1>10, <2>3, <2>4 DEF J!RemoveDir, J!Removed
<1>11. CASE J!CleanupMissing(a)
  BY <1>2, <1>11 DEF J!CleanupMissing
<1> QED
  BY <1>7, <1>8, <1>9, <1>10, <1>11 DEF J!Remove

(* Starting, taking the lock and failing. *)
LEMMA BootIsQuiet ==
  ASSUME J!SingleInstance, Inv, NEW p \in Procs, J!Boot(p)
  PROVE  Quiet /\ \A t \in Threads : GoesOn(t)
<1>1. /\ p \notin Threads /\ \A t \in Threads : t \in J!Actors /\ RequestInv(t)
      /\ pc \in [J!Actors -> J!Labels]
  BY JournalConstants DEF J!JournalAssumption, J!Actors, Inv, FilesInv, J!TypeOK
<1>2. \A t \in Threads : pc'[t] = pc[t]
  BY <1>1 DEF J!Boot, J!Goto
<1>3. UNCHANGED <<live, dirs, own, run>>
  BY DEF J!Boot, J!disk, J!memory
<1> QED
  BY <1>1, <1>2, <1>3 DEF Quiet, GoesOn, InUse, Sealed, Pending, SomeoneStages, Staging, Writing, RequestInv

(* Taking the lock starts a request that knows nothing yet.                *)
LEMMA AcquireIsQuiet ==
  ASSUME J!SingleInstance, Inv, NEW t \in Threads, J!Acquire(t)
  PROVE  /\ Quiet
         /\ pc[t] = "idle" /\ pc'[t] = "scan" /\ ~own[t] /\ UNCHANGED own
         /\ \A u \in Threads : u # t => GoesOn(u)
<1>1. /\ \A u \in Threads : u \in J!Actors /\ RequestInv(u)
      /\ pc \in [J!Actors -> J!Labels]
  BY DEF J!Actors, Inv, FilesInv, J!TypeOK
<1>2. pc[t] = "idle" /\ pc'[t] = "scan" /\ \A u \in Threads : u # t => pc'[u] = pc[u]
  BY <1>1 DEF J!Acquire, J!Goto
<1>3. UNCHANGED <<live, dirs, own, run>>
  BY DEF J!Acquire, J!disk, J!memory
<1>4. ~own[t]
  BY <1>1, <1>2 DEF RequestInv, Writing, Staging
<1>5. Quiet
  <2>1. \A u \in Threads : (own'[u] /\ pc'[u] # "stage" => own[u] /\ pc[u] # "stage")
    BY <1>2, <1>3, <1>4
  <2>2. SomeoneStages' => SomeoneStages
    BY <1>2 DEF SomeoneStages, Staging
  <2> QED
    BY <1>3, <2>1, <2>2 DEF Quiet, InUse, Sealed, Pending
<1> QED
  BY <1>1, <1>2, <1>3, <1>4, <1>5 DEF GoesOn, Staging, Writing, RequestInv

(* A request that fails or dies leaves the files as they are.              *)
LEMMA FailingIsQuiet ==
  ASSUME J!SingleInstance, Inv,
         \/ \E a \in J!Actors : J!Raise(a) \/ J!OSError(a) \/ J!ReturnDry(a)
         \/ \E p \in Procs : J!Crash(p)
  PROVE  Quiet /\ \A t \in Threads : ThreadGone(t) \/ GoesOn(t)
<1>1. ASSUME NEW a \in J!Actors, J!Raise(a) \/ J!OSError(a) \/ J!ReturnDry(a)
      PROVE  Quiet /\ \A t \in Threads : ThreadGone(t) \/ GoesOn(t)
  <2>1. PICK status : J!Leave(a, status)
    BY <1>1 DEF J!Raise, J!OSError, J!ReturnDry
  <2>2. pc[a] # "idle" /\ UNCHANGED <<live, dirs>>
    BY <1>1 DEF J!Raise, J!OSError, J!ReturnDry, J!Stuck, J!disk
  <2> QED
    BY <2>1, <2>2, Leaving
<1>2. ASSUME NEW p \in Procs, J!Crash(p)
      PROVE  Quiet /\ \A t \in Threads : ThreadGone(t) \/ GoesOn(t)
  <2>1. /\ \A u \in Threads : u \in J!Actors /\ RequestInv(u)
        /\ UNCHANGED <<live, dirs>>
    BY <1>2 DEF J!Actors, Inv, FilesInv, J!Crash, J!disk
  <2>2. \A t \in Threads :
          ThreadGone(t) \/ (pc'[t] = pc[t] /\ own'[t] = own[t] /\ run'[t] = run[t])
    BY <1>2, <2>1 DEF J!Crash, ThreadGone
  <2>3. \A t \in Threads : ThreadGone(t) \/ GoesOn(t)
    BY <2>1, <2>2 DEF GoesOn, Staging, Writing, RequestInv
  <2>4. SomeoneStages' => SomeoneStages
    BY <2>2 DEF SomeoneStages, Staging, ThreadGone
  <2>5. \A t \in Threads : (own'[t] => own[t]) /\ (own'[t] /\ pc'[t] # "stage" => pc[t] # "stage")
    BY <2>2 DEF ThreadGone
  <2>6. Quiet
    BY <2>1, <2>4, <2>5 DEF Quiet, InUse, Sealed, Pending
  <2> QED
    BY <2>3, <2>6
<1> QED
  BY <1>1, <1>2

-----------------------------------------------------------------------------
(* Requests. *)

SourceTables == [Tables -> Partial(1..MaxPk, 1..MaxTime)]

(* What TypeOK says of one thread. *)
ThreadTyped(t) ==
  /\ DOMAIN req[t] = {"dry", "before", "snap", "delta"}
  /\ req[t].dry \in BOOLEAN
  /\ req[t].before \in Checkpoints \cup {<< >>}
  /\ req[t].snap \in SourceTables \cup {<< >>}
  /\ DOMAIN req[t].delta \subseteq Tables
  /\ req[t].delta \in [DOMAIN req[t].delta -> Seq(Stamps)]
  /\ req[t].delta # << >> => req[t].before # << >> /\ req[t].snap # << >>
  /\ own[t] => Fetched(t) /\ ~req[t].dry /\ run[t] = IdOf(t)
  /\ pc[t] \in {"idle", "scan"} => [req[t] EXCEPT !.dry = FALSE] = NewRequest

(* TypeOK, thread by thread. *)
LEMMA TypeByThread ==
  TypeOK <=> /\ source \in SourceTables
             /\ DOMAIN req = Threads
             /\ \A t \in Threads : ThreadTyped(t)
BY DEF TypeOK, ThreadTyped, SourceTables

(* The same of the next state. *)
LEMMA TypeByThreadNext ==
  TypeOK' <=> /\ source' \in SourceTables
              /\ DOMAIN req' = Threads
              /\ \A t \in Threads : ThreadTyped(t)'
BY DEF TypeOK, ThreadTyped, SourceTables, Fetched, IdOf, RunId

(* A thread's request ends, or it goes on and has read nothing more. *)
Fate(t) ==
  \/ ThreadGone(t) /\ req'[t] = NewRequest
  \/ GoesOn(t) /\ req'[t] = req[t]

(* The memory of a new request. *)
LEMMA NewRequestFields ==
  /\ DOMAIN NewRequest = {"dry", "before", "snap", "delta"}
  /\ NewRequest.before = << >> /\ NewRequest.snap = << >> /\ NewRequest.delta = << >>
  /\ NewRequest.dry = FALSE
  /\ NewRequest = [NewRequest EXCEPT !.dry = FALSE]
  /\ \A b : LET r == [NewRequest EXCEPT !.dry = b]
            IN /\ [r EXCEPT !.dry = FALSE] = NewRequest
               /\ r.before = << >> /\ r.snap = << >> /\ r.delta = << >> /\ r.dry = b
               /\ DOMAIN r = {"dry", "before", "snap", "delta"}
<1> DEFINE made(b) == [dry |-> b, before |-> << >>, snap |-> << >>, delta |-> << >>]
<1>1. \A b : [NewRequest EXCEPT !.dry = b] = made(b)
  BY DEF NewRequest
<1>2. ASSUME NEW b
      PROVE  [made(b) EXCEPT !.dry = FALSE] = made(FALSE)
  <2> DEFINE r == [made(b) EXCEPT !.dry = FALSE]
             fields == {"dry", "before", "snap", "delta"}
  <2>1. DOMAIN r = fields /\ DOMAIN made(FALSE) = fields
    OBVIOUS
  <2>2. r = [x \in fields |-> r[x]] /\ made(FALSE) = [x \in fields |-> made(FALSE)[x]]
    OBVIOUS
  <2>3. r.dry = made(FALSE).dry
    OBVIOUS
  <2>4. r.before = made(FALSE).before
    OBVIOUS
  <2>5. r.snap = made(FALSE).snap
    OBVIOUS
  <2>6. r.delta = made(FALSE).delta
    OBVIOUS
  <2>7. r = made(FALSE)
    <3> HIDE DEF r, made
    <3> QED
      BY <2>2, <2>3, <2>4, <2>5, <2>6
  <2> QED
    BY <2>7
<1>3. NewRequest = made(FALSE)
  BY DEF NewRequest
<1> QED
  BY <1>1, <1>2, <1>3

(* A request that has read nothing is as it should be. *)
LEMMA FreshRequest ==
  ASSUME NEW t \in Threads, NEW b \in BOOLEAN, req'[t] = [NewRequest EXCEPT !.dry = b],
         pc'[t] \in {"idle", "scan"}, ~own'[t]
  PROVE  ThreadTyped(t)' /\ RequestInv(t)'
<1>1. /\ DOMAIN req'[t] = {"dry", "before", "snap", "delta"}
      /\ req'[t].before = << >> /\ req'[t].snap = << >> /\ req'[t].delta = << >> /\ req'[t].dry = b
      /\ [req'[t] EXCEPT !.dry = FALSE] = NewRequest
  BY NewRequestFields
<1>2. DOMAIN << >> = {} /\ << >> \in [{} -> Seq(Stamps)]
  OBVIOUS
<1>3. ThreadTyped(t)'
  BY <1>1, <1>2 DEF ThreadTyped
<1>4. DOMAIN req'[t].delta = {TableSpecs[i] : i \in 1..0}
  BY <1>1, <1>2
<1>5. 0 \in 0..Len(TableSpecs)
  <2>1. TableSpecs \in Seq(Tables)
    BY ServiceAssumption
  <2> QED
    BY <2>1
<1>6. RequestInv(t)'
  BY <1>1, <1>2, <1>4, <1>5 DEF RequestInv, Writing, Staging
<1> QED
  BY <1>3, <1>6

(* The same in the initial state. *)
LEMMA FirstRequest ==
  ASSUME NEW t \in Threads, NEW b \in BOOLEAN, req[t] = [NewRequest EXCEPT !.dry = b],
         pc[t] \in {"idle", "scan"}, ~own[t]
  PROVE  ThreadTyped(t) /\ RequestInv(t)
<1>1. /\ DOMAIN req[t] = {"dry", "before", "snap", "delta"}
      /\ req[t].before = << >> /\ req[t].snap = << >> /\ req[t].delta = << >> /\ req[t].dry = b
      /\ [req[t] EXCEPT !.dry = FALSE] = NewRequest
  BY NewRequestFields
<1>2. DOMAIN << >> = {} /\ << >> \in [{} -> Seq(Stamps)]
  OBVIOUS
<1>3. ThreadTyped(t)
  BY <1>1, <1>2 DEF ThreadTyped
<1>4. DOMAIN req[t].delta = {TableSpecs[i] : i \in 1..0}
  BY <1>1, <1>2
<1>5. 0 \in 0..Len(TableSpecs)
  <2>1. TableSpecs \in Seq(Tables)
    BY ServiceAssumption
  <2> QED
    BY <2>1
<1>6. RequestInv(t)
  BY <1>1, <1>2, <1>4, <1>5 DEF RequestInv, Writing, Staging
<1> QED
  BY <1>3, <1>6

(* A request that ends or goes on stays as it should be. *)
LEMMA FateIsKept ==
  ASSUME Inv, NEW t \in Threads, Fate(t)
  PROVE  ThreadTyped(t)' /\ RequestInv(t)'
<1>1. ThreadTyped(t) /\ RequestInv(t)
  BY TypeByThread DEF Inv, FilesInv
<1>2. CASE ThreadGone(t) /\ req'[t] = NewRequest
  <2>1. req'[t] = [NewRequest EXCEPT !.dry = FALSE]
    BY <1>2, NewRequestFields
  <2> QED
    BY <1>2, <2>1, FreshRequest DEF ThreadGone
<1>3. CASE GoesOn(t) /\ req'[t] = req[t]
  <2>1. ThreadTyped(t)'
    BY <1>1, <1>3 DEF ThreadTyped, GoesOn, Fetched, IdOf, RunId
  <2>2. ~own[t] /\ pc[t] # "prepare" => req[t].before = << >>
    <3>1. "before" \in DOMAIN req[t]
      BY <1>1 DEF ThreadTyped
    <3>2. [req[t] EXCEPT !.dry = FALSE].before = req[t].before
      BY <3>1
    <3> QED
      BY <1>1, <3>2, NewRequestFields DEF RequestInv
  <2>3. (Writing(t)' => own'[t]) /\ (own'[t] => Writing(t)' \/ pc'[t] \in {"execute", "replace", "clean"})
    BY <1>1, <1>3 DEF RequestInv, GoesOn
  <2>4. own'[t] \/ pc'[t] = "prepare" \/ [req'[t] EXCEPT !.dry = FALSE] = NewRequest
    BY <1>1, <1>3 DEF RequestInv, GoesOn
  <2>5. (pc'[t] = "prepare" \/ Staging(t)') /\ req'[t].before # << >> => req'[t].before = LiveCheckpoint'
    <3>1. CASE live' = live
      <4>1. LiveCheckpoint' = LiveCheckpoint
        BY <3>1 DEF LiveCheckpoint
      <4> QED
        BY <1>1, <1>3, <2>2, <4>1 DEF RequestInv, GoesOn
    <3>2. CASE live' # live
      BY <1>3, <3>2 DEF GoesOn, Staging
    <3> QED
      BY <3>1, <3>2
  <2>6. RequestInv(t)'
    BY <1>1, <1>3, <2>3, <2>4, <2>5 DEF RequestInv
  <2> QED
    BY <2>1, <2>6
<1> QED
  BY <1>2, <1>3 DEF Fate

(* The live checkpoint has a watermark for every table. *)
LEMMA LiveCheckpointType ==
  ASSUME Inv
  PROVE  LiveCheckpoint \in Checkpoints
<1>1. InitialCheckpoint \in Checkpoints
  BY DEF InitialCheckpoint, Checkpoints, EmptyWatermark, Row, Stamps
<1>2. CASE CheckpointFile \in DOMAIN live
  <2>1. LiveFits(CheckpointFile)
    BY <1>2 DEF Inv, FilesInv
  <2> QED
    BY <1>2, <2>1, NameParts DEF LiveFits, LiveCheckpoint
<1> QED
  BY <1>1, <1>2 DEF LiveCheckpoint

(* Loading the checkpoint. *)
LEMMA LoadingIsKept ==
  ASSUME Inv, NEW t \in Threads, LoadCheckpoint(t)
  PROVE  ThreadTyped(t)' /\ RequestInv(t)'
<1>1. ThreadTyped(t) /\ RequestInv(t) /\ DOMAIN req = Threads
  BY TypeByThread DEF Inv, FilesInv
<1> DEFINE now == LiveCheckpoint
<1>2. now \in Checkpoints
  BY LiveCheckpointType
<1>3. req[t].before = << >> /\ req[t].delta = << >>
  BY <1>1 DEF LoadCheckpoint, ThreadTyped
<1>4. req'[t] = [req[t] EXCEPT !.before = now] /\ LiveCheckpoint' = now
  BY <1>1 DEF LoadCheckpoint, LiveCheckpoint
<1> HIDE DEF now
<1>5. /\ DOMAIN req'[t] = DOMAIN req[t]
      /\ req'[t].dry = req[t].dry /\ req'[t].before = now
      /\ req'[t].snap = req[t].snap /\ req'[t].delta = << >>
  BY <1>1, <1>3, <1>4 DEF ThreadTyped
<1>6. pc[t] = "prepare" /\ UNCHANGED <<pc, own, run>>
  BY DEF LoadCheckpoint
<1>7. ~own[t]
  BY <1>1, <1>6 DEF RequestInv, Writing, Staging
<1>8. ThreadTyped(t)'
  BY <1>1, <1>2, <1>3, <1>5, <1>6, <1>7 DEF ThreadTyped
<1>9. RequestInv(t)'
  BY <1>1, <1>3, <1>4, <1>5, <1>6, <1>7 DEF RequestInv, Writing, Staging
<1> QED
  BY <1>8, <1>9

(* The tables that a request has read are the first ones, and so are those *)
(* and the next one.                                                       *)
LEMMA NextTable ==
  ASSUME NEW n \in 0..Len(TableSpecs), {TableSpecs[i] : i \in 1..n} # Tables
  PROVE  LET table == TableSpecs[Cardinality({TableSpecs[i] : i \in 1..n}) + 1]
         IN /\ n + 1 \in 0..Len(TableSpecs)
            /\ table \in Tables
            /\ {TableSpecs[i] : i \in 1..(n + 1)} = {TableSpecs[i] : i \in 1..n} \cup {table}
            /\ table \notin {TableSpecs[i] : i \in 1..n}
<1>1. /\ TableSpecs \in Seq(Tables) /\ Len(TableSpecs) \in Nat /\ DOMAIN TableSpecs = 1..Len(TableSpecs)
      /\ \A i, j \in 1..Len(TableSpecs) : TableSpecs[i] = TableSpecs[j] => i = j
      /\ n \in Nat /\ n <= Len(TableSpecs)
  <2>1. TableSpecs \in Seq(Tables)
    BY ServiceAssumption
  <2>2. Len(TableSpecs) \in Nat /\ DOMAIN TableSpecs = 1..Len(TableSpecs)
    BY <2>1
  <2>3. \A i, j \in DOMAIN TableSpecs : TableSpecs[i] = TableSpecs[j] => i = j
    BY ServiceAssumption
  <2> QED
    BY <2>1, <2>2, <2>3
<1>2. n < Len(TableSpecs)
  <2>1. Tables = {TableSpecs[i] : i \in 1..Len(TableSpecs)}
    BY <1>1 DEF Tables, Range
  <2> QED
    BY <1>1, <2>1
<1> DEFINE read == {TableSpecs[i] : i \in 1..n}
           at   == [i \in 1..n |-> TableSpecs[i]]
<1>3. Cardinality(read) = n
  <2>1. at \in Bijection(1..n, read)
    <3>1. at \in [1..n -> read]
      OBVIOUS
    <3>2. \A i, j \in 1..n : at[i] = at[j] => i = j
      BY <1>1
    <3>3. \A x \in read : \E i \in 1..n : at[i] = x
      OBVIOUS
    <3> QED
      BY <3>1, <3>2, <3>3 DEF Bijection, Injection, Surjection, IsInjective
  <2>2. ExistsBijection(1..n, read)
    BY <2>1 DEF ExistsBijection
  <2> QED
    BY <1>1, <2>2, FS_CountingElements
<1>4. TableSpecs[n + 1] \in Tables /\ TableSpecs[n + 1] \notin read
  <2>1. n + 1 \in 1..Len(TableSpecs)
    BY <1>1, <1>2
  <2>2. \A i \in 1..n : i \in 1..Len(TableSpecs) /\ i # n + 1
    BY <1>1
  <2> QED
    BY <1>1, <2>1, <2>2
<1>5. {TableSpecs[i] : i \in 1..(n + 1)} = read \cup {TableSpecs[n + 1]}
  <2>1. 1..(n + 1) = 1..n \cup {n + 1}
    BY <1>1
  <2> QED
    BY <2>1
<1>6. n + 1 \in 0..Len(TableSpecs)
  BY <1>1, <1>2
<1> QED
  BY <1>3, <1>4, <1>5, <1>6

(* Reading a table. *)
LEMMA FetchingIsKept ==
  ASSUME Inv, NEW t \in Threads, FetchDelta(t)
  PROVE  ThreadTyped(t)' /\ RequestInv(t)'
<1>1. ThreadTyped(t) /\ RequestInv(t) /\ DOMAIN req = Threads /\ source \in SourceTables
  BY TypeByThread DEF Inv, FilesInv
<1>2. pc[t] = "prepare" /\ req[t].before # << >> /\ ~Fetched(t)
      /\ UNCHANGED <<live, pc, own, run>>
  BY DEF FetchDelta
<1>3. ~own[t]
  BY <1>1, <1>2 DEF RequestInv, Writing, Staging
<1>4. PICK n \in 0..Len(TableSpecs) : DOMAIN req[t].delta = {TableSpecs[i] : i \in 1..n}
  BY <1>1 DEF RequestInv
<1> DEFINE table == TableSpecs[Cardinality(DOMAIN req[t].delta) + 1]
           snap  == Snapshot(t)
           old   == req[t].delta
<1>5. /\ n + 1 \in 0..Len(TableSpecs) /\ table \in Tables
      /\ {TableSpecs[i] : i \in 1..(n + 1)} = DOMAIN old \cup {table}
      /\ table \notin DOMAIN old
  BY <1>2, <1>4, NextTable DEF Fetched
<1>6. PICK rows \in Ordered(Matching(snap[table], req[t].before[table])) :
        req' = [req EXCEPT ![t].snap = snap, ![t].delta = Put(@, table, rows)]
  BY DEF FetchDelta
<1>7. /\ snap \in SourceTables
      /\ old # << >> => snap = req[t].snap
  BY <1>1 DEF Snapshot, ThreadTyped
<1>8. old \in [DOMAIN old -> Seq(Stamps)] /\ DOMAIN old \subseteq Tables
  BY <1>1 DEF ThreadTyped
<1>9. req[t].before \in Checkpoints
  BY <1>1, <1>2 DEF ThreadTyped
<1>10. rows \in Seq(Stamps)
  <2>1. snap[table] \in Partial(1..MaxPk, 1..MaxTime) /\ req[t].before[table] \in Stamps
    BY <1>5, <1>7, <1>9 DEF SourceTables, Checkpoints
  <2>2. MaxTime \in Nat /\ MaxPk \in Nat
    BY ServiceAssumption
  <2> HIDE DEF snap, table
  <2> QED
    BY <2>1, <2>2, DeltaIsMatching
<1> DEFINE new == Put(old, table, rows)
<1>11. /\ DOMAIN new = DOMAIN old \cup {table}
       /\ new[table] = rows /\ \A x \in DOMAIN old : new[x] = old[x]
       /\ new \in [DOMAIN new -> Seq(Stamps)]
  <2> HIDE DEF table, snap
  <2> QED
    BY <1>5, <1>8, <1>10 DEF Put
<1>12. /\ DOMAIN req'[t] = DOMAIN req[t]
       /\ req'[t].dry = req[t].dry /\ req'[t].before = req[t].before
       /\ req'[t].snap = snap /\ req'[t].delta = new
  <2> HIDE DEF table, snap
  <2> QED
    BY <1>1, <1>6 DEF ThreadTyped
<1>13. ThreadTyped(t)'
  <2> HIDE DEF snap, new
  <2>1. table \in Tables
    BY <1>5
  <2> HIDE DEF table
  <2>2. snap # << >>
    <3>1. DOMAIN snap = Tables /\ DOMAIN << >> = {}
      BY <1>7 DEF SourceTables
    <3> QED
      BY <3>1, ServiceAssumption
  <2> QED
    BY <1>1, <1>2, <1>3, <1>5, <1>7, <1>8, <1>11, <1>12, <2>1, <2>2 DEF ThreadTyped
<1>14. RequestInv(t)'
  <2>1. LiveCheckpoint' = LiveCheckpoint
    BY <1>2 DEF LiveCheckpoint
  <2>2. \E m \in 0..Len(TableSpecs) : DOMAIN new = {TableSpecs[i] : i \in 1..m}
    <3> HIDE DEF new
    <3> QED
      BY <1>5, <1>11
  <2>3. ASSUME NEW x \in DOMAIN new
        PROVE  new[x] \in Ordered(Matching(snap[x], req[t].before[x]))
    <3>1. CASE x = table
      BY <1>6, <1>11, <3>1
    <3>2. CASE x \in DOMAIN old
      <4>1. old # << >>
        BY <3>2
      <4> QED
        BY <1>1, <1>7, <1>11, <3>2, <4>1 DEF RequestInv
    <3> QED
      BY <1>11, <2>3, <3>1, <3>2
  <2> HIDE DEF new, snap
  <2> QED
    BY <1>1, <1>2, <1>3, <1>12, <2>1, <2>2, <2>3 DEF RequestInv, Writing, Staging
<1> QED
  BY <1>13, <1>14

(* Naming the run. *)
LEMMA BeginningIsKept ==
  ASSUME Inv, NEW t \in Threads, BeginRun(t)
  PROVE  /\ ThreadTyped(t)' /\ RequestInv(t)'
         /\ run'[t] = IdOf(t) /\ own'[t] /\ pc'[t] = "stage"
         /\ \A u \in J!Actors : u # t => pc'[u] = pc[u] /\ own'[u] = own[u] /\ run'[u] = run[u]
<1>1. /\ ThreadTyped(t) /\ RequestInv(t) /\ t \in J!Actors
      /\ pc \in [J!Actors -> J!Labels] /\ own \in [J!Actors -> BOOLEAN]
      /\ run \in [J!Actors -> RunIds \cup {NoRun}]
  BY TypeByThread DEF Inv, FilesInv, J!TypeOK, J!Actors
<1>2. /\ pc[t] = "prepare" /\ Fetched(t) /\ ~req[t].dry
      /\ UNCHANGED <<live, req>>
  BY DEF BeginRun, J!BeginRun
<1>3. /\ pc'[t] = "stage" /\ own'[t] = TRUE /\ run'[t] = IdOf(t)
      /\ \A u \in J!Actors : u # t => pc'[u] = pc[u] /\ own'[u] = own[u] /\ run'[u] = run[u]
  BY <1>1 DEF BeginRun, J!BeginRun, J!Goto
<1>4. ThreadTyped(t)'
  BY <1>1, <1>2, <1>3 DEF ThreadTyped, Fetched, IdOf, RunId
<1>5. LiveCheckpoint' = LiveCheckpoint
  BY <1>2 DEF LiveCheckpoint
<1>6. RequestInv(t)'
  BY <1>1, <1>2, <1>3, <1>5 DEF RequestInv, Writing, Staging
<1> QED
  BY <1>3, <1>4, <1>6

(* Staging a file: the run goes on, and other actors rest. *)
LEMMA StagingGoesOn ==
  ASSUME Inv, NEW t \in Threads, StageNext(t)
  PROVE  \A u \in Threads : GoesOn(u) /\ req'[u] = req[u]
<1>1. /\ pc \in [J!Actors -> J!Labels] /\ \A u \in Threads : RequestInv(u) /\ u \in J!Actors
  BY DEF Inv, FilesInv, J!TypeOK, J!Actors
<1>2. PICK f, c : J!StageFile(t, f, c)
  BY DEF StageNext
<1>3. /\ pc[t] = "stage" /\ pc'[t] \in {"stage", "plan"}
      /\ \A u \in Threads : u # t => pc'[u] = pc[u]
      /\ UNCHANGED <<live, own, run>>
  BY <1>1, <1>2 DEF J!StageFile, J!Goto
<1>4. req' = req
  BY DEF StageNext
<1> QED
  BY <1>1, <1>3, <1>4 DEF GoesOn, Writing, Staging, RequestInv

(* The source is changed by its writers only, and stays a source. *)
LEMMA SourceTypedStep ==
  ASSUME source \in SourceTables, [Next]_vars
  PROVE  /\ source' \in SourceTables
         /\ SourceChanges \/ source' = source
<1>1. source \in SourceTables
  OBVIOUS
<1>2. SourceChanges \/ source' = source
  BY DEF Next, vars, Boot, Request, Ingest, LoadCheckpoint, FetchDelta, ReturnDry, BeginRun, StageNext,
         Work, Fault, SourceFails
<1>3. ASSUME NEW at \in 1..MaxTime, NEW pks \in [Tables -> SUBSET (1..MaxPk)], Transaction(at, pks)
      PROVE  source' \in SourceTables
  <2>1. source' = [t \in Tables |-> Overlay(source[t], [pk \in pks[t] |-> at])]
    BY <1>3 DEF Transaction
  <2>2. ASSUME NEW t \in Tables
        PROVE  Overlay(source[t], [pk \in pks[t] |-> at]) \in Partial(1..MaxPk, 1..MaxTime)
    <3> DEFINE written == [pk \in pks[t] |-> at]
    <3>1. DOMAIN source[t] \subseteq 1..MaxPk /\ source[t] \in [DOMAIN source[t] -> 1..MaxTime]
      BY <1>1, PartialIsFunction DEF SourceTables
    <3>2. DOMAIN written \subseteq 1..MaxPk /\ written \in [DOMAIN written -> 1..MaxTime]
      OBVIOUS
    <3> HIDE DEF written
    <3>3. DOMAIN Overlay(source[t], written) \subseteq 1..MaxPk
      BY <3>1, <3>2 DEF Overlay
    <3>4. Overlay(source[t], written) \in [DOMAIN Overlay(source[t], written) -> 1..MaxTime]
      BY <3>1, <3>2 DEF Overlay
    <3>5. Overlay(source[t], written) \in Partial(1..MaxPk, 1..MaxTime)
      BY <3>3, <3>4, PartialIsFunction
    <3> QED
      BY <3>5 DEF written
  <2> QED
    BY <2>1, <2>2 DEF SourceTables
<1> QED
  BY <1>1, <1>2, <1>3 DEF SourceChanges

(* The same of what the invariant knows. *)
LEMMA SourceStep ==
  ASSUME Inv, [Next]_vars
  PROVE  /\ source' \in SourceTables
         /\ SourceChanges \/ source' = source
BY SourceTypedStep, TypeByThread DEF Inv

-----------------------------------------------------------------------------
(* Steps. *)

(* A step that moves nobody and leaves the disk alone is quiet. *)
LEMMA UnmovedIsQuiet ==
  ASSUME Inv, UNCHANGED <<live, dirs, pc, own, run>>
  PROVE  Quiet /\ \A t \in Threads : GoesOn(t)
<1>1. \A t \in Threads : RequestInv(t)
  BY DEF Inv, FilesInv
<1>2. \A t \in Threads : GoesOn(t)
  BY <1>1 DEF GoesOn, Writing, Staging, RequestInv
<1>3. Quiet
  BY DEF Quiet, InUse, Sealed, Pending, SomeoneStages, Staging
<1> QED
  BY <1>2, <1>3

(* What a request has read is kept until its thread is gone. *)
LEMMA KeptOrGone ==
  ASSUME NEW t \in Threads, KeepRequests, ThreadGone(t) \/ GoesOn(t)
  PROVE  Fate(t)
<1>1. req'[t] = IF pc'[t] = "idle" THEN NewRequest ELSE req[t]
  BY DEF KeepRequests
<1>2. GoesOn(t) /\ pc'[t] = "idle" => ~own'[t]
  BY DEF GoesOn, Writing, Staging
<1> QED
  BY <1>1, <1>2 DEF Fate, ThreadGone

(* A request begins, goes on, names its run or is gone. *)
Moves(t) == ThreadGone(t) \/ GoesOn(t) \/ pc'[t] = "scan" \/ BeginRun(t)

(* Every step is quiet, names a run, stages a file or renames one; and     *)
(* whatever it is, each request stays as it should be.                     *)
LEMMA StepKinds ==
  ASSUME J!SingleInstance, Inv, [Next]_vars
  PROVE  /\ \/ Quiet
            \/ \E t \in Threads : BeginRun(t)
            \/ \E t \in Threads : StageNext(t)
            \/ \E a \in J!Actors : J!Replace(a)
         /\ DOMAIN req' = Threads
         /\ \A t \in Threads : ThreadTyped(t)' /\ RequestInv(t)' /\ Moves(t)
<1> DEFINE Kinds == \/ Quiet
                    \/ \E t \in Threads : BeginRun(t)
                    \/ \E t \in Threads : StageNext(t)
                    \/ \E a \in J!Actors : J!Replace(a)
           Kept  == DOMAIN req' = Threads /\ \A t \in Threads : ThreadTyped(t)' /\ RequestInv(t)' /\ Moves(t)
<1>1. DOMAIN req = Threads
  BY TypeByThread DEF Inv
<1>2. ASSUME KeepRequests, \A t \in Threads : ThreadGone(t) \/ GoesOn(t)
      PROVE  Kept
  <2>1. \A t \in Threads : Fate(t)
    BY <1>2, KeptOrGone
  <2> QED
    BY <1>2, <2>1, FateIsKept DEF KeepRequests, Moves
<1>3. ASSUME req' = req, \A t \in Threads : GoesOn(t)
      PROVE  Kept
  BY <1>1, <1>3, FateIsKept DEF Fate, Moves
<1>4. ASSUME NEW t \in Threads, DOMAIN req' = Threads, ThreadTyped(t)' /\ RequestInv(t)', Moves(t),
             \A u \in Threads : u # t => GoesOn(u) /\ req'[u] = req[u]
      PROVE  Kept
  BY <1>4, FateIsKept DEF Fate, Moves
<1>5. CASE SourceChanges \/ UNCHANGED vars
  <2>1. UNCHANGED <<live, dirs, pc, own, run, req>>
    BY <1>5 DEF SourceChanges, Transaction, vars
  <2> QED
    BY <1>3, <2>1, UnmovedIsQuiet
<1>6. CASE \E p \in Procs : Boot(p)
  BY <1>3, <1>6, BootIsQuiet DEF Boot
<1>7. ASSUME NEW t \in Threads, NEW dry \in BOOLEAN, Request(t, dry)
      PROVE  Kinds /\ Kept
  <2>1. /\ Quiet /\ pc'[t] = "scan" /\ ~own'[t]
        /\ \A u \in Threads : u # t => GoesOn(u)
    BY <1>7, AcquireIsQuiet DEF Request
  <2>2. /\ req'[t] = [NewRequest EXCEPT !.dry = dry] /\ DOMAIN req' = Threads
        /\ \A u \in Threads : u # t => req'[u] = req[u]
    BY <1>1, <1>7 DEF Request
  <2>3. ThreadTyped(t)' /\ RequestInv(t)'
    BY <2>1, <2>2, FreshRequest
  <2> QED
    BY <1>4, <2>1, <2>2, <2>3 DEF Moves
<1>8. ASSUME NEW t \in Threads, LoadCheckpoint(t) \/ FetchDelta(t)
      PROVE  Kinds /\ Kept
  <2>1. /\ UNCHANGED <<live, dirs, pc, own, run>>
        /\ DOMAIN req' = Threads /\ \A u \in Threads : u # t => req'[u] = req[u]
    BY <1>1, <1>8 DEF LoadCheckpoint, FetchDelta
  <2>2. ThreadTyped(t)' /\ RequestInv(t)'
    BY <1>8, LoadingIsKept, FetchingIsKept
  <2> QED
    BY <1>4, <2>1, <2>2, UnmovedIsQuiet DEF Moves
<1>9. ASSUME NEW t \in Threads, BeginRun(t)
      PROVE  Kinds /\ Kept
  <2>1. ThreadTyped(t)' /\ RequestInv(t)' /\ req' = req /\ live' = live
    BY <1>9, BeginningIsKept DEF BeginRun, J!BeginRun
  <2>2. ASSUME NEW u \in Threads, u # t
        PROVE  GoesOn(u)
    <3>1. pc'[u] = pc[u] /\ own'[u] = own[u] /\ run'[u] = run[u] /\ RequestInv(u)
      BY <1>9, <2>2, BeginningIsKept DEF J!Actors, Inv, FilesInv
    <3> QED
      BY <2>1, <3>1 DEF GoesOn, Writing, Staging, RequestInv
  <2> QED
    BY <1>1, <1>4, <1>9, <2>1, <2>2 DEF Moves
<1>10. ASSUME NEW t \in Threads, StageNext(t)
       PROVE  Kinds /\ Kept
  <2>1. req' = req
    BY <1>10 DEF StageNext
  <2> QED
    BY <1>3, <1>10, <2>1, StagingGoesOn
<1>11. CASE \/ \E t \in Threads : ReturnDry(t) \/ SourceFails(t)
            \/ J!Fault /\ KeepRequests
  <2>1. /\ KeepRequests
        /\ \/ \E a \in J!Actors : J!Raise(a) \/ J!OSError(a) \/ J!ReturnDry(a)
           \/ \E p \in Procs : J!Crash(p)
    BY <1>11 DEF ReturnDry, SourceFails, J!Fault, J!Actors
  <2> QED
    BY <1>2, <2>1, FailingIsQuiet
<1>12. ASSUME NEW a \in J!Actors, J!Work(a), KeepRequests
       PROVE  Kinds /\ Kept
  <2>1. CASE J!Sweep(a)
    BY <1>2, <1>12, <2>1, SweepIsQuiet
  <2>2. CASE J!Execute(a)
    BY <1>2, <1>12, <2>2, ExecuteIsQuiet
  <2>3. CASE J!Remove(a)
    BY <1>2, <1>12, <2>3, RemoveIsQuiet
  <2>4. CASE J!Raise(a)
    BY <1>2, <1>12, <2>4, FailingIsQuiet
  <2> QED
    BY <1>12, <2>1, <2>2, <2>3, <2>4 DEF J!Work
<1> QED
  <2>1. CASE Next
    BY <1>5, <1>6, <1>7, <1>8, <1>9, <1>10, <1>11, <1>12, <2>1
       DEF Next, Ingest, Work, Fault
  <2> QED
    BY <1>5, <2>1

-----------------------------------------------------------------------------
(* Directories and live files. *)

FilesFit == \A f \in DOMAIN live : LiveFits(f)

BatchesFit == \A r \in DOMAIN dirs : InUse(r) => BatchInv(r)

(* What a run's outputs are. *)
LEMMA OutputKinds ==
  ASSUME NEW r \in RunIds, NEW f \in OutputsOf(r)
  PROVE  \/ f[1] = "lake" /\ f[2] \in Tables /\ f = LakeFile(f[2], f[3])
              /\ \E row \in Range(r.tables[f[2]]) : f[3] = DayOf[row.at]
         \/ f[1] = "share" /\ f[2] \in Tables /\ f = ShareFile(f[2]) /\ r.tables[f[2]] # << >>
         \/ f[1] = "events" /\ f[2] = r /\ f = EventsFile(r)
         \/ f[1] = "checkpoint" /\ f = CheckpointFile
<1>1. CASE \E t \in Tables : f \in Partitions(t, r.tables[t])
  BY <1>1 DEF Partitions, LakeFile
<1>2. CASE f \in {ShareFile(t) : t \in {u \in Tables : r.tables[u] # << >>}}
  BY <1>2 DEF ShareFile
<1>3. CASE f \in {EventsFile(r), CheckpointFile}
  BY <1>3 DEF EventsFile, CheckpointFile
<1> QED
  BY <1>1, <1>2, <1>3 DEF OutputsOf

(* A live file fits as long as nobody writes over it. *)
LEMMA StillLive ==
  ASSUME NEW f \in Files, LiveFits(f), live'[f] = live[f]
  PROVE  LiveFits(f)'
<1>1. CASE f[1] = "lake"
  BY <1>1 DEF LiveFits
<1>2. CASE f[1] = "share"
  BY <1>2 DEF LiveFits
<1>3. CASE f[1] = "events"
  BY <1>3 DEF LiveFits
<1>4. CASE f[1] = "checkpoint"
  BY <1>4 DEF LiveFits
<1> QED
  BY <1>1, <1>2, <1>3, <1>4, FileKinds

(* A staged file fits as long as nobody writes over the live one.          *)
LEMMA StillFits ==
  ASSUME NEW r \in RunIds, NEW f \in OutputsOf(r), NEW c, Fits(r, f, c),
         f \in DOMAIN live' <=> f \in DOMAIN live,
         f \in DOMAIN live => live'[f] = live[f]
  PROVE  Fits(r, f, c)'
<1>1. CASE f[1] = "lake"
  <2>1. /\ OfItsDay(f, c)
        /\ DayRows(r, f) \subseteq Range(c)
        /\ f \in DOMAIN live => IsPrefix(live[f], c)
        /\ \A row \in Range(c) \ DayRows(r, f) : f \in DOMAIN live /\ row \in Range(live[f])
    BY <1>1 DEF Fits
  <2>2. f \in DOMAIN live' => IsPrefix(live'[f], c)
    BY <2>1
  <2> QED
    BY <1>1, <2>1, <2>2 DEF Fits
<1>2. CASE f[1] = "share"
  BY <1>2 DEF Fits
<1>3. CASE f[1] = "events"
  BY <1>3 DEF Fits
<1>4. CASE f[1] = "checkpoint"
  BY <1>4 DEF Fits
<1> QED
  BY <1>1, <1>2, <1>3, <1>4, OutputKinds

(* A published file stays so as long as nobody writes over it. *)
LEMMA StillPublished ==
  ASSUME NEW r \in RunIds, NEW f \in OutputsOf(r), Published(r, f),
         f \in DOMAIN live', live'[f] = live[f]
  PROVE  Published(r, f)'
<1>1. CASE f[1] = "lake"
  <2>1. DayRows(r, f) \subseteq Range(live'[f])
    BY <1>1 DEF Published
  <2> QED
    BY <1>1, <2>1 DEF Published
<1>2. CASE f[1] = "share"
  BY <1>2 DEF Published
<1>3. CASE f[1] = "events"
  BY <1>3 DEF Published
<1>4. CASE f[1] = "checkpoint"
  BY <1>4 DEF Published
<1> QED
  BY <1>1, <1>2, <1>3, <1>4, OutputKinds

(* The live files and the run directories have names. *)
LEMMA NamesInUse ==
  ASSUME Inv
  PROVE  DOMAIN live \subseteq Files /\ DOMAIN dirs \subseteq RunIds
BY DEF Inv, J!TypeOK, J!Partial

(* After a quiet step everything fits as it did. *)
LEMMA QuietFits ==
  ASSUME Inv, Quiet
  PROVE  FilesFit' /\ BatchesFit'
<1>1. live' = live /\ LiveCheckpoint' = LiveCheckpoint
  BY DEF Quiet, LiveCheckpoint
<1>3. ASSUME NEW f \in DOMAIN live
      PROVE  LiveFits(f)'
  <2>1. LiveFits(f)
    BY DEF Inv, FilesInv
  <2> QED
    BY <1>1, <2>1, NamesInUse, StillLive
<1>4. ASSUME NEW r \in DOMAIN dirs', InUse(r)'
      PROVE  BatchInv(r)'
  <2>1. /\ r \in DOMAIN dirs /\ InUse(r) /\ dirs'[r].files = dirs[r].files
        /\ Sealed(r)' => Sealed(r)
        /\ Pending(r)' \/ SomeoneStages' => Pending(r) \/ SomeoneStages
    BY <1>4 DEF Quiet
  <2>2. BatchInv(r)
    BY <2>1 DEF Inv, FilesInv
  <2>3. /\ r \in RunIds
        /\ \A c : \A f \in OutputsOf(r) : Fits(r, f, c) => Fits(r, f, c)'
        /\ \A f \in OutputsOf(r) : Published(r, f) => Published(r, f)'
    <3>1. r \in RunIds
      BY <2>1, NamesInUse
    <3>2. \A c : \A f \in OutputsOf(r) : Fits(r, f, c) => Fits(r, f, c)'
      BY <1>1, <3>1, StillFits
    <3>3. \A f \in OutputsOf(r) : Published(r, f) => f \in DOMAIN live
      BY DEF Published
    <3> QED
      BY <1>1, <3>1, <3>2, <3>3, StillPublished
  <2>4. Pending(r)' \/ (\E t \in Threads : Staging(t))' => r.before = LiveCheckpoint'
    BY <1>1, <2>1, <2>2 DEF BatchInv, SomeoneStages
  <2>5. (\A f \in DOMAIN dirs[r].files : f \in OutputsOf(r) /\ Fits(r, f, dirs[r].files[f]))'
    BY <2>1, <2>2, <2>3 DEF BatchInv
  <2>6. (dirs'[r].ready \/ \E t \in Threads : own'[t] /\ pc'[t] # "stage") =>
          \A f \in OutputsOf(r) : f \in DOMAIN dirs'[r].files \/ Published(r, f)'
    BY <2>1, <2>2, <2>3 DEF BatchInv, Sealed
  <2> QED
    BY <2>2, <2>4, <2>5, <2>6 DEF BatchInv
<1> QED
  BY <1>1, <1>3, <1>4 DEF FilesFit, BatchesFit

(* Naming the run makes an empty directory. *)
LEMMA BeginningFits ==
  ASSUME J!SingleInstance, Inv, NEW t \in Threads, BeginRun(t)
  PROVE  FilesFit' /\ BatchesFit'
<1>0. PICK r : r = IdOf(t)
  OBVIOUS
<1>1. /\ pc[t] = "prepare" /\ t \in J!Actors /\ Fetched(t) /\ RequestInv(t) /\ TypeOK
      /\ UNCHANGED <<live>>
  BY DEF BeginRun, J!BeginRun, J!Actors, Inv, FilesInv
<1>2. DOMAIN dirs = {}
  BY <1>1 DEF Inv, J!JournalInv, J!ActorInv
<1>3. DOMAIN dirs' = {r} /\ dirs'[r] = J!NewDir
  BY <1>0, <1>2 DEF BeginRun, J!BeginRun, J!SetDir, J!DirOf, J!Put
<1>4. DOMAIN dirs'[r].files = {} /\ ~dirs'[r].ready
  <2>1. dirs'[r].files = << >> /\ dirs'[r].ready = FALSE
    BY <1>3 DEF J!NewDir
  <2> QED
    BY <2>1
<1>5. /\ r \in RunIds /\ r.before = req[t].before /\ req[t].before \in Checkpoints /\ InSequence(r)
  BY <1>0, <1>1, RequestKnows
<1>6. LiveCheckpoint' = LiveCheckpoint /\ r.before = LiveCheckpoint
  <2>1. req[t].before # << >>
    <3>1. DOMAIN req[t].before = Tables /\ DOMAIN << >> = {}
      BY <1>5 DEF Checkpoints
    <3> QED
      BY <3>1, ServiceAssumption
  <2> QED
    BY <1>1, <1>5, <2>1 DEF RequestInv, LiveCheckpoint
<1>7. \A u \in Threads : own'[u] => pc'[u] = "stage"
  <2>1. \A u \in Threads : u # t => ~own[u]
    BY <1>1, OneAtWork DEF J!Actors
  <2>2. pc'[t] = "stage" /\ \A u \in Threads : u # t => own'[u] = own[u]
    BY BeginningIsKept DEF J!Actors
  <2> QED
    BY <2>1, <2>2
<1>8. BatchInv(r)'
  <2>1. ~(\E u \in Threads : own'[u] /\ pc'[u] # "stage")
    BY <1>7
  <2> QED
    BY <1>4, <1>5, <1>6, <2>1 DEF BatchInv
<1>9. ASSUME NEW f \in DOMAIN live
      PROVE  LiveFits(f)'
  <2>1. LiveFits(f)
    BY DEF Inv, FilesInv
  <2> QED
    BY <1>1, <2>1, NamesInUse, StillLive
<1> QED
  BY <1>1, <1>3, <1>8, <1>9 DEF FilesFit, BatchesFit

(* The last file to be staged is the checkpoint. *)
LEMMA CheckpointStagedLast ==
  ASSUME NEW r \in RunIds, NEW f \in OutputsOf(r), NEW rest \in SUBSET OutputsOf(r),
         \A g \in rest : g = f \/ Precedes(f, g), f = CheckpointFile
  PROVE  \A g \in rest : g = f
<1>1. f[1] = "checkpoint" /\ KindOrder["checkpoint"] = 4
  BY NameParts DEF KindOrder
<1>2. \A g \in rest : g[1] \in {"lake", "share", "events", "checkpoint"}
  BY OutputKinds
<1>3. \A g \in rest : ~(KindOrder[f[1]] < KindOrder[g[1]])
  BY <1>1, <1>2 DEF KindOrder
<1>4. \A g \in rest : ~Precedes(f, g)
  BY <1>1, <1>3 DEF Precedes
<1> QED
  BY <1>4

(* Staging a file. *)
LEMMA StagingFits ==
  ASSUME J!SingleInstance, Inv, NEW t \in Threads, StageNext(t)
  PROVE  FilesFit' /\ BatchesFit'
<1>0. PICK r : r = run[t]
  OBVIOUS
<1>1. PICK f \in OutputsOf(r) \ Range(steps[t]), c \in Contents :
        /\ f \in Files
        /\ \A g \in OutputsOf(r) \ Range(steps[t]) : g = f \/ Precedes(f, g)
        /\ Fits(r, f, c)
        /\ J!StageFile(t, f, c)
  BY <1>0, StagingNext
<1>2. /\ Staging(t) /\ pc[t] = "stage" /\ live' = live /\ own' = own /\ t \in J!Actors
  BY <1>1 DEF Staging, J!StageFile, J!Actors
<1>3. /\ DOMAIN dirs = {r} /\ ~dirs[r].ready /\ r \in RunIds
      /\ DOMAIN dirs[r].files = Range(steps[t])
      /\ BatchInv(r) /\ r.before = LiveCheckpoint
      /\ \A x : ~Pending(x)
  BY <1>0, <1>2, StagingAlone
<1>14. PICK new : new = J!Put(dirs[r].files, f, c)
  OBVIOUS
<1>4. DOMAIN dirs' = {r} /\ dirs'[r] = [dirs[r] EXCEPT !.files = new]
  <2>1. J!SetDir(r, [dirs[r] EXCEPT !.files = new])
    BY <1>0, <1>1, <1>3, <1>14, OnlyDirType DEF J!StageFile
  <2> QED
    BY <1>3, <2>1, SettingOnlyDir
<1>5. dirs'[r].files = new /\ ~dirs'[r].ready
  <2> QED
    BY <1>3, <1>4, OnlyDirType
<1>6. /\ DOMAIN new = Range(steps[t]) \cup {f}
      /\ new[f] = c /\ \A g \in Range(steps[t]) : new[g] = dirs[r].files[g]
  BY <1>1, <1>3, <1>14 DEF J!Put
<1>7. LiveCheckpoint' = LiveCheckpoint
  BY <1>2 DEF LiveCheckpoint
<1>8. \A d : \A g \in OutputsOf(r) : Fits(r, g, d) => Fits(r, g, d)'
  BY <1>2, <1>3, StillFits
<1>9. \A g \in DOMAIN new : g \in OutputsOf(r) /\ Fits(r, g, new[g])'
  BY <1>1, <1>3, <1>6, <1>8 DEF BatchInv
<1>10. ASSUME NEW u \in Threads, own'[u], pc'[u] # "stage"
       PROVE  \A g \in OutputsOf(r) : g \in DOMAIN new
  <2>1. u = t
    BY <1>2, <1>10, OneAtWork DEF J!Actors
  <2>2. pc'[t] = IF f = CheckpointFile THEN "plan" ELSE "stage"
    BY <1>1, <1>2 DEF J!StageFile, J!Goto, Inv, J!TypeOK
  <2>3. f = CheckpointFile
    BY <1>10, <2>1, <2>2
  <2>4. \A g \in OutputsOf(r) \ Range(steps[t]) : g = f
    <3> DEFINE rest == OutputsOf(r) \ Range(steps[t])
    <3>1. rest \in SUBSET OutputsOf(r) /\ \A g \in rest : g = f \/ Precedes(f, g)
      BY <1>1
    <3> HIDE DEF rest
    <3>2. \A g \in rest : g = f
      BY <1>1, <1>3, <2>3, <3>1, CheckpointStagedLast
    <3> QED
      BY <3>2 DEF rest
  <2> QED
    BY <1>6, <2>4
<1>11. BatchInv(r)'
  <2>1. InSequence(r)
    BY <1>3 DEF BatchInv
  <2>2. (dirs'[r].ready \/ \E u \in Threads : own'[u] /\ pc'[u] # "stage") =>
          \A g \in OutputsOf(r) : g \in DOMAIN dirs'[r].files \/ Published(r, g)'
    BY <1>5, <1>10
  <2> QED
    BY <1>3, <1>5, <1>7, <1>9, <2>1, <2>2 DEF BatchInv
<1>12. ASSUME NEW g \in DOMAIN live
       PROVE  LiveFits(g)'
  <2>1. LiveFits(g)
    BY DEF Inv, FilesInv
  <2> QED
    BY <1>2, <2>1, NamesInUse, StillLive
<1>13. \A x \in DOMAIN dirs' : x = r
  BY <1>4
<1> QED
  BY <1>2, <1>11, <1>12, <1>13 DEF FilesFit, BatchesFit

(* The run whose files are being renamed is the only one, its checkpoint   *)
(* is still to come and follows the live one.                              *)
LEMMA RenamingAlone ==
  ASSUME J!SingleInstance, Inv, NEW a \in J!Actors, J!Replace(a)
  PROVE  /\ run[a] \in RunIds /\ DOMAIN dirs = {run[a]}
         /\ InUse(run[a]) /\ Pending(run[a]) /\ BatchInv(run[a])
         /\ run[a].before = LiveCheckpoint
         /\ Head(steps[a]) \in DOMAIN dirs[run[a]].files /\ Head(steps[a]) \in OutputsOf(run[a])
         /\ DOMAIN dirs[run[a]].files \subseteq Range(steps[a])
         /\ J!CheckpointAtEnd(steps[a])
         /\ steps[a] \in Seq(Files) /\ steps[a] # << >>
         /\ InRankOrder(steps[a])
<1>1. /\ pc[a] = "replace" /\ J!ActorInv(a)
      /\ steps[a] \in Seq(Files) /\ steps[a] # << >>
      /\ DOMAIN dirs \subseteq RunIds
  BY DEF J!Replace, Inv, J!JournalInv, J!TypeOK
<1>2. /\ J!ExecuteInv(a) /\ DOMAIN dirs = {run[a]} /\ dirs[run[a]].ready
      /\ Head(steps[a]) \in DOMAIN dirs[run[a]].files
  BY <1>1 DEF J!ActorInv, J!ExecuteInv, J!Staged
<1>3. CheckpointFile \in DOMAIN dirs[run[a]].files
  BY <1>2 DEF Inv, J!JournalInv, J!DirsInv, J!ReadyIsReplayable, J!Staged
<1>4. InUse(run[a]) /\ Pending(run[a]) /\ BatchInv(run[a])
  BY <1>2, <1>3 DEF InUse, Pending, Inv, FilesInv
<1>5. InRankOrder(steps[a])
  BY <1>1 DEF Inv, FilesInv, OrderInv
<1> QED
  BY <1>1, <1>2, <1>4, <1>5 DEF BatchInv, J!ExecuteInv, J!Staged, J!Range, Range

(* Renaming a file. *)
LEMMA RenamingFits ==
  ASSUME J!SingleInstance, Inv, NEW a \in J!Actors, J!Replace(a)
  PROVE  FilesFit' /\ BatchesFit'
<1>1. PICK r : r = run[a]
  OBVIOUS
<1>2. PICK f : f = Head(steps[a])
  OBVIOUS
<1>3. PICK old : old = dirs[r].files
  OBVIOUS
<1>4. /\ r \in RunIds /\ DOMAIN dirs = {r} /\ Pending(r) /\ BatchInv(r) /\ r.before = LiveCheckpoint
      /\ f \in DOMAIN old /\ f \in OutputsOf(r) /\ dirs[r].ready
  BY <1>1, <1>2, <1>3, RenamingAlone DEF Pending
<1>5. live' = J!Put(live, f, old[f])
  BY <1>1, <1>2, <1>3 DEF J!Replace
<1>6. /\ DOMAIN live' = DOMAIN live \cup {f} /\ live'[f] = old[f]
      /\ \A g \in DOMAIN live : g # f => live'[g] = live[g]
  BY <1>5 DEF J!Put
<1>7. PICK new : new = J!Drop(old, f)
  OBVIOUS
<1>8. DOMAIN dirs' = {r} /\ dirs'[r] = [dirs[r] EXCEPT !.files = new]
  <2>1. J!SetDir(r, [dirs[r] EXCEPT !.files = new])
    BY <1>1, <1>2, <1>3, <1>7 DEF J!Replace
  <2> QED
    BY <1>4, <2>1, SettingOnlyDir
<1>9. dirs'[r].files = new /\ dirs'[r].ready
  BY <1>4, <1>8, OnlyDirType
<1>10. DOMAIN new = DOMAIN old \ {f} /\ \A g \in DOMAIN new : new[g] = old[g]
  BY <1>7 DEF J!Drop, J!Restrict
<1>11. /\ InSequence(r)
       /\ \A g \in DOMAIN old : g \in OutputsOf(r) /\ Fits(r, g, old[g])
       /\ \A g \in OutputsOf(r) : g \in DOMAIN old \/ Published(r, g)
  BY <1>3, <1>4 DEF BatchInv
<1>13. f = CheckpointFile => LiveCheckpoint' = AfterOf(r)
  <2>1. ASSUME f = CheckpointFile
        PROVE  old[f] = AfterOf(r)
    <3>1. Fits(r, f, old[f])
      BY <1>4, <1>11
    <3> QED
      BY <2>1, <3>1, NameParts DEF Fits
  <2> QED
    BY <1>6, <2>1 DEF LiveCheckpoint
<1>14. f # CheckpointFile => LiveCheckpoint' = LiveCheckpoint
  BY <1>6 DEF LiveCheckpoint
<1>18. LiveFits(f)' /\ Published(r, f)'
  <2>1. Fits(r, f, old[f])
    BY <1>4, <1>11
  <2>2. CASE f[1] = "lake"
    <3>1. OfItsDay(f, old[f]) /\ DayRows(r, f) \subseteq Range(old[f])
      BY <2>1, <2>2 DEF Fits
    <3> QED
      BY <1>6, <2>2, <3>1 DEF LiveFits, Published
  <2>3. CASE f[1] = "share"
    <3>1. live'[f] = ShareOf(r, f[2])
      BY <1>6, <2>1, <2>3 DEF Fits
    <3>2. live'[f].run = r
      BY <3>1 DEF ShareOf
    <3> QED
      BY <1>4, <1>6, <2>3, <3>1, <3>2 DEF LiveFits, Published
  <2>4. CASE f[1] = "events"
    <3>1. live'[f] = EventsOf(r)
      BY <1>6, <2>1, <2>4 DEF Fits
    <3>2. f[2] = r
      BY <1>4, <2>4, OutputKinds
    <3> QED
      BY <1>6, <2>4, <3>1, <3>2 DEF LiveFits, Published
  <2>5. CASE f[1] = "checkpoint"
    <3>1. live'[f] = AfterOf(r) /\ AfterOf(r) \in Checkpoints
      BY <1>4, <1>6, <2>1, <2>5, RunIdParts DEF Fits
    <3> QED
      BY <1>6, <2>5, <3>1 DEF LiveFits, Published
  <2> QED
    BY <1>4, <2>2, <2>3, <2>4, <2>5, OutputKinds
<1>19. ASSUME NEW g \in DOMAIN live, g # f
       PROVE  LiveFits(g)'
  <2>1. LiveFits(g) /\ g \in Files
    BY NamesInUse DEF Inv, FilesInv
  <2> QED
    BY <1>6, <1>19, <2>1, StillLive
<1>20. BatchInv(r)'
  <2>1. Pending(r)' => r.before = LiveCheckpoint'
    <3>1. Pending(r)' => f # CheckpointFile
      BY <1>9, <1>10 DEF Pending
    <3> QED
      BY <1>4, <1>14, <3>1
  <2>2. ~SomeoneStages'
    <3>1. pc'[a] = "execute" /\ \A b \in J!Actors : b # a => pc'[b] = pc[b]
      BY DEF J!Replace, J!Goto, Inv, J!TypeOK
    <3>2. \A b \in J!Actors : b # a => pc[b] = "idle"
      BY OneAtWork DEF J!Replace
    <3> QED
      BY <3>1, <3>2 DEF SomeoneStages, Staging, J!Actors
  <2>3. ASSUME NEW g \in DOMAIN new
        PROVE  g \in OutputsOf(r) /\ Fits(r, g, new[g])'
    <3>1. g # f /\ g \in OutputsOf(r) /\ Fits(r, g, new[g])
      BY <1>10, <1>11
    <3>2. /\ g \in DOMAIN live' <=> g \in DOMAIN live
          /\ g \in DOMAIN live => live'[g] = live[g]
      BY <1>6, <3>1
    <3> QED
      BY <1>4, <3>1, <3>2, StillFits
  <2>4. ASSUME NEW g \in OutputsOf(r)
        PROVE  g \in DOMAIN new \/ Published(r, g)'
    <3>1. CASE g = f
      BY <1>18, <3>1
    <3>2. CASE g # f /\ g \in DOMAIN old
      BY <1>10, <3>2
    <3>3. CASE g # f /\ Published(r, g)
      <4>1. g \in DOMAIN live
        BY <3>3 DEF Published
      <4> QED
        BY <1>4, <1>6, <3>3, <4>1, StillPublished
    <3> QED
      BY <1>11, <3>1, <3>2, <3>3
  <2>5. \A g \in DOMAIN dirs'[r].files : g \in OutputsOf(r) /\ Fits(r, g, new[g])'
    BY <1>9, <2>3
  <2>6. (\A g \in DOMAIN dirs[r].files : g \in OutputsOf(r) /\ Fits(r, g, dirs[r].files[g]))'
    BY <1>9, <2>5
  <2>7. \A g \in OutputsOf(r) : g \in DOMAIN dirs'[r].files \/ Published(r, g)'
    BY <1>9, <2>4
  <2> QED
    BY <1>11, <2>1, <2>2, <2>6, <2>7 DEF BatchInv, SomeoneStages
<1>21. \A g \in DOMAIN live' : LiveFits(g)'
  BY <1>6, <1>18, <1>19
<1>22. \A x \in DOMAIN dirs' : BatchInv(x)'
  BY <1>8, <1>20
<1> QED
  BY <1>21, <1>22 DEF FilesFit, BatchesFit

-----------------------------------------------------------------------------
(* The order of the renames. *)

PlansInOrder ==
  \A r \in DOMAIN dirs : InUse(r) /\ dirs[r].plan # NoPlan => InRankOrder(dirs[r].plan)

StepsInOrder(a) == Staging(a) \/ pc[a] \in {"execute", "replace"} => InRankOrder(steps[a])

RestComesLater(a) ==
  pc[a] = "stage" =>
    \A f \in Range(steps[a]), g \in OutputsOf(run[a]) \ Range(steps[a]) : Rank(f) <= Rank(g)

(* What a step may do to an actor's list of files. *)
ListKept(a) ==
  \/ ~Staging(a)' /\ pc'[a] \notin {"execute", "replace"}
  \/ /\ steps'[a] = steps[a]
     /\ Staging(a) \/ pc[a] \in {"execute", "replace"}
     /\ pc'[a] = "stage" => pc[a] = "stage" /\ run'[a] = run[a]
  \/ pc'[a] # "stage" /\ InRankOrder(steps'[a])

(* A list of files in order, without its head.                             *)
LEMMA TailInOrder ==
  ASSUME NEW s \in Seq(Files), s # << >>, InRankOrder(s)
  PROVE  InRankOrder(Tail(s))
<1>1. /\ Len(s) \in Nat /\ Len(s) >= 1 /\ DOMAIN s = 1..Len(s)
      /\ DOMAIN Tail(s) = 1..(Len(s) - 1) /\ \A i \in DOMAIN Tail(s) : Tail(s)[i] = s[i + 1]
  OBVIOUS
<1>2. ASSUME NEW i \in DOMAIN Tail(s), NEW j \in DOMAIN Tail(s), i < j
      PROVE  Rank(Tail(s)[i]) <= Rank(Tail(s)[j])
  <2>1. i + 1 \in DOMAIN s /\ j + 1 \in DOMAIN s /\ i + 1 < j + 1
    BY <1>1, <1>2
  <2>2. Rank(s[i + 1]) <= Rank(s[j + 1])
    BY <2>1 DEF InRankOrder
  <2> QED
    BY <1>1, <2>2
<1> QED
  BY <1>2 DEF InRankOrder

(* One more file that comes after all that are there. *)
LEMMA AppendInOrder ==
  ASSUME NEW s \in Seq(Files), InRankOrder(s), NEW f \in Files, \A g \in Range(s) : Rank(g) <= Rank(f)
  PROVE  InRankOrder(Append(s, f)) /\ Range(Append(s, f)) = Range(s) \cup {f}
<1> DEFINE new == Append(s, f)
<1>1. /\ Len(s) \in Nat /\ DOMAIN s = 1..Len(s)
      /\ DOMAIN new = 1..(Len(s) + 1) /\ new[Len(s) + 1] = f
      /\ \A i \in 1..Len(s) : new[i] = s[i]
  OBVIOUS
<1>2. 1..(Len(s) + 1) = 1..Len(s) \cup {Len(s) + 1}
  BY <1>1
<1> HIDE DEF new
<1>3. Range(new) = Range(s) \cup {f}
  BY <1>1, <1>2 DEF Range
<1>4. ASSUME NEW i \in DOMAIN new, NEW j \in DOMAIN new, i < j
      PROVE  Rank(new[i]) <= Rank(new[j])
  <2>1. i \in 1..Len(s) /\ new[i] = s[i] /\ s[i] \in Range(s)
    BY <1>1, <1>4 DEF Range
  <2>2. CASE j \in 1..Len(s)
    <3>1. Rank(s[i]) <= Rank(s[j])
      BY <1>1, <1>4, <2>1, <2>2 DEF InRankOrder
    <3> QED
      BY <1>1, <2>1, <2>2, <3>1
  <2>3. CASE j = Len(s) + 1
    BY <1>1, <2>1, <2>3
  <2> QED
    BY <1>1, <1>2, <2>2, <2>3
<1> QED
  BY <1>3, <1>4 DEF InRankOrder, new

(* An actor's list that is kept is in order. *)
LEMMA KeptInOrder ==
  ASSUME Inv, NEW a \in J!Actors, ListKept(a)
  PROVE  StepsInOrder(a)' /\ RestComesLater(a)'
<1>1. StepsInOrder(a) /\ RestComesLater(a)
  BY DEF Inv, FilesInv, OrderInv, StepsInOrder, RestComesLater
<1> QED
  BY <1>1 DEF ListKept, StepsInOrder, RestComesLater, Staging

(* While one actor moves, the others' lists are kept. *)
LEMMA OthersKept ==
  ASSUME Inv, NEW a, NEW label, J!Goto(a, label), ListKept(a),
         \A b \in J!Actors : b # a => steps'[b] = steps[b] /\ run'[b] = run[b]
  PROVE  \A b \in J!Actors : ListKept(b)
<1>1. \A b \in J!Actors : b # a => pc'[b] = pc[b]
  BY DEF J!Goto, Inv, J!TypeOK
<1> QED
  BY <1>1 DEF ListKept, Staging

(* After a quiet step that writes no plan all plans are in order. *)
LEMMA SamePlans ==
  ASSUME Inv, Quiet, \A r \in DOMAIN dirs' : r \in DOMAIN dirs => dirs'[r].plan \in {dirs[r].plan, NoPlan}
  PROVE  PlansInOrder'
<1>1. PlansInOrder
  BY DEF Inv, FilesInv, OrderInv, PlansInOrder
<1>2. \A r \in DOMAIN dirs' : InUse(r)' => r \in DOMAIN dirs /\ InUse(r)
  BY DEF Quiet
<1> QED
  BY <1>1, <1>2 DEF PlansInOrder

(* The lists during a sweep. *)
LEMMA SweepInOrder ==
  ASSUME J!SingleInstance, Inv, NEW a \in J!Actors, J!Sweep(a)
  PROVE  PlansInOrder' /\ \A b \in J!Actors : ListKept(b)
<1> USE DEF J!disk, J!memory
<1>1. /\ run \in [J!Actors -> RunIds \cup {NoRun}] /\ steps \in [J!Actors -> Seq(Files)]
      /\ pc \in [J!Actors -> J!Labels]
      /\ PlansInOrder
  BY DEF Inv, FilesInv, OrderInv, J!TypeOK, PlansInOrder
<1>2. dirs' = dirs
  BY DEF J!Sweep, J!Scan, J!ResumeReady, J!ResumeDiscard, J!ResumeDone
<1>3. PlansInOrder'
  BY <1>2, SweepIsQuiet, SamePlans
<1>4. ASSUME NEW label, J!Goto(a, label), label \notin {"stage", "plan", "ready", "execute", "replace"},
             \A b \in J!Actors : b # a => steps'[b] = steps[b] /\ run'[b] = run[b]
      PROVE  \A b \in J!Actors : ListKept(b)
  <2>1. pc'[a] = label
    BY <1>1, <1>4 DEF J!Goto
  <2>2. ListKept(a)
    BY <1>4, <2>1 DEF ListKept, Staging
  <2> QED
    BY <1>4, <2>2, OthersKept
<1>5. CASE J!Scan(a)
  BY <1>3, <1>4, <1>5 DEF J!Scan
<1>6. ASSUME NEW r \in todo[a], J!ResumeReady(a, r)
      PROVE  \A b \in J!Actors : ListKept(b)
  <2>1. InUse(r) /\ r \in DOMAIN dirs /\ dirs[r].plan # NoPlan
    BY <1>6 DEF J!ResumeReady, J!IsReady, J!HasPlan, InUse
  <2>2. /\ J!Goto(a, "execute") /\ pc'[a] = "execute"
        /\ steps'[a] = dirs[r].plan
        /\ \A b \in J!Actors : b # a => steps'[b] = steps[b] /\ run'[b] = run[b]
    BY <1>1, <1>6 DEF J!ResumeReady, J!Goto
  <2>3. ListKept(a)
    BY <1>1, <2>1, <2>2 DEF PlansInOrder, ListKept
  <2> QED
    BY <2>2, <2>3, OthersKept
<1>7. ASSUME NEW r \in todo[a], J!ResumeDiscard(a, r)
      PROVE  \A b \in J!Actors : ListKept(b)
  <2>1. J!Goto(a, "discard") /\ \A b \in J!Actors : b # a => steps'[b] = steps[b] /\ run'[b] = run[b]
    BY <1>1, <1>7 DEF J!ResumeDiscard
  <2> QED
    BY <1>4, <2>1
<1>8. CASE J!ResumeDone(a)
  <2>1. CASE J!Leave(a, "serving")
    <3>1. J!Goto(a, "idle") /\ \A b \in J!Actors : b # a => steps'[b] = steps[b] /\ run'[b] = run[b]
      BY <1>1, <2>1 DEF J!Leave
    <3> QED
      BY <1>3, <1>4, <3>1
  <2>2. CASE J!Goto(a, "prepare") /\ UNCHANGED <<steps, run>>
    BY <1>3, <1>4, <2>2
  <2> QED
    BY <1>8, <2>1, <2>2 DEF J!ResumeDone
<1> QED
  BY <1>3, <1>5, <1>6, <1>7, <1>8 DEF J!Sweep

(* The lists while a plan is written, sealed and executed. *)
LEMMA ExecuteInOrder ==
  ASSUME J!SingleInstance, Inv, NEW a \in J!Actors, J!Execute(a)
  PROVE  PlansInOrder' /\ \A b \in J!Actors : ListKept(b)
<1> USE DEF J!disk, J!memory
<1>1. /\ run \in [J!Actors -> RunIds \cup {NoRun}] /\ steps \in [J!Actors -> Seq(Files)]
      /\ pc \in [J!Actors -> J!Labels]
      /\ PlansInOrder /\ StepsInOrder(a)
      /\ pc[a] = "replace" => steps[a] # << >>
  BY DEF Inv, FilesInv, OrderInv, J!TypeOK, PlansInOrder, StepsInOrder
<1>2. ASSUME NEW label, J!Goto(a, label), label # "stage", pc'[a] = label => ListKept(a),
             \A b \in J!Actors : b # a => steps'[b] = steps[b] /\ run'[b] = run[b]
      PROVE  \A b \in J!Actors : ListKept(b)
  <2>1. pc'[a] = label
    BY <1>1, <1>2 DEF J!Goto
  <2> QED
    BY <1>2, <2>1, OthersKept
<1>3. ASSUME pc[a] \in {"plan", "ready"}
      PROVE  Staging(a) /\ a \in Threads
  <2>1. a \in Procs => pc[a] \notin {"plan", "ready"}
    BY DEF Inv, J!JournalInv, J!LockInv
  <2> QED
    BY <1>3, <2>1 DEF Staging, J!Actors
<1>4. CASE J!WritePlan(a)
  <2>1. \A b \in J!Actors : ListKept(b)
    BY <1>2, <1>4 DEF J!WritePlan, ListKept, Staging
  <2>2. DOMAIN dirs = {run[a]} /\ Staging(a)
    BY <1>3, <1>4, StagingAlone DEF J!WritePlan
  <2>3. J!DirOf(run[a]) = dirs[run[a]]
    BY <2>2, OnlyDirType
  <2>4. J!SetDir(run[a], [dirs[run[a]] EXCEPT !.plan = steps[a]])
    BY <1>4, <2>3 DEF J!WritePlan
  <2>5. DOMAIN dirs' = {run[a]} /\ dirs'[run[a]] = [dirs[run[a]] EXCEPT !.plan = steps[a]]
    BY <2>2, <2>4, SettingOnlyDir
  <2>6. dirs'[run[a]].plan = steps[a]
    BY <2>2, <2>5, OnlyDirType
  <2>7. InRankOrder(steps[a])
    BY <1>1, <2>2 DEF StepsInOrder
  <2> QED
    BY <2>1, <2>5, <2>6, <2>7 DEF PlansInOrder
<1>5. CASE J!MarkReady(a)
  <2>1. \A b \in J!Actors : ListKept(b)
    BY <1>2, <1>5 DEF J!MarkReady, ListKept, Staging
  <2>2. DOMAIN dirs = {run[a]}
    BY <1>3, <1>5, StagingAlone DEF J!MarkReady
  <2>3. J!DirOf(run[a]) = dirs[run[a]]
    BY <2>2, OnlyDirType
  <2>4. J!SetDir(run[a], [dirs[run[a]] EXCEPT !.ready = TRUE])
    BY <1>5, <2>3 DEF J!MarkReady
  <2>5. DOMAIN dirs' = {run[a]} /\ dirs'[run[a]] = [dirs[run[a]] EXCEPT !.ready = TRUE]
    BY <2>2, <2>4, SettingOnlyDir
  <2>6. dirs'[run[a]].plan = dirs[run[a]].plan
    BY <2>2, <2>5, OnlyDirType
  <2>7. Quiet
    BY <1>5, ExecuteIsQuiet DEF J!MarkReady, J!Replace
  <2> QED
    BY <2>1, <2>2, <2>5, <2>6, <2>7, SamePlans
<1>6. CASE J!Commit(a)
  <2>1. InUse(run[a]) /\ run[a] \in DOMAIN dirs /\ dirs[run[a]].plan # NoPlan
    BY <1>6 DEF J!Commit, J!IsReady, J!HasPlan, InUse
  <2>2. steps'[a] = dirs[run[a]].plan /\ \A b \in J!Actors : b # a => steps'[b] = steps[b] /\ run'[b] = run[b]
    BY <1>1, <1>6 DEF J!Commit
  <2>3. pc'[a] = "execute" => ListKept(a)
    BY <1>1, <2>1, <2>2 DEF PlansInOrder, ListKept
  <2>4. \A b \in J!Actors : ListKept(b)
    BY <1>2, <1>6, <2>2, <2>3 DEF J!Commit
  <2> QED
    BY <1>1, <1>6, <2>4, ExecuteIsQuiet, SamePlans DEF J!Commit, J!Replace
<1>7. CASE J!CheckStaged(a) \/ J!ExecuteDone(a)
  <2>1. \A b \in J!Actors : ListKept(b)
    BY <1>2, <1>7 DEF J!CheckStaged, J!ExecuteDone, ListKept, Staging
  <2> QED
    BY <1>1, <1>7, <2>1, ExecuteIsQuiet, SamePlans DEF J!CheckStaged, J!ExecuteDone, J!Replace
<1>8. ASSUME steps' = [steps EXCEPT ![a] = Tail(@)], steps[a] # << >>, J!Goto(a, "execute"),
             UNCHANGED run, pc[a] \in {"execute", "replace"}
      PROVE  \A b \in J!Actors : ListKept(b)
  <2>1. steps'[a] = Tail(steps[a]) /\ \A b \in J!Actors : b # a => steps'[b] = steps[b] /\ run'[b] = run[b]
    BY <1>1, <1>8
  <2>2. InRankOrder(Tail(steps[a]))
    BY <1>1, <1>8, TailInOrder DEF StepsInOrder
  <2>3. pc'[a] = "execute" => ListKept(a)
    BY <2>1, <2>2 DEF ListKept
  <2> QED
    BY <1>2, <1>8, <2>1, <2>3
<1>9. CASE J!SkipStep(a)
  <2>1. J!Goto(a, "execute")
    BY <1>1, <1>9 DEF J!SkipStep, J!Goto
  <2>2. \A b \in J!Actors : ListKept(b)
    BY <1>8, <1>9, <2>1 DEF J!SkipStep
  <2> QED
    BY <1>1, <1>9, <2>2, ExecuteIsQuiet, SamePlans DEF J!SkipStep, J!Replace
<1>10. CASE J!Replace(a)
  <2>1. \A b \in J!Actors : ListKept(b)
    BY <1>1, <1>8, <1>10 DEF J!Replace
  <2>2. DOMAIN dirs = {run[a]} /\ InUse(run[a])
    BY <1>10, RenamingAlone
  <2>3. PICK new : new = J!Drop(dirs[run[a]].files, Head(steps[a]))
    OBVIOUS
  <2>4. J!SetDir(run[a], [dirs[run[a]] EXCEPT !.files = new])
    BY <1>10, <2>3 DEF J!Replace
  <2>5. DOMAIN dirs' = {run[a]} /\ dirs'[run[a]] = [dirs[run[a]] EXCEPT !.files = new]
    BY <2>2, <2>4, SettingOnlyDir
  <2>6. dirs'[run[a]].plan = dirs[run[a]].plan
    BY <2>2, <2>5, OnlyDirType
  <2>7. PlansInOrder'
    BY <1>1, <2>2, <2>5, <2>6 DEF PlansInOrder
  <2> QED
    BY <2>1, <2>7
<1> QED
  BY <1>4, <1>5, <1>6, <1>7, <1>9, <1>10 DEF J!Execute

(* The lists while a directory is removed. *)
LEMMA RemoveInOrder ==
  ASSUME J!SingleInstance, Inv, NEW a \in J!Actors, J!Remove(a)
  PROVE  PlansInOrder' /\ \A b \in J!Actors : ListKept(b)
<1> USE DEF J!disk, J!memory
<1>1. /\ run \in [J!Actors -> RunIds \cup {NoRun}] /\ steps \in [J!Actors -> Seq(Files)]
      /\ pc \in [J!Actors -> J!Labels]
      /\ J!ActorInv(a) /\ pc[a] \in {"clean", "discard"}
  BY DEF Inv, J!JournalInv, J!TypeOK, J!Remove, J!RemovePlan, J!RemoveReady, J!RemoveDir,
         J!CleanupMissing, J!Removing
<1>2. DOMAIN dirs = {run[a]}
  BY <1>1 DEF J!ActorInv
<1>3. Quiet
  BY RemoveIsQuiet
<1>4. ASSUME UNCHANGED <<pc, steps, run>>
      PROVE  \A b \in J!Actors : ListKept(b)
  BY <1>4 DEF ListKept, Staging
<1>5. ASSUME NEW d, J!SetDir(run[a], d), d.plan \in {dirs[run[a]].plan, NoPlan}
      PROVE  PlansInOrder'
  <2>1. DOMAIN dirs' = {run[a]} /\ dirs'[run[a]] = d
    BY <1>2, <1>5, SettingOnlyDir
  <2> QED
    BY <1>2, <1>3, <1>5, <2>1, SamePlans
<1>6. CASE \E f \in DOMAIN dirs[run[a]].files : J!RemoveStaged(a, f)
  <2>1. PICK f \in DOMAIN dirs[run[a]].files : J!RemoveStaged(a, f)
    BY <1>6
  <2> DEFINE d == [dirs[run[a]] EXCEPT !.files = J!Drop(@, f)]
  <2>2. J!SetDir(run[a], d) /\ UNCHANGED <<pc, steps, run>>
    BY <2>1 DEF J!RemoveStaged
  <2>3. d.plan = dirs[run[a]].plan
    BY <1>2, OnlyDirType
  <2> HIDE DEF d
  <2> QED
    BY <1>4, <1>5, <2>2, <2>3
<1>7. CASE J!RemovePlan(a)
  <2> DEFINE d == [dirs[run[a]] EXCEPT !.plan = NoPlan]
  <2>1. J!SetDir(run[a], d) /\ UNCHANGED <<pc, steps, run>>
    BY <1>7 DEF J!RemovePlan
  <2>2. d.plan = NoPlan
    BY <1>2, OnlyDirType
  <2> HIDE DEF d
  <2> QED
    BY <1>4, <1>5, <2>1, <2>2
<1>8. CASE J!RemoveReady(a)
  <2> DEFINE d == [dirs[run[a]] EXCEPT !.ready = FALSE]
  <2>1. J!SetDir(run[a], d) /\ UNCHANGED <<pc, steps, run>>
    BY <1>8 DEF J!RemoveReady
  <2>2. d.plan = dirs[run[a]].plan
    BY <1>2, OnlyDirType
  <2> HIDE DEF d
  <2> QED
    BY <1>4, <1>5, <2>1, <2>2
<1>9. CASE J!RemoveDir(a)
  <2>1. DOMAIN dirs' = {}
    BY <1>2, <1>9 DEF J!RemoveDir, J!Drop, J!Restrict
  <2>2. \E label \in {"idle", "resume"} : J!Goto(a, label)
    BY <1>9 DEF J!RemoveDir, J!Removed, J!Leave
  <2>3. pc'[a] \in {"idle", "resume"} /\ \A b \in J!Actors : b # a => steps'[b] = steps[b] /\ run'[b] = run[b]
    BY <1>1, <1>9, <2>2 DEF J!RemoveDir, J!Removed, J!Leave, J!Goto
  <2>4. ListKept(a)
    BY <2>3 DEF ListKept, Staging
  <2>5. PlansInOrder'
    BY <2>1 DEF PlansInOrder
  <2> QED
    BY <2>2, <2>3, <2>4, <2>5, OthersKept
<1>10. CASE J!CleanupMissing(a)
  BY <1>2, <1>10 DEF J!CleanupMissing
<1> QED
  BY <1>6, <1>7, <1>8, <1>9, <1>10 DEF J!Remove

(* The lists when an actor starts, leaves or dies. *)
LEMMA ComingAndGoingInOrder ==
  ASSUME J!SingleInstance, Inv,
         \/ \E a \in J!Actors : J!Raise(a) \/ J!OSError(a) \/ J!ReturnDry(a)
         \/ \E p \in Procs : J!Crash(p) \/ J!Boot(p)
         \/ \E t \in Threads : J!Acquire(t)
  PROVE  PlansInOrder' /\ \A b \in J!Actors : ListKept(b)
<1> USE DEF J!disk, J!memory
<1>1. /\ run \in [J!Actors -> RunIds \cup {NoRun}] /\ steps \in [J!Actors -> Seq(Files)]
      /\ pc \in [J!Actors -> J!Labels]
  BY DEF Inv, J!TypeOK
<1>2. ASSUME NEW a \in J!Actors, J!Raise(a) \/ J!OSError(a) \/ J!ReturnDry(a)
      PROVE  PlansInOrder' /\ \A b \in J!Actors : ListKept(b)
  <2>1. (\E status : J!Leave(a, status)) /\ dirs' = dirs
    BY <1>2 DEF J!Raise, J!OSError, J!ReturnDry
  <2>2. /\ J!Goto(a, "idle") /\ pc'[a] = "idle"
        /\ \A b \in J!Actors : b # a => steps'[b] = steps[b] /\ run'[b] = run[b]
    BY <1>1, <2>1 DEF J!Leave, J!Goto
  <2>3. ListKept(a)
    BY <2>2 DEF ListKept, Staging
  <2> QED
    BY <1>2, <2>1, <2>2, <2>3, OthersKept, FailingIsQuiet, SamePlans
<1>3. ASSUME NEW p \in Procs, J!Crash(p)
      PROVE  PlansInOrder' /\ \A b \in J!Actors : ListKept(b)
  <2>1. dirs' = dirs /\ \A b \in J!Actors : \/ pc'[b] = "idle"
                                           \/ (pc'[b] = pc[b] /\ steps'[b] = steps[b] /\ run'[b] = run[b])
    BY <1>3 DEF J!Crash
  <2>2. \A b \in J!Actors : ListKept(b)
    BY <2>1 DEF ListKept, Staging
  <2> QED
    BY <1>3, <2>1, <2>2, FailingIsQuiet, SamePlans
<1>4. ASSUME NEW a \in J!Actors, J!Goto(a, "scan"), UNCHANGED <<dirs, steps, run>>, Quiet
      PROVE  PlansInOrder' /\ \A b \in J!Actors : ListKept(b)
  <2>1. pc'[a] = "scan"
    BY <1>1, <1>4 DEF J!Goto
  <2>2. ListKept(a)
    BY <2>1 DEF ListKept, Staging
  <2> QED
    BY <1>4, <2>2, OthersKept, SamePlans
<1>5. ASSUME NEW p \in Procs, J!Boot(p)
      PROVE  PlansInOrder' /\ \A b \in J!Actors : ListKept(b)
  BY <1>4, <1>5, BootIsQuiet DEF J!Boot, J!Actors
<1>6. ASSUME NEW t \in Threads, J!Acquire(t)
      PROVE  PlansInOrder' /\ \A b \in J!Actors : ListKept(b)
  BY <1>4, <1>6, AcquireIsQuiet DEF J!Acquire, J!Actors
<1> QED
  BY <1>2, <1>3, <1>5, <1>6

(* A new run has no list yet. *)
LEMMA BeginningInOrder ==
  ASSUME J!SingleInstance, Inv, NEW t \in Threads, BeginRun(t)
  PROVE  PlansInOrder' /\ \A b \in J!Actors : StepsInOrder(b)' /\ RestComesLater(b)'
<1>1. /\ pc[t] = "prepare" /\ t \in J!Actors /\ steps \in [J!Actors -> Seq(Files)]
      /\ J!SetDir(IdOf(t), J!DirOf(IdOf(t)))
  BY DEF BeginRun, J!BeginRun, J!Actors, Inv, J!TypeOK
<1>2. DOMAIN dirs = {}
  BY <1>1 DEF Inv, J!JournalInv, J!ActorInv
<1>3. DOMAIN dirs' = {IdOf(t)} /\ dirs'[IdOf(t)].plan = NoPlan
  BY <1>1, <1>2 DEF J!SetDir, J!DirOf, J!Put, J!NewDir
<1>4. PlansInOrder'
  BY <1>3 DEF PlansInOrder
<1>5. /\ steps'[t] = << >> /\ \A b \in J!Actors : b # t => steps'[b] = steps[b]
      /\ \A b \in J!Actors : b # t => pc'[b] = pc[b] /\ run'[b] = run[b]
  BY <1>1, BeginningIsKept DEF BeginRun, J!BeginRun
<1>6. \A b \in J!Actors : b # t => pc[b] = "idle"
  BY <1>1, OneAtWork
<1>7. ASSUME NEW b \in J!Actors, b # t
      PROVE  StepsInOrder(b)' /\ RestComesLater(b)'
  BY <1>5, <1>6, <1>7 DEF StepsInOrder, RestComesLater, Staging
<1>8. StepsInOrder(t)' /\ RestComesLater(t)'
  BY <1>5 DEF StepsInOrder, RestComesLater, InRankOrder, Range
<1> QED
  BY <1>4, <1>7, <1>8

(* A file that is staged comes after those that are. *)
LEMMA StagingInOrder ==
  ASSUME J!SingleInstance, Inv, NEW t \in Threads, StageNext(t)
  PROVE  PlansInOrder' /\ \A b \in J!Actors : StepsInOrder(b)' /\ RestComesLater(b)'
<1>1. PICK r : r = run[t]
  OBVIOUS
<1>2. PICK f \in OutputsOf(r) \ Range(steps[t]), c \in Contents :
        /\ f \in Files
        /\ \A g \in OutputsOf(r) \ Range(steps[t]) : g = f \/ Precedes(f, g)
        /\ J!StageFile(t, f, c)
  BY <1>1, StagingNext
<1>3. /\ Staging(t) /\ pc[t] = "stage" /\ run' = run /\ own' = own /\ t \in J!Actors
      /\ pc \in [J!Actors -> J!Labels] /\ steps \in [J!Actors -> Seq(Files)]
      /\ PlansInOrder /\ StepsInOrder(t) /\ RestComesLater(t)
  BY <1>2 DEF Staging, J!StageFile, J!Actors, Inv, FilesInv, OrderInv, J!TypeOK, PlansInOrder,
              StepsInOrder, RestComesLater
<1>4. DOMAIN dirs = {r} /\ InUse(r) /\ r \in RunIds
  BY <1>1, <1>3, StagingAlone
<1>5. PICK new : new = J!Put(dirs[r].files, f, c)
  OBVIOUS
<1>6. PlansInOrder'
  <2>1. J!SetDir(r, [dirs[r] EXCEPT !.files = new])
    BY <1>1, <1>2, <1>4, <1>5, OnlyDirType DEF J!StageFile
  <2>2. DOMAIN dirs' = {r} /\ dirs'[r] = [dirs[r] EXCEPT !.files = new]
    BY <1>4, <2>1, SettingOnlyDir
  <2>3. dirs'[r].plan = dirs[r].plan
    BY <1>4, <2>2, OnlyDirType
  <2> QED
    BY <1>3, <1>4, <2>2, <2>3 DEF PlansInOrder
<1>7. /\ steps'[t] = Append(steps[t], f)
      /\ \A b \in J!Actors : b # t => steps'[b] = steps[b] /\ pc'[b] = pc[b]
  BY <1>2, <1>3 DEF J!StageFile, J!Goto
<1>8. \A g \in Range(steps[t]), h \in OutputsOf(r) \ Range(steps[t]) : Rank(g) <= Rank(h)
  BY <1>1, <1>3 DEF RestComesLater
<1>9. /\ InRankOrder(steps'[t])
      /\ Range(steps'[t]) = Range(steps[t]) \cup {f}
  <2>1. InRankOrder(steps[t]) /\ steps[t] \in Seq(Files)
    BY <1>3 DEF StepsInOrder
  <2> QED
    BY <1>2, <1>7, <1>8, <2>1, AppendInOrder
<1>10. \A h \in OutputsOf(r) \ Range(steps'[t]) : Rank(f) <= Rank(h)
  <2> SUFFICES ASSUME NEW h \in OutputsOf(r) \ Range(steps'[t])
               PROVE  Rank(f) <= Rank(h)
    OBVIOUS
  <2>1. Precedes(f, h)
    BY <1>2, <1>9
  <2>2. f[1] \in {"lake", "share", "events", "checkpoint"} /\ h[1] \in {"lake", "share", "events", "checkpoint"}
    BY <1>2, <1>4, OutputKinds
  <2> QED
    BY <2>1, <2>2 DEF Precedes, Rank, KindOrder
<1>11. StepsInOrder(t)' /\ RestComesLater(t)'
  BY <1>1, <1>3, <1>8, <1>9, <1>10 DEF StepsInOrder, RestComesLater
<1>12. ASSUME NEW b \in J!Actors, b # t
       PROVE  StepsInOrder(b)' /\ RestComesLater(b)'
  <2>1. pc[b] = "idle"
    BY <1>3, <1>12, OneAtWork
  <2> QED
    BY <1>7, <1>12, <2>1 DEF StepsInOrder, RestComesLater, Staging
<1> QED
  BY <1>6, <1>11, <1>12

(* Every step keeps the order. *)
LEMMA OrderStep ==
  ASSUME J!SingleInstance, Inv, [Next]_vars
  PROVE  OrderInv'
<1> DEFINE Sorted == PlansInOrder' /\ \A b \in J!Actors : StepsInOrder(b)' /\ RestComesLater(b)'
<1> SUFFICES Sorted
  BY DEF OrderInv, PlansInOrder, StepsInOrder, RestComesLater
<1>1. ASSUME PlansInOrder', \A b \in J!Actors : ListKept(b)
      PROVE  Sorted
  BY <1>1, KeptInOrder
<1>2. ASSUME UNCHANGED <<live, dirs, pc, own, run, steps>>
      PROVE  Sorted
  <2>1. \A b \in J!Actors : ListKept(b)
    BY <1>2 DEF ListKept, Staging
  <2>2. PlansInOrder'
    BY <1>2, UnmovedIsQuiet, SamePlans
  <2> QED
    BY <1>1, <2>1, <2>2
<1>3. CASE SourceChanges \/ UNCHANGED vars
  BY <1>2, <1>3 DEF SourceChanges, Transaction, vars
<1>4. CASE \/ \E p \in Procs : Boot(p)
           \/ \E t \in Threads, dry \in BOOLEAN : Request(t, dry)
  BY <1>1, <1>4, ComingAndGoingInOrder DEF Boot, Request
<1>5. ASSUME NEW t \in Threads, Ingest(t)
      PROVE  Sorted
  <2>1. CASE LoadCheckpoint(t) \/ FetchDelta(t)
    BY <1>2, <2>1 DEF LoadCheckpoint, FetchDelta
  <2>2. CASE ReturnDry(t)
    BY <1>1, <2>2, ComingAndGoingInOrder DEF ReturnDry, J!Actors
  <2> QED
    BY <1>5, <2>1, <2>2, BeginningInOrder, StagingInOrder DEF Ingest
<1>6. ASSUME NEW a \in J!Actors, J!Work(a)
      PROVE  Sorted
  BY <1>1, <1>6, SweepInOrder, ExecuteInOrder, RemoveInOrder, ComingAndGoingInOrder DEF J!Work
<1>7. CASE Fault
  <2>1. \/ \E a \in J!Actors : J!OSError(a) \/ J!ReturnDry(a)
        \/ \E p \in Procs : J!Crash(p)
    BY <1>7 DEF Fault, SourceFails, J!Fault, J!Actors
  <2> QED
    BY <1>1, <2>1, ComingAndGoingInOrder
<1> QED
  BY <1>3, <1>4, <1>5, <1>6, <1>7 DEF Next, Work

-----------------------------------------------------------------------------
(* The invariant. *)

(* The inductive step. *)
LEMMA InvariantStep ==
  ASSUME J!SingleInstance, Inv, [Next]_vars
  PROVE  Inv'
<1>1. J!TypeOK' /\ J!JournalInv'
  BY JournalOfService
<1>2. /\ DOMAIN req' = Threads /\ \A t \in Threads : ThreadTyped(t)' /\ RequestInv(t)'
      /\ FilesFit' /\ BatchesFit'
  BY StepKinds, QuietFits, BeginningFits, StagingFits, RenamingFits
<1>3. TypeOK'
  BY <1>2, SourceStep, TypeByThreadNext
<1>4. OrderInv'
  BY OrderStep
<1>5. FilesInv'
  BY <1>2, <1>4 DEF FilesInv, FilesFit, BatchesFit
<1> QED
  BY <1>1, <1>3, <1>5 DEF Inv

(* The service starts with nothing. *)
LEMMA InvariantInit == Init => Inv
<1> SUFFICES ASSUME Init PROVE Inv
  OBVIOUS
<1>1. J!TypeOK /\ J!JournalInv
  <2>1. J!Init
    BY DEF Init
  <2>2. JP!Init
    BY <2>1 DEF J!Init, JP!Init, J!Actors, JP!Actors
  <2>3. JP!TypeOK
    BY <2>2, JournalAssumed, JP!TypeInit
  <2>4. JP!JournalInv
    BY <2>2, JournalAssumed, JP!InvInit
  <2> QED
    BY <2>3, <2>4, SameState
<1>2. /\ live = << >> /\ dirs = << >> /\ DOMAIN << >> = {}
      /\ \A a \in J!Actors : pc[a] = "idle" /\ ~own[a]
      /\ \A t \in Threads : t \in J!Actors
  BY DEF Init, J!Init, J!Actors
<1>3. DOMAIN req = Threads /\ \A t \in Threads : req[t] = [NewRequest EXCEPT !.dry = FALSE]
  BY NewRequestFields DEF Init
<1>4. \A t \in Threads : ThreadTyped(t) /\ RequestInv(t)
  BY <1>2, <1>3, FirstRequest
<1>5. source \in SourceTables
  <2>1. << >> \in Partial(1..MaxPk, 1..MaxTime)
    BY EmptyPartial
  <2> QED
    BY <2>1 DEF Init, SourceTables
<1>6. TypeOK
  BY <1>3, <1>4, <1>5, TypeByThread
<1>7. OrderInv
  BY <1>2 DEF OrderInv, Staging
<1>8. FilesInv
  BY <1>2, <1>4, <1>7 DEF FilesInv
<1> QED
  BY <1>1, <1>6, <1>8 DEF Inv

(* A request knows only what is so, a run directory holds what its name    *)
(* says and nothing of its batch is ever missing, and every list of files  *)
(* is in order.                                                            *)
THEOREM ServiceInvariant ==
  ASSUME J!SingleInstance
  PROVE  Spec => []Inv
BY InvariantInit, InvariantStep, PTL DEF Spec
=============================================================================
