------------------------ MODULE IngestServiceProofs ------------------------
(***************************************************************************)
(* What IngestService promises, as theorems about one process, for any     *)
(* number of request threads and of tables, any times and keys.  They rest *)
(* on the inductive invariant of IngestInvariantProofs.                    *)
(***************************************************************************)
EXTENDS IngestInvariantProofs

-----------------------------------------------------------------------------
(* Renames. *)

(* What a rename does: a file of the one batch that is being published     *)
(* becomes live, and fits.                                                 *)
RenamesOne(r, f) ==
  /\ r \in RunIds /\ f \in OutputsOf(r) /\ f \in Files
  /\ DOMAIN dirs = {r} /\ Pending(r) /\ InSequence(r) /\ r.before = LiveCheckpoint
  /\ DOMAIN live' = DOMAIN live \cup {f}
  /\ InUse(r) /\ f \in DOMAIN dirs[r].files /\ live'[f] = dirs[r].files[f]
  /\ DOMAIN dirs' = {r} /\ DOMAIN dirs'[r].files = DOMAIN dirs[r].files \ {f}
  /\ \A g \in DOMAIN dirs'[r].files : dirs'[r].files[g] = dirs[r].files[g]
  /\ f # CheckpointFile => Pending(r)'
  /\ Fits(r, f, live'[f])
  /\ \A g \in DOMAIN live : g # f => live'[g] = live[g]
  /\ \A g \in OutputsOf(r) : Rank(g) < Rank(f) => Published(r, g)
  /\ f = CheckpointFile => LiveCheckpoint' = AfterOf(r)
  /\ f # CheckpointFile => LiveCheckpoint' = LiveCheckpoint

(* A rename is one.  Whatever comes before the file in the order of kinds  *)
(* has been renamed.                                                       *)
LEMMA ReplaceRenames ==
  ASSUME J!SingleInstance, Inv, NEW a \in J!Actors, J!Replace(a)
  PROVE  RenamesOne(run[a], Head(steps[a]))
<1>1. PICK r : r = run[a]
  OBVIOUS
<1>2. PICK f : f = Head(steps[a])
  OBVIOUS
<1>3. PICK old : old = dirs[r].files
  OBVIOUS
<1>4. /\ r \in RunIds /\ DOMAIN dirs = {r} /\ Pending(r) /\ BatchInv(r) /\ r.before = LiveCheckpoint
      /\ f \in DOMAIN old /\ f \in OutputsOf(r) /\ dirs[r].ready
      /\ DOMAIN old \subseteq Range(steps[a])
      /\ steps[a] \in Seq(Files) /\ steps[a] # << >> /\ InRankOrder(steps[a])
  BY <1>1, <1>2, <1>3, RenamingAlone DEF Pending
<1>5. live' = J!Put(live, f, old[f])
  BY <1>1, <1>2, <1>3 DEF J!Replace
<1>13. /\ DOMAIN dirs' = {r} /\ dirs'[r].ready /\ DOMAIN dirs'[r].files = DOMAIN old \ {f}
       /\ \A g \in DOMAIN dirs'[r].files : dirs'[r].files[g] = old[g]
  <2>1. PICK new : new = J!Drop(old, f)
    OBVIOUS
  <2>2. J!SetDir(r, [dirs[r] EXCEPT !.files = new])
    BY <1>1, <1>2, <1>3, <2>1 DEF J!Replace
  <2>3. DOMAIN dirs' = {r} /\ dirs'[r] = [dirs[r] EXCEPT !.files = new]
    BY <1>4, <2>2, SettingOnlyDir
  <2>4. dirs'[r].files = new /\ dirs'[r].ready
    BY <1>4, <2>3, OnlyDirType
  <2> QED
    BY <2>1, <2>3, <2>4 DEF J!Drop, J!Restrict
<1>14. InUse(r) /\ f \in DOMAIN dirs[r].files /\ (f # CheckpointFile => Pending(r)')
  BY <1>3, <1>4, <1>13 DEF InUse, Pending
<1>6. /\ DOMAIN live' = DOMAIN live \cup {f} /\ live'[f] = old[f]
      /\ \A g \in DOMAIN live : g # f => live'[g] = live[g]
  BY <1>5 DEF J!Put
<1>7. /\ InSequence(r) /\ Fits(r, f, old[f])
      /\ \A g \in OutputsOf(r) : g \in DOMAIN old \/ Published(r, g)
  BY <1>3, <1>4 DEF BatchInv
<1>8. f = CheckpointFile => LiveCheckpoint' = AfterOf(r)
  BY <1>6, <1>7, NameParts DEF LiveCheckpoint, Fits
<1>9. f # CheckpointFile => LiveCheckpoint' = LiveCheckpoint
  BY <1>6 DEF LiveCheckpoint
<1>10. ASSUME NEW g \in OutputsOf(r), Rank(g) < Rank(f)
       PROVE  Published(r, g)
  <2>1. Rank(f) \in Nat /\ Rank(g) \in Nat
    <3>1. f[1] \in {"lake", "share", "events", "checkpoint"} /\ g[1] \in {"lake", "share", "events", "checkpoint"}
      BY <1>4, OutputKinds
    <3> QED
      BY <3>1 DEF Rank, KindOrder
  <2>2. ASSUME g \in Range(steps[a])
        PROVE  Rank(f) <= Rank(g)
    <3>1. PICK i \in DOMAIN steps[a] : steps[a][i] = g
      BY <2>2 DEF Range
    <3>2. DOMAIN steps[a] = 1..Len(steps[a]) /\ Len(steps[a]) \in Nat /\ Len(steps[a]) > 0 /\ f = steps[a][1]
      BY <1>2, <1>4
    <3>3. 1 \in DOMAIN steps[a] /\ (i = 1 \/ 1 < i)
      BY <3>2
    <3> QED
      BY <1>4, <2>1, <3>1, <3>2, <3>3 DEF InRankOrder
  <2>3. g \notin DOMAIN old
    BY <1>4, <1>10, <2>1, <2>2
  <2> QED
    BY <1>7, <2>3
<1>11. f \in Files
  BY <1>2, <1>4
<1>12. RenamesOne(r, f)
  BY <1>3, <1>4, <1>6, <1>7, <1>8, <1>9, <1>10, <1>11, <1>13, <1>14 DEF RenamesOne
<1> QED
  BY <1>1, <1>2, <1>12

(* The live files change by renames only. *)
LEMMA LiveChangesByRenames ==
  ASSUME J!SingleInstance, Inv, [Next]_vars
  PROVE  live' = live \/ \E r, f : RenamesOne(r, f)
<1>1. \/ Quiet
      \/ \E t \in Threads : BeginRun(t)
      \/ \E t \in Threads : StageNext(t)
      \/ \E a \in J!Actors : J!Replace(a)
  BY StepKinds
<1> QED
  BY <1>1, ReplaceRenames DEF Quiet, BeginRun, J!BeginRun, StageNext, J!StageFile

-----------------------------------------------------------------------------
(* The order of the lake. *)

(* No watermark that has been passed is unpassed. *)
LEMMA PassedStaysPassed ==
  ASSUME J!SingleInstance, Inv, [Next]_vars, NEW t \in Tables, NEW w \in Stamps, Passed(t, w)
  PROVE  Passed(t, w)'
<1>1. CASE Quiet
  <2>1. LiveCheckpoint' = LiveCheckpoint
    BY <1>1 DEF Quiet, LiveCheckpoint
  <2>2. \A r \in DOMAIN dirs : Pending(r) => r \in DOMAIN dirs' /\ Pending(r)'
    BY <1>1 DEF Quiet, Pending
  <2> QED
    BY <2>1, <2>2 DEF Passed
<1>2. CASE \E u \in Threads : BeginRun(u) \/ StageNext(u)
  <2>1. PICK u \in Threads : BeginRun(u) \/ StageNext(u)
    BY <1>2
  <2>2. LiveCheckpoint' = LiveCheckpoint
    BY <2>1 DEF LiveCheckpoint, BeginRun, J!BeginRun, StageNext, J!StageFile
  <2>3. \A r : ~Pending(r)
    <3>1. CASE BeginRun(u)
      BY <3>1 DEF BeginRun, J!BeginRun, J!Actors, Inv, J!JournalInv, J!ActorInv, Pending
    <3>2. CASE StageNext(u)
      BY <3>2, StagingAlone DEF StageNext, Staging
    <3> QED
      BY <2>1, <3>1, <3>2
  <2> QED
    BY <2>2, <2>3 DEF Passed
<1>3. ASSUME NEW r, NEW f, RenamesOne(r, f)
      PROVE  Passed(t, w)'
  <2>1. /\ r \in RunIds /\ InSequence(r) /\ DOMAIN dirs = {r} /\ r.before = LiveCheckpoint
        /\ DOMAIN dirs' = {r}
    BY <1>3 DEF RenamesOne
  <2>2. ~Later(w, r.before[t]) \/ ~Later(w, AfterOf(r)[t])
    BY <2>1 DEF Passed
  <2>3. /\ AfterOf(r)[t] \in Stamps /\ r.before[t] \in Stamps
        /\ ~Later(r.before[t], AfterOf(r)[t])
    BY <2>1, RunIdParts, AfterIsLatest
  <2>4. ~Later(w, AfterOf(r)[t])
    BY <2>2, <2>3, NotLaterIsTransitive
  <2>5. CASE f = CheckpointFile
    BY <1>3, <2>4, <2>5 DEF RenamesOne, Passed
  <2>6. CASE f # CheckpointFile
    BY <1>3, <2>1, <2>4, <2>6 DEF RenamesOne, Passed
  <2> QED
    BY <2>5, <2>6
<1> QED
  BY <1>1, <1>2, <1>3, StepKinds, ReplaceRenames

(* A renamed file makes passed all rows up to its batch's end. *)
LEMMA RenamingPasses ==
  ASSUME NEW r, NEW f, RenamesOne(r, f), NEW t \in Tables, NEW w \in Stamps, ~Later(w, AfterOf(r)[t])
  PROVE  Passed(t, w)'
<1>1. CASE f = CheckpointFile
  BY <1>1 DEF RenamesOne, Passed
<1>2. CASE f # CheckpointFile
  BY <1>2 DEF RenamesOne, Passed
<1> QED
  BY <1>1, <1>2

(* What is staged for a partition is in order, as all that it holds was    *)
(* passed before the batch was read.                                       *)
LEMMA LakeContentInOrder ==
  ASSUME Inv, LakeInv, NEW t \in Threads, Staging(t), NEW f \in Outputs(t), f[1] = "lake",
         NEW c \in LakeContent(t, f)
  PROVE  StagedInOrder(run[t], f, c)
<1>1. PICK r, old : r = run[t] /\ old = LiveRows(f)
  OBVIOUS
<1>2. PICK w, last : w = r.before[f[2]] /\ last = AfterOf(r)[f[2]]
  OBVIOUS
<1>3. /\ r \in RunIds /\ InSequence(r) /\ r.before = LiveCheckpoint
      /\ \A s : ~Pending(s)
  BY <1>1, StagingAlone DEF BatchInv
<1>4. f[2] \in Tables /\ OfItsDay(f, old)
  BY <1>1, LakeContentParts
<1>5. PICK rows \in Seq(Stamps) : c = old \o rows /\ Ascending(rows) /\ Range(rows) = DayRows(r, f)
  BY <1>1, LakeContentParts
<1>6. \A row \in DayRows(r, f) : row \in Stamps /\ Later(row, w) /\ ~Later(row, last)
  BY <1>1, <1>2, LakeContentParts
<1>7. w \in Stamps /\ last \in Stamps /\ ~Later(w, last)
  BY <1>2, <1>3, <1>4, RunIdParts, AfterIsLatest
<1>8. old \in Seq(Stamps) /\ Ascending(old) /\ \A row \in Range(old) : row \in Stamps /\ ~Later(row, w)
  <2>1. old \in Seq(Stamps) /\ \A row \in Range(old) : row \in Stamps
    BY <1>4 DEF OfItsDay, Range
  <2>2. CASE f \in DOMAIN live
    <3>1. LiveInOrder(f) /\ old = live[f]
      BY <1>1, <2>2 DEF LakeInv, LiveRows
    <3>2. Ascending(old) /\ \A row \in Range(old) : Passed(f[2], row)
      BY <3>1 DEF LiveInOrder
    <3> QED
      BY <1>2, <1>3, <2>1, <3>2 DEF Passed
  <2>3. CASE f \notin DOMAIN live
    BY <1>1, <2>1, <2>3 DEF LiveRows, Ascending, Range
  <2> QED
    BY <2>2, <2>3
<1>9. ASSUME NEW x \in Range(old), NEW y \in Range(rows)
      PROVE  Later(y, x)
  BY <1>5, <1>6, <1>7, <1>8, NotLaterIsTransitive
<1>10. Ascending(c) /\ Range(c) = Range(old) \cup DayRows(r, f)
  BY <1>5, <1>8, <1>9, JoiningInOrder
<1>11. \A row \in Range(old) : ~Later(row, last)
  BY <1>7, <1>8, NotLaterIsTransitive
<1>12. \A row \in Range(c) : ~Later(row, last)
  BY <1>6, <1>10, <1>11
<1> QED
  BY <1>1, <1>2, <1>10, <1>12 DEF StagedInOrder

(* A live file that nobody writes over stays in order. *)
LEMMA StillInOrder ==
  ASSUME J!SingleInstance, Inv, [Next]_vars, NEW f \in DOMAIN live, LiveInOrder(f), live'[f] = live[f]
  PROVE  LiveInOrder(f)'
<1>1. f \in Files /\ LiveFits(f)
  BY NamesInUse DEF Inv, FilesInv
<1>2. CASE f[1] = "lake"
  <2>1. f[2] \in Tables /\ \A row \in Range(live[f]) : row \in Stamps /\ Passed(f[2], row)
    BY <1>1, <1>2, FileKinds DEF LiveFits, OfItsDay, Range, LiveInOrder
  <2>2. \A row \in Range(live[f]) : Passed(f[2], row)'
    BY <2>1, PassedStaysPassed
  <2> QED
    BY <1>2, <2>2 DEF LiveInOrder
<1>3. CASE f[1] = "events"
  <2>1. \A t \in Tables : AfterOf(f[2])[t] \in Stamps /\ Passed(t, AfterOf(f[2])[t])
    BY <1>1, <1>3, FileKinds, RunIdParts DEF LiveInOrder
  <2>2. \A t \in Tables : Passed(t, AfterOf(f[2])[t])'
    BY <2>1, PassedStaysPassed
  <2> QED
    BY <1>3, <2>2 DEF LiveInOrder
<1> QED
  BY <1>2, <1>3 DEF LiveInOrder

(* A file that is renamed is in order. *)
LEMMA RenamedInOrder ==
  ASSUME Inv, LakeInv, NEW r, NEW f, RenamesOne(r, f)
  PROVE  LiveInOrder(f)'
<1>1. /\ r \in RunIds /\ InSequence(r) /\ f \in OutputsOf(r) /\ Fits(r, f, live'[f])
      /\ StagedInOrder(r, f, live'[f])
  BY DEF RenamesOne, LakeInv
<1>2. CASE f[1] = "lake"
  <2>1. f[2] \in Tables /\ \A row \in Range(live'[f]) : row \in Stamps /\ ~Later(row, AfterOf(r)[f[2]])
    BY <1>1, <1>2, OutputKinds DEF Fits, OfItsDay, Range, StagedInOrder
  <2>2. \A row \in Range(live'[f]) : Passed(f[2], row)'
    BY <2>1, RenamingPasses
  <2> QED
    BY <1>1, <1>2, <2>2 DEF LiveInOrder, StagedInOrder
<1>3. CASE f[1] = "events"
  <2>1. f[2] = r
    BY <1>1, <1>3, OutputKinds
  <2>2. \A t \in Tables : AfterOf(r)[t] \in Stamps /\ ~Later(AfterOf(r)[t], AfterOf(r)[t])
    BY <1>1, RunIdParts, LaterIsAnOrder
  <2>3. \A t \in Tables : Passed(t, AfterOf(r)[t])'
    BY <2>2, RenamingPasses
  <2> QED
    BY <1>3, <2>1, <2>3 DEF LiveInOrder
<1> QED
  BY <1>2, <1>3 DEF LiveInOrder

(* A file that is staged is in order. *)
LEMMA StagedOneInOrder ==
  ASSUME J!SingleInstance, Inv, LakeInv, NEW t \in Threads, StageNext(t)
  PROVE  \A r \in DOMAIN dirs' : \A f \in DOMAIN dirs'[r].files : StagedInOrder(r, f, dirs'[r].files[f])
<1>1. PICK r : r = run[t]
  OBVIOUS
<1>2. PICK f \in Outputs(t), c \in Contents : c \in Content(t, f) /\ J!StageFile(t, f, c)
  BY StagingNext
<1>3. Staging(t)
  BY DEF StageNext, Staging
<1>4. /\ DOMAIN dirs = {r} /\ InUse(r)
  BY <1>1, <1>3, StagingAlone
<1>5. PICK new : new = J!Put(dirs[r].files, f, c)
  OBVIOUS
<1>6. DOMAIN dirs' = {r} /\ dirs'[r].files = new
  <2>1. J!SetDir(r, [dirs[r] EXCEPT !.files = new])
    BY <1>1, <1>2, <1>4, <1>5, OnlyDirType DEF J!StageFile
  <2>2. DOMAIN dirs' = {r} /\ dirs'[r] = [dirs[r] EXCEPT !.files = new]
    BY <1>4, <2>1, SettingOnlyDir
  <2> QED
    BY <1>4, <2>2, OnlyDirType
<1>7. /\ DOMAIN new = DOMAIN dirs[r].files \cup {f} /\ new[f] = c
      /\ \A g \in DOMAIN dirs[r].files : g # f => new[g] = dirs[r].files[g]
  BY <1>5 DEF J!Put
<1>8. StagedInOrder(r, f, c)
  <2>1. f[1] = "lake" => c \in LakeContent(t, f)
    BY <1>2 DEF Content
  <2> QED
    BY <1>1, <1>2, <1>3, <2>1, LakeContentInOrder DEF StagedInOrder
<1>9. \A g \in DOMAIN dirs[r].files : StagedInOrder(r, g, dirs[r].files[g])
  BY <1>4 DEF LakeInv
<1> QED
  BY <1>6, <1>7, <1>8, <1>9

(* Every step keeps the lake in order. *)
LEMMA LakeStep ==
  ASSUME J!SingleInstance, Inv, LakeInv, [Next]_vars
  PROVE  LakeInv'
<1>1. ASSUME live' = live
      PROVE  \A f \in DOMAIN live' : (LiveInOrder(f))'
  BY <1>1, StillInOrder DEF LakeInv
<1>2. CASE Quiet
  <2>1. live' = live
    BY <1>2 DEF Quiet
  <2>2. ASSUME NEW r \in DOMAIN dirs', InUse(r)'
        PROVE  \A f \in DOMAIN dirs'[r].files : StagedInOrder(r, f, dirs'[r].files[f])
    BY <1>2, <2>2 DEF Quiet, LakeInv
  <2> QED
    BY <1>1, <2>1, <2>2 DEF LakeInv, StagedInOrder
<1>3. ASSUME NEW t \in Threads, BeginRun(t)
      PROVE  LakeInv'
  <2>1. live' = live /\ DOMAIN dirs = {}
    BY <1>3 DEF BeginRun, J!BeginRun, J!Actors, Inv, J!JournalInv, J!ActorInv
  <2>2. \A r \in DOMAIN dirs' : dirs'[r].files = << >>
    BY <1>3, <2>1 DEF BeginRun, J!BeginRun, J!SetDir, J!DirOf, J!Put, J!NewDir
  <2>3. \A r \in DOMAIN dirs' : DOMAIN dirs'[r].files = {}
    BY <2>2
  <2> QED
    BY <1>1, <2>1, <2>3 DEF LakeInv
<1>4. ASSUME NEW t \in Threads, StageNext(t)
      PROVE  LakeInv'
  <2>1. live' = live
    BY <1>4 DEF StageNext, J!StageFile
  <2>2. \A r \in DOMAIN dirs' : \A f \in DOMAIN dirs'[r].files : StagedInOrder(r, f, dirs'[r].files[f])
    BY <1>4, StagedOneInOrder
  <2> QED
    BY <1>1, <2>1, <2>2 DEF LakeInv, StagedInOrder
<1>5. ASSUME NEW r, NEW f, RenamesOne(r, f)
      PROVE  LakeInv'
  <2>1. \A g \in DOMAIN live' : (LiveInOrder(g))'
    <3>1. \A g \in DOMAIN live : g # f => live'[g] = live[g] /\ LiveInOrder(g)
      BY <1>5 DEF RenamesOne, LakeInv
    <3>2. DOMAIN live' = DOMAIN live \cup {f}
      BY <1>5 DEF RenamesOne
    <3> QED
      BY <1>5, <3>1, <3>2, StillInOrder, RenamedInOrder
  <2>2. \A q \in DOMAIN dirs' : \A g \in DOMAIN dirs'[q].files : StagedInOrder(q, g, dirs'[q].files[g])
    BY <1>5 DEF RenamesOne, LakeInv
  <2> QED
    BY <2>1, <2>2 DEF LakeInv, StagedInOrder
<1> QED
  BY <1>2, <1>3, <1>4, <1>5, StepKinds, ReplaceRenames

(* An empty lake is in order. *)
LEMMA NoLakeInOrder ==
  ASSUME DOMAIN live = {}, DOMAIN dirs = {}
  PROVE  LakeInv
BY DEF LakeInv

(* Nothing of a batch is ever missing, and the lake is in order.           *)
THEOREM LakeInvariant ==
  ASSUME J!SingleInstance
  PROVE  Spec => [](Inv /\ LakeInv)
<1>1. Init => LakeInv
  BY NoLakeInOrder DEF Init, J!Init
<1> QED
  BY <1>1, LakeStep, ServiceInvariant, PTL DEF Spec

(* What a request knows, what its run directory holds and what is live is  *)
(* so at every moment.                                                     *)
THEOREM ServiceInvariantHolds ==
  ASSUME J!SingleInstance
  PROVE  Spec => []ServiceInv
<1>1. Inv /\ LakeInv => ServiceInv
  BY DEF Inv, ServiceInv
<1> QED
  BY <1>1, LakeInvariant, PTL

-----------------------------------------------------------------------------
(* The lake. *)

(* Every variable has its shape, and the memory of a request is what its   *)
(* step in the request says it is.                                         *)
THEOREM TypeCorrect ==
  ASSUME J!SingleInstance
  PROVE  Spec => []TypeOK
BY ServiceInvariant, PTL DEF Inv

(* A lake in order is one. *)
LEMMA OrderedLake ==
  ASSUME Inv, LakeInv
  PROVE  LakeOrdered
BY DEF Inv, FilesInv, LakeOrdered, LiveFits, OfItsDay, LakeInv, LiveInOrder

(* No live partition has a row out of order, twice or of another day.      *)
THEOREM LakeIsOrdered ==
  ASSUME J!SingleInstance
  PROVE  Spec => []LakeOrdered
BY OrderedLake, LakeInvariant, PTL

(* A rename of a partition leaves the rows it had at its head.             *)
LEMMA RenamingAppends ==
  ASSUME Inv, NEW r, NEW f, RenamesOne(r, f), NEW g \in DOMAIN live, g[1] = "lake"
  PROVE  /\ g \in DOMAIN live'
         /\ SubSeq(live'[g], 1, Len(live[g])) = live[g]
         /\ Range(live[g]) \subseteq Range(live'[g])
<1>1. live[g] \in Seq(Stamps)
  BY DEF Inv, FilesInv, LiveFits, OfItsDay
<1>2. SubSeq(live[g], 1, Len(live[g])) = live[g]
  BY <1>1
<1>3. CASE g # f
  BY <1>2, <1>3 DEF RenamesOne
<1>4. CASE g = f
  <2>1. live'[g] \in Seq(Stamps) /\ IsPrefix(live[g], live'[g]) /\ g \in DOMAIN live'
    BY <1>4 DEF RenamesOne, Fits, OfItsDay
  <2>2. PICK old, new : old = live[g] /\ new = live'[g]
    OBVIOUS
  <2>3. SubSeq(new, 1, Len(old)) = old /\ Range(old) \subseteq Range(new)
    BY <1>1, <2>1, <2>2, PrefixRows
  <2> QED
    BY <2>1, <2>2, <2>3
<1> QED
  BY <1>3, <1>4

(* New rows are only ever appended to a live partition.                    *)
THEOREM LakeIsAppendOnly ==
  ASSUME J!SingleInstance
  PROVE  Spec => AppendOnlyLake
<1> DEFINE Appends == \A f \in DOMAIN live : f[1] = "lake" =>
                        /\ f \in DOMAIN live'
                        /\ SubSeq(live'[f], 1, Len(live[f])) = live[f]
<1>1. ASSUME Inv, [Next]_vars
      PROVE  Appends
  <2>1. CASE live' = live
    <3>1. \A f \in DOMAIN live : f[1] = "lake" => live[f] \in Seq(Stamps)
      BY <1>1 DEF Inv, FilesInv, LiveFits, OfItsDay
    <3>2. \A s \in Seq(Stamps) : SubSeq(s, 1, Len(s)) = s
      OBVIOUS
    <3> QED
      BY <2>1, <3>1, <3>2
  <2>2. CASE \E r, f : RenamesOne(r, f)
    BY <1>1, <2>2, RenamingAppends
  <2> QED
    BY <1>1, <2>1, <2>2, LiveChangesByRenames
<1>2. Inv /\ [Next]_vars => [Appends]_vars
  BY <1>1
<1> QED
  BY <1>2, ServiceInvariant, PTL DEF Spec, AppendOnlyLake

(* An events file never changes: its run's name says what it holds.        *)
THEOREM EventsAreImmutable ==
  ASSUME J!SingleInstance
  PROVE  Spec => EventsImmutable
<1> DEFINE Immutable == \A f \in DOMAIN live : f[1] = "events" => f \in DOMAIN live' /\ live'[f] = live[f]
<1>1. ASSUME Inv, NEW r, NEW f, RenamesOne(r, f)
      PROVE  Immutable
  <2>1. ASSUME f \in DOMAIN live, f[1] = "events"
        PROVE  live'[f] = live[f]
    <3>1. live[f] = EventsOf(f[2])
      BY <1>1, <2>1 DEF Inv, FilesInv, LiveFits
    <3>2. f[2] = r
      BY <1>1, <2>1, OutputKinds DEF RenamesOne
    <3>3. live'[f] = EventsOf(r)
      BY <1>1, <2>1 DEF RenamesOne, Fits
    <3> QED
      BY <3>1, <3>2, <3>3
  <2> QED
    BY <1>1, <2>1 DEF RenamesOne
<1>2. Inv /\ [Next]_vars => [Immutable]_vars
  BY <1>1, LiveChangesByRenames
<1> QED
  BY <1>2, ServiceInvariant, PTL DEF Spec, EventsImmutable

(* No watermark goes back: the only checkpoint that is ever renamed is     *)
(* that of the batch that follows the live one.                            *)
THEOREM CheckpointIsMonotone ==
  ASSUME J!SingleInstance
  PROVE  Spec => CheckpointMonotone
<1> DEFINE Advances == \A t \in Tables :
              LiveCheckpoint[t]' = LiveCheckpoint[t] \/ Later(LiveCheckpoint[t]', LiveCheckpoint[t])
<1>1. ASSUME Inv, NEW r, NEW f, RenamesOne(r, f)
      PROVE  Advances
  <2>1. r \in RunIds /\ InSequence(r) /\ r.before = LiveCheckpoint
    BY <1>1 DEF RenamesOne
  <2>2. CASE f = CheckpointFile
    <3>1. LiveCheckpoint' = AfterOf(r)
      BY <1>1, <2>2 DEF RenamesOne
    <3> QED
      BY <2>1, <3>1, RunIdParts, AfterIsLatest
  <2>3. CASE f # CheckpointFile
    <3>1. LiveCheckpoint' = LiveCheckpoint
      BY <1>1, <2>3 DEF RenamesOne
    <3> QED
      BY <3>1
  <2> QED
    BY <2>2, <2>3
<1>2. live' = live => Advances
  BY DEF LiveCheckpoint
<1>3. Inv /\ [Next]_vars => [Advances]_vars
  BY <1>1, <1>2, LiveChangesByRenames
<1> QED
  BY <1>3, ServiceInvariant, PTL DEF Spec, CheckpointMonotone

-----------------------------------------------------------------------------
(* Share and events files. *)

(* The partitions of a batch that are published hold its rows. *)
LEMMA PublishedRows ==
  ASSUME NEW r \in RunIds, \A g \in OutputsOf(r) : g[1] = "lake" => Published(r, g),
         NEW t \in Tables
  PROVE  /\ Partitions(t, r.tables[t]) \subseteq DOMAIN live
         /\ \A row \in Range(r.tables[t]) :
              /\ LakeFile(t, DayOf[row.at]) \in Partitions(t, r.tables[t])
              /\ row \in Range(live[LakeFile(t, DayOf[row.at])])
         /\ Range(r.tables[t]) \subseteq InLake(live, t)
<1>1. ASSUME NEW row \in Range(r.tables[t])
      PROVE  /\ LakeFile(t, DayOf[row.at]) \in Partitions(t, r.tables[t])
             /\ LakeFile(t, DayOf[row.at]) \in DOMAIN live
             /\ row \in Range(live[LakeFile(t, DayOf[row.at])])
             /\ row \in InLake(live, t)
  <2>1. PICK g : g = LakeFile(t, DayOf[row.at])
    OBVIOUS
  <2>2. g \in Partitions(t, r.tables[t]) /\ g \in OutputsOf(r)
    BY <2>1 DEF Partitions, OutputsOf
  <2>3. g[1] = "lake" /\ g[2] = t /\ g[3] = DayOf[row.at]
    BY <2>1, NameParts
  <2>4. g \in DOMAIN live /\ DayRows(r, g) \subseteq Range(live[g])
    BY <2>2, <2>3 DEF Published
  <2>5. row \in DayRows(r, g)
    BY <2>3 DEF DayRows
  <2> QED
    BY <2>1, <2>2, <2>3, <2>4, <2>5 DEF InLake
<1>2. \A g \in Partitions(t, r.tables[t]) : \E row \in Range(r.tables[t]) : g = LakeFile(t, DayOf[row.at])
  BY DEF Partitions
<1> QED
  BY <1>1, <1>2

(* When a share or an events file is renamed the partitions of its batch   *)
(* have been, and when an events file is, the share files as well.         *)
LEMMA EarlierKinds ==
  ASSUME NEW r, NEW f, RenamesOne(r, f)
  PROVE  /\ f[1] \in {"share", "events"} => \A g \in OutputsOf(r) : g[1] = "lake" => Published(r, g)
         /\ f[1] = "events" => \A g \in OutputsOf(r) : g[1] = "share" => Published(r, g)
BY DEF RenamesOne, Rank, KindOrder

(* Whatever is in a table's lake stays there. *)
LEMMA LakeGrows ==
  ASSUME Inv, NEW r, NEW f, RenamesOne(r, f), NEW t
  PROVE  InLake(live, t) \subseteq InLake(live', t)
<1> SUFFICES ASSUME NEW row \in InLake(live, t)
             PROVE  row \in InLake(live', t)
  OBVIOUS
<1>1. PICK g \in DOMAIN live : g[1] = "lake" /\ g[2] = t /\ row \in Range(live[g])
  BY DEF InLake
<1>2. g \in DOMAIN live' /\ row \in Range(live'[g])
  BY <1>1, RenamingAppends
<1> QED
  BY <1>1, <1>2 DEF InLake

(* Whoever reads a change in a share file finds it in the lake too.        *)
THEOREM SharesAreInLake ==
  ASSUME J!SingleInstance
  PROVE  Spec => []ShareRowsInLake
<1>1. ASSUME Inv, ShareRowsInLake, NEW r, NEW f, RenamesOne(r, f)
      PROVE  ShareRowsInLake'
  <2> SUFFICES ASSUME NEW g \in DOMAIN live', g[1] = "share"
               PROVE  Range(live'[g].rows) \subseteq InLake(live', g[2])
    BY DEF ShareRowsInLake
  <2>1. CASE g = f
    <3>1. r \in RunIds /\ g[2] \in Tables /\ live'[g].rows = r.tables[g[2]]
      <4>1. r \in RunIds /\ g \in OutputsOf(r) /\ Fits(r, g, live'[g])
        BY <1>1, <2>1 DEF RenamesOne
      <4>2. live'[g] = ShareOf(r, g[2])
        BY <2>1, <4>1, NameParts DEF Fits
      <4>3. g[2] \in Tables
        BY <2>1, <4>1, OutputKinds
      <4> QED
        BY <4>1, <4>2, <4>3 DEF ShareOf
    <3>2. Range(r.tables[g[2]]) \subseteq InLake(live, g[2])
      BY <1>1, <2>1, <3>1, EarlierKinds, PublishedRows
    <3> QED
      BY <1>1, <3>1, <3>2, LakeGrows
  <2>2. CASE g # f
    <3>1. g \in DOMAIN live /\ live'[g] = live[g]
      BY <1>1, <2>2 DEF RenamesOne
    <3>2. Range(live[g].rows) \subseteq InLake(live, g[2])
      BY <1>1, <3>1 DEF ShareRowsInLake
    <3> QED
      BY <1>1, <3>1, <3>2, LakeGrows
  <2> QED
    BY <2>1, <2>2
<1>2. ShareRowsInLake /\ live' = live => ShareRowsInLake'
  BY DEF ShareRowsInLake
<1>3. Inv /\ ShareRowsInLake /\ [Next]_vars => ShareRowsInLake'
  BY <1>1, <1>2, LiveChangesByRenames
<1>4. Init => ShareRowsInLake
  BY DEF Init, J!Init, ShareRowsInLake
<1> QED
  BY <1>3, <1>4, ServiceInvariant, PTL DEF Spec

(* An event that is live announces files that are. *)
Announced(files, t, event) ==
  /\ event.lake \subseteq DOMAIN files
  /\ event.rows > 0 => event.after[t] \in UNION {Range(files[g]) : g \in event.lake}
  /\ event.share => /\ ShareFile(t) \in DOMAIN files
                    /\ ~Later(event.after[t], files[ShareFile(t)].after[t])

(* The lake files that a live events file names hold the table up to the   *)
(* checkpoint it names, and its share file is of its batch or a later one. *)
THEOREM EventsAnnounce ==
  ASSUME J!SingleInstance
  PROVE  Spec => []EventsAnnounceTheLive
<1>1. EventsAnnounceTheLive <=>
        \A f \in DOMAIN live : f[1] = "events" => \A t \in Tables : Announced(live, t, live[f][t])
  BY DEF EventsAnnounceTheLive, Announced
<1>2. EventsAnnounceTheLive' <=>
        \A f \in DOMAIN live' : f[1] = "events" => \A t \in Tables : Announced(live', t, live'[f][t])
  BY DEF EventsAnnounceTheLive, Announced
<1>3. ASSUME Inv, LakeInv, EventsAnnounceTheLive, NEW r, NEW f, RenamesOne(r, f)
      PROVE  EventsAnnounceTheLive'
  <2> SUFFICES ASSUME NEW g \in DOMAIN live', g[1] = "events", NEW t \in Tables
               PROVE  Announced(live', t, live'[g][t])
    BY <1>2
  <2>1. /\ r \in RunIds /\ InSequence(r) /\ r.before = LiveCheckpoint /\ DOMAIN dirs = {r} /\ f \in OutputsOf(r)
        /\ DOMAIN live' = DOMAIN live \cup {f}
    BY <1>3 DEF RenamesOne
  <2>2. CASE g = f
    <3>1. /\ live'[g] = EventsOf(r)
          /\ \A h \in DOMAIN live : h # f => live'[h] = live[h]
      BY <1>3, <2>2 DEF RenamesOne, Fits
    <3>2. PICK event : event = live'[g][t]
      OBVIOUS
    <3>3. event = [rows |-> Len(r.tables[t]), lake |-> Partitions(t, r.tables[t]),
                   share |-> r.tables[t] # << >>, after |-> AfterOf(r)]
      BY <3>1, <3>2 DEF EventsOf
    <3>4. /\ event.rows = Len(r.tables[t]) /\ event.lake = Partitions(t, r.tables[t])
          /\ event.share = (r.tables[t] # << >>) /\ event.after = AfterOf(r)
      BY <3>3
    <3>5. /\ Partitions(t, r.tables[t]) \subseteq DOMAIN live
          /\ \A row \in Range(r.tables[t]) :
               /\ LakeFile(t, DayOf[row.at]) \in Partitions(t, r.tables[t])
               /\ row \in Range(live[LakeFile(t, DayOf[row.at])])
      BY <1>3, <2>1, <2>2, EarlierKinds, PublishedRows
    <3>6. event.lake \subseteq DOMAIN live'
      BY <2>1, <3>4, <3>5
    <3>7. ASSUME event.rows > 0
          PROVE  event.after[t] \in UNION {Range(live'[h]) : h \in event.lake}
      <4>1. r.tables[t] # << >>
        BY <3>4, <3>7
      <4>2. AfterOf(r)[t] \in Range(r.tables[t])
        BY <2>1, <4>1, AfterIsLatest
      <4>3. PICK h : h = LakeFile(t, DayOf[AfterOf(r)[t].at])
        OBVIOUS
      <4>4. h \in Partitions(t, r.tables[t]) /\ h \in DOMAIN live /\ AfterOf(r)[t] \in Range(live[h])
        BY <3>5, <4>2, <4>3
      <4>5. h # f
        BY <2>2, <4>3, NameParts
      <4>6. AfterOf(r)[t] \in Range(live'[h])
        BY <3>1, <4>4, <4>5
      <4> QED
        BY <3>4, <4>4, <4>6
    <3>8. ASSUME event.share
          PROVE  ShareFile(t) \in DOMAIN live' /\ ~Later(event.after[t], live'[ShareFile(t)].after[t])
      <4>1. r.tables[t] # << >>
        BY <3>4, <3>8
      <4>2. PICK h : h = ShareFile(t)
        OBVIOUS
      <4>3. h \in OutputsOf(r) /\ h[1] = "share" /\ h[2] = t
        BY <4>1, <4>2, NameParts DEF OutputsOf
      <4>4. h \in DOMAIN live /\ live[h] = ShareOf(r, t)
        BY <1>3, <2>2, <4>3, EarlierKinds DEF Published
      <4>5. h # f
        BY <2>2, <4>3
      <4>6. live'[h].after = AfterOf(r)
        BY <3>1, <4>4, <4>5 DEF ShareOf
      <4>7. ~Later(AfterOf(r)[t], AfterOf(r)[t])
        BY <2>1, RunIdParts, LaterIsAnOrder
      <4> QED
        BY <2>1, <3>4, <4>2, <4>4, <4>6, <4>7
    <3> QED
      BY <3>2, <3>6, <3>7, <3>8 DEF Announced
  <2>3. CASE g # f
    <3>1. g \in DOMAIN live /\ live'[g] = live[g]
      BY <1>3, <2>3 DEF RenamesOne
    <3>2. PICK event : event = live[g][t]
      OBVIOUS
    <3>3. Announced(live, t, event)
      BY <1>1, <1>3, <3>1, <3>2
    <3>4. /\ g[2] \in RunIds /\ live[g] = EventsOf(g[2]) /\ Passed(t, AfterOf(g[2])[t])
      <4>1. g \in Files
        BY <1>3, <3>1, NamesInUse
      <4>2. LiveFits(g) /\ LiveInOrder(g)
        BY <1>3, <3>1 DEF Inv, FilesInv, LakeInv
      <4>3. live[g] = EventsOf(g[2]) /\ Passed(t, AfterOf(g[2])[t])
        BY <4>2 DEF LiveFits, LiveInOrder
      <4> QED
        BY <4>1, <4>3, FileKinds
    <3>5. /\ event.after = AfterOf(g[2]) /\ event.lake = Partitions(t, g[2].tables[t])
          /\ AfterOf(g[2])[t] \in Stamps
      BY <3>2, <3>4, RunIdParts DEF EventsOf
    <3>6. \A h \in event.lake : h[1] = "lake"
      BY <3>5, NameParts DEF Partitions
    <3>7. event.lake \subseteq DOMAIN live'
      BY <2>1, <3>3 DEF Announced
    <3>8. ASSUME event.rows > 0
          PROVE  event.after[t] \in UNION {Range(live'[h]) : h \in event.lake}
      <4>1. PICK h \in event.lake : h \in DOMAIN live /\ event.after[t] \in Range(live[h])
        BY <3>3, <3>8 DEF Announced
      <4>2. Range(live[h]) \subseteq Range(live'[h])
        BY <1>3, <3>6, <4>1, RenamingAppends
      <4> QED
        BY <4>1, <4>2
    <3>9. ASSUME event.share
          PROVE  ShareFile(t) \in DOMAIN live' /\ ~Later(event.after[t], live'[ShareFile(t)].after[t])
      <4>1. ShareFile(t) \in DOMAIN live /\ ~Later(event.after[t], live[ShareFile(t)].after[t])
        BY <3>3, <3>9 DEF Announced
      <4>2. CASE f # ShareFile(t)
        <5>1. live'[ShareFile(t)] = live[ShareFile(t)]
          BY <1>3, <4>1, <4>2 DEF RenamesOne
        <5> QED
          BY <2>1, <4>1, <5>1
      <4>3. CASE f = ShareFile(t)
        <5>1. live'[f] = ShareOf(r, t)
          <6>1. Fits(r, f, live'[f])
            BY <1>3 DEF RenamesOne
          <6>2. f[1] = "share" /\ f[2] = t
            BY <4>3, NameParts
          <6> QED
            BY <6>1, <6>2 DEF Fits
        <5>2. live'[f].after = AfterOf(r)
          BY <5>1 DEF ShareOf
        <5>3. ~Later(AfterOf(g[2])[t], r.before[t]) \/ ~Later(AfterOf(g[2])[t], AfterOf(r)[t])
          BY <2>1, <3>4 DEF Passed
        <5>4. ~Later(AfterOf(g[2])[t], AfterOf(r)[t])
          BY <2>1, <3>5, <5>3, RunIdParts, AfterIsLatest, NotLaterIsTransitive
        <5> QED
          BY <2>1, <3>5, <4>3, <5>2, <5>4
      <4> QED
        BY <4>2, <4>3
    <3> QED
      BY <3>1, <3>2, <3>7, <3>8, <3>9 DEF Announced
  <2> QED
    BY <2>2, <2>3
<1>4. EventsAnnounceTheLive /\ live' = live => EventsAnnounceTheLive'
  BY <1>1, <1>2
<1>5. Inv /\ LakeInv /\ EventsAnnounceTheLive /\ [Next]_vars => EventsAnnounceTheLive'
  BY <1>3, <1>4, LiveChangesByRenames
<1>6. Init => EventsAnnounceTheLive
  BY DEF Init, J!Init, EventsAnnounceTheLive
<1> QED
  BY <1>5, <1>6, LakeInvariant, PTL DEF Spec

-----------------------------------------------------------------------------
(* Answers. *)

(* When a real request returns, its batch is published.                    *)
LEMMA CleaningIsPublished ==
  ASSUME Inv, NEW t \in Threads, own[t], pc[t] = "clean"
  PROVE  /\ Fetched(t) /\ RequestInv(t) /\ run[t] = IdOf(t) /\ run[t] \in RunIds
         /\ \A f \in OutputsOf(run[t]) : Published(run[t], f)
<1>1. RequestInv(t) /\ TypeOK /\ t \in J!Actors
  BY DEF Inv, FilesInv, J!Actors
<1>2. Fetched(t) /\ run[t] = IdOf(t) /\ run[t] \in RunIds
  BY <1>1, RequestKnows DEF TypeOK
<1>3. DOMAIN dirs = {run[t]} /\ DOMAIN dirs[run[t]].files = {}
  BY <1>1 DEF Inv, J!JournalInv, J!ActorInv, J!Staged
<1>4. BatchInv(run[t])
  BY <1>3 DEF Inv, FilesInv, InUse
<1> QED
  BY <1>1, <1>2, <1>3, <1>4 DEF BatchInv

(* Whoever gets a manifest can read what it says.                          *)
THEOREM RepliesArePublished ==
  ASSUME J!SingleInstance
  PROVE  Spec => ReplyIsPublished
<1> DEFINE Readable(t) ==
      LET m == Manifest(t)
      IN /\ LiveCheckpoint = m.after
         /\ m.lake \cup m.share \cup {EventsFile(m.run)} \subseteq DOMAIN live
         /\ \A table \in Tables :
              /\ Range(m.rows[table]) \subseteq UNION {Range(live[f]) : f \in m.lake}
              /\ ShareFile(table) \in m.share => live[ShareFile(table)].rows = m.rows[table]
           Replies == \A t \in Threads : own[t] /\ (J!RemoveDir(t) \/ J!CleanupMissing(t)) => Readable(t)
<1>1. ASSUME Inv, NEW t \in Threads, own[t], pc[t] = "clean"
      PROVE  Readable(t)
  <2>1. PICK r : r = run[t]
    OBVIOUS
  <2>2. /\ Fetched(t) /\ RequestInv(t) /\ r = IdOf(t) /\ r \in RunIds
        /\ \A f \in OutputsOf(r) : Published(r, f)
    BY <1>1, <2>1, CleaningIsPublished
  <2>3. r.tables = req[t].delta /\ After(t) = AfterOf(r)
    BY <1>1, <2>2, RequestKnows DEF Inv
  <2>4. PICK m : m = Manifest(t)
    OBVIOUS
  <2>5. /\ m.run = r /\ m.after = AfterOf(r) /\ m.rows = r.tables
        /\ m.lake = UNION {Partitions(table, r.tables[table]) : table \in Tables}
        /\ m.share = {ShareFile(table) : table \in {u \in Tables : r.tables[u] # << >>}}
    BY <2>2, <2>3, <2>4 DEF Manifest, Changed
  <2>6. LiveCheckpoint = m.after
    <3>1. CheckpointFile \in OutputsOf(r)
      BY DEF OutputsOf
    <3>2. Published(r, CheckpointFile)
      BY <2>2, <3>1
    <3> QED
      BY <2>5, <3>2, NameParts DEF Published, LiveCheckpoint
  <2>7. m.lake \cup m.share \cup {EventsFile(m.run)} \subseteq DOMAIN live
    <3>1. m.lake \cup m.share \cup {EventsFile(m.run)} \subseteq OutputsOf(r)
      BY <2>5 DEF OutputsOf
    <3> QED
      BY <2>2, <3>1 DEF Published
  <2>8. ASSUME NEW table \in Tables
        PROVE  Range(m.rows[table]) \subseteq UNION {Range(live[f]) : f \in m.lake}
    <3>1. \A row \in Range(r.tables[table]) :
            /\ LakeFile(table, DayOf[row.at]) \in Partitions(table, r.tables[table])
            /\ row \in Range(live[LakeFile(table, DayOf[row.at])])
      BY <2>2, PublishedRows
    <3>2. Partitions(table, r.tables[table]) \subseteq m.lake
      BY <2>5
    <3>3. ASSUME NEW row \in Range(r.tables[table])
          PROVE  row \in UNION {Range(live[f]) : f \in m.lake}
      BY <3>1, <3>2
    <3> QED
      BY <2>5, <3>3
  <2>9. ASSUME NEW table \in Tables, ShareFile(table) \in m.share
        PROVE  live[ShareFile(table)].rows = m.rows[table]
    <3>1. ShareFile(table) \in OutputsOf(r)
      BY <2>5, <2>9 DEF OutputsOf
    <3>2. Published(r, ShareFile(table))
      BY <2>2, <3>1
    <3>3. live[ShareFile(table)] = ShareOf(r, table)
      BY <3>2, NameParts DEF Published
    <3> QED
      BY <2>5, <3>3 DEF ShareOf
  <2> QED
    BY <2>4, <2>6, <2>7, <2>8, <2>9
<1>2. ASSUME Inv, NEW t \in Threads, own[t], J!RemoveDir(t) \/ J!CleanupMissing(t)
      PROVE  pc[t] = "clean"
  BY <1>2 DEF J!RemoveDir, J!CleanupMissing, J!Removing, Inv, FilesInv, RequestInv, Writing, Staging
<1> HIDE DEF Readable
<1>3. Inv => Replies
  BY <1>1, <1>2
<1>4. Inv /\ [Next]_vars => [Replies]_vars
  BY <1>3
<1> QED
  BY <1>4, ServiceInvariant, PTL DEF Spec, ReplyIsPublished, Readable

-----------------------------------------------------------------------------
(* Dry runs. *)

(* A dry run commits nothing: only a request that stages a run of its own  *)
(* writes READY, no other works at the same time, and a dry run has none.  *)
THEOREM DryRunsCommitNothing ==
  ASSUME J!SingleInstance
  PROVE  Spec => DryRunCommitsNothing
<1> DEFINE Dry == \E t \in Threads : pc[t] # "idle" /\ req[t].dry
<1>1. ASSUME Inv, Dry, NEW a \in J!Actors, J!MarkReady(a)
      PROVE  FALSE
  <2>1. PICK t \in Threads : pc[t] # "idle" /\ req[t].dry
    BY <1>1
  <2>2. pc[a] = "ready" /\ t \in J!Actors
    BY <1>1 DEF J!MarkReady, J!Actors
  <2>3. a = t
    BY <1>1, <2>1, <2>2, OneAtWork
  <2>4. own[t]
    BY <1>1, <2>2, <2>3 DEF Inv, FilesInv, RequestInv, Writing, Staging
  <2> QED
    BY <1>1, <2>1, <2>4 DEF Inv, TypeOK
<1>2. ASSUME Inv, [Next]_vars, Dry
      PROVE  J!Committed' = J!Committed
  <2>1. J!TypeOK /\ J!JournalInv /\ [J!Next]_(J!vars)
    BY <1>2, ServiceIsJournal DEF Inv
  <2> QED
    BY <1>1, <1>2, <2>1, JournalCommits
<1>3. Inv /\ [Next]_vars => [Dry => J!Committed' = J!Committed]_vars
  BY <1>2
<1> QED
  BY <1>3, ServiceInvariant, PTL DEF Spec, DryRunCommitsNothing

-----------------------------------------------------------------------------
(* What is committed. *)

(* What the files will be when the run r is sealed: its outputs over what  *)
(* is live.                                                                *)
Seals(r, files) ==
  /\ r \in RunIds /\ InSequence(r) /\ r.before = LiveCheckpoint
  /\ DOMAIN files = DOMAIN live \cup OutputsOf(r)
  /\ \A f \in DOMAIN live \ OutputsOf(r) : files[f] = live[f]
  /\ \A f \in OutputsOf(r) : Fits(r, f, files[f]) \/ (Published(r, f) /\ files[f] = live[f])

(* Writing READY seals a whole batch that follows the live checkpoint.     *)
LEMMA MarkReadySealsBatch ==
  ASSUME J!SingleInstance, Inv, NEW a \in J!Actors, J!MarkReady(a)
  PROVE  Seals(run[a], Overlay(live, dirs[run[a]].files))
<1>1. PICK r : r = run[a]
  OBVIOUS
<1>2. PICK staged : staged = dirs[r].files
  OBVIOUS
<1>3. PICK files : files = Overlay(live, staged)
  OBVIOUS
<1>4. pc[a] = "ready" /\ a \in Threads
  BY DEF J!MarkReady, J!Actors, Inv, J!JournalInv, J!LockInv
<1>5. r \in RunIds /\ own[a] /\ DOMAIN dirs = {r} /\ BatchInv(r) /\ r.before = LiveCheckpoint
  BY <1>1, <1>4, StagingAlone DEF Staging
<1>6. /\ InSequence(r)
      /\ \A f \in DOMAIN staged : f \in OutputsOf(r) /\ Fits(r, f, staged[f])
      /\ \A f \in OutputsOf(r) : f \in DOMAIN staged \/ Published(r, f)
  BY <1>2, <1>4, <1>5 DEF BatchInv
<1>7. /\ DOMAIN files = DOMAIN live \cup DOMAIN staged
      /\ \A f \in DOMAIN staged : files[f] = staged[f]
      /\ \A f \in DOMAIN live \ DOMAIN staged : files[f] = live[f]
  BY <1>3 DEF Overlay
<1>8. \A f \in OutputsOf(r) : Published(r, f) => f \in DOMAIN live
  BY DEF Published
<1>9. \A f \in OutputsOf(r) : Fits(r, f, files[f]) \/ (Published(r, f) /\ files[f] = live[f])
  BY <1>6, <1>7, <1>8
<1>10. DOMAIN files = DOMAIN live \cup OutputsOf(r)
  BY <1>6, <1>7, <1>8
<1>11. Seals(r, files)
  BY <1>5, <1>6, <1>7, <1>9, <1>10 DEF Seals
<1> QED
  BY <1>1, <1>2, <1>3, <1>11

(* A sealed batch says what its share files and the checkpoint are.        *)
LEMMA SealedContents ==
  ASSUME NEW r, NEW files, Seals(r, files)
  PROVE  /\ CheckpointFile \in DOMAIN files /\ files[CheckpointFile] = AfterOf(r)
         /\ \A t \in Tables :
              IF r.tables[t] # << >>
              THEN ShareFile(t) \in DOMAIN files /\ files[ShareFile(t)] = ShareOf(r, t)
              ELSE /\ ShareFile(t) \in DOMAIN files <=> ShareFile(t) \in DOMAIN live
                   /\ ShareFile(t) \in DOMAIN live => files[ShareFile(t)] = live[ShareFile(t)]
<1>1. CheckpointFile \in OutputsOf(r)
  BY DEF OutputsOf
<1>2. CheckpointFile \in DOMAIN files /\ files[CheckpointFile] = AfterOf(r)
  BY <1>1, NameParts DEF Seals, Fits, Published
<1>3. ASSUME NEW t \in Tables, r.tables[t] # << >>
      PROVE  ShareFile(t) \in DOMAIN files /\ files[ShareFile(t)] = ShareOf(r, t)
  <2>1. ShareFile(t) \in OutputsOf(r) /\ ShareFile(t)[1] = "share" /\ ShareFile(t)[2] = t
    BY <1>3, NameParts DEF OutputsOf
  <2>2. /\ ShareFile(t) \in DOMAIN files
        /\ \/ Fits(r, ShareFile(t), files[ShareFile(t)])
           \/ Published(r, ShareFile(t)) /\ files[ShareFile(t)] = live[ShareFile(t)]
    BY <2>1 DEF Seals
  <2>3. Fits(r, ShareFile(t), files[ShareFile(t)]) => files[ShareFile(t)] = ShareOf(r, t)
    BY <2>1 DEF Fits
  <2>4. Published(r, ShareFile(t)) => live[ShareFile(t)] = ShareOf(r, t)
    BY <2>1 DEF Published
  <2> QED
    BY <2>2, <2>3, <2>4
<1>4. ASSUME NEW t \in Tables, r.tables[t] = << >>
      PROVE  ShareFile(t) \notin OutputsOf(r)
  <2>1. SUFFICES ASSUME ShareFile(t) \in OutputsOf(r)
                 PROVE  FALSE
    OBVIOUS
  <2>2. ShareFile(t)[1] = "share" /\ ShareFile(t)[2] = t
    BY NameParts
  <2>3. r.tables[ShareFile(t)[2]] # << >>
    BY <2>1, <2>2, OutputKinds DEF Seals
  <2> QED
    BY <1>4, <2>2, <2>3
<1> QED
  BY <1>2, <1>3, <1>4 DEF Seals

(* The share files are of the latest batch, and there is a checkpoint      *)
(* before there is any of them.                                            *)
LatestIn(files) ==
  IF CheckpointFile \in DOMAIN files
  THEN \A t \in Tables :
         IF ShareFile(t) \in DOMAIN files
         THEN /\ files[ShareFile(t)].after[t] = files[CheckpointFile][t]
              /\ files[ShareFile(t)].rows[Len(files[ShareFile(t)].rows)] = files[CheckpointFile][t]
         ELSE files[CheckpointFile][t] = EmptyWatermark
  ELSE \A t \in Tables : ShareFile(t) \notin DOMAIN files

(* Sealing a batch keeps it so: a table that has changed gets its share    *)
(* file, and one that has not keeps its watermark with its share file.     *)
LEMMA SealingIsLatest ==
  ASSUME LatestIn(live), NEW r, NEW files, Seals(r, files)
  PROVE  LatestIn(files)
<1>1. r \in RunIds /\ r.before = LiveCheckpoint
  BY DEF Seals
<1>2. CheckpointFile \in DOMAIN files /\ files[CheckpointFile] = AfterOf(r)
  BY SealedContents
<1>3. ASSUME NEW t \in Tables, r.tables[t] # << >>
      PROVE  /\ ShareFile(t) \in DOMAIN files
             /\ files[ShareFile(t)].after[t] = AfterOf(r)[t]
             /\ files[ShareFile(t)].rows[Len(files[ShareFile(t)].rows)] = AfterOf(r)[t]
  <2>1. ShareFile(t) \in DOMAIN files /\ files[ShareFile(t)] = ShareOf(r, t)
    BY <1>3, SealedContents
  <2>2. AfterOf(r)[t] = r.tables[t][Len(r.tables[t])]
    BY <1>1, <1>3, RunIdParts
  <2> QED
    BY <2>1, <2>2 DEF ShareOf
<1>4. ASSUME NEW t \in Tables, r.tables[t] = << >>
      PROVE  IF ShareFile(t) \in DOMAIN files
             THEN /\ files[ShareFile(t)].after[t] = AfterOf(r)[t]
                  /\ files[ShareFile(t)].rows[Len(files[ShareFile(t)].rows)] = AfterOf(r)[t]
             ELSE AfterOf(r)[t] = EmptyWatermark
  <2>1. /\ ShareFile(t) \in DOMAIN files <=> ShareFile(t) \in DOMAIN live
        /\ ShareFile(t) \in DOMAIN live => files[ShareFile(t)] = live[ShareFile(t)]
    BY <1>4, SealedContents
  <2>2. AfterOf(r)[t] = LiveCheckpoint[t]
    BY <1>1, <1>4, RunIdParts
  <2> QED
    BY <2>1, <2>2 DEF LatestIn, LiveCheckpoint, InitialCheckpoint
<1> QED
  BY <1>2, <1>3, <1>4 DEF LatestIn

(* Without live files and run directories nothing is committed. *)
LEMMA NothingCommitted ==
  ASSUME DOMAIN live = {}, DOMAIN dirs = {}
  PROVE  DOMAIN J!Committed = {}
BY DEF J!Committed, J!Replayed

(* There are none at first. *)
LEMMA NothingAtFirst ==
  ASSUME Init
  PROVE  DOMAIN live = {} /\ DOMAIN dirs = {}
BY DEF Init, J!Init

(* Every step keeps the share files the latest of what it commits. *)
LEMMA LatestStep ==
  ASSUME J!SingleInstance, Inv, LatestIn(J!Committed), [Next]_vars
  PROVE  LatestIn(J!Committed')
<1>1. J!TypeOK /\ J!JournalInv /\ [J!Next]_(J!vars)
  BY ServiceIsJournal DEF Inv
<1>2. CASE J!Committed' = J!Committed
  BY <1>2
<1>3. ASSUME NEW a \in J!Actors, J!MarkReady(a), J!Committed = live,
             J!Committed' = Overlay(live, dirs[run[a]].files)
      PROVE  LatestIn(J!Committed')
  <2>1. PICK r, files : r = run[a] /\ files = Overlay(live, dirs[run[a]].files)
    OBVIOUS
  <2>2. Seals(r, files)
    BY <1>3, <2>1, MarkReadySealsBatch
  <2>3. LatestIn(files)
    BY <1>3, <2>2, SealingIsLatest
  <2> QED
    BY <1>3, <2>1, <2>3
<1> QED
  BY <1>1, <1>2, <1>3, JournalCommits

(* Share files that are the latest end at their table's watermark. *)
LEMMA LatestShares ==
  ASSUME LatestIn(J!Committed)
  PROVE  ShareIsLatestBatch
BY DEF ShareIsLatestBatch, LatestIn

(* Once pending runs are replayed, a table's share file ends at the        *)
(* table's watermark and says so.                                          *)
THEOREM SharesAreLatest ==
  ASSUME J!SingleInstance
  PROVE  Spec => []ShareIsLatestBatch
<1>1. Init => LatestIn(J!Committed)
  BY NothingAtFirst, NothingCommitted DEF LatestIn
<1>2. Inv /\ LatestIn(J!Committed) /\ [Next]_vars => LatestIn(J!Committed)'
  BY LatestStep DEF LatestIn
<1> QED
  BY <1>1, <1>2, LatestShares, ServiceInvariant, PTL DEF Spec

-----------------------------------------------------------------------------
(* A table's log. *)

(* The lake's rows, wherever the days begin and end. *)
LakeKept(files) ==
  /\ IsFiniteSet(DOMAIN files) /\ DOMAIN files \subseteq Files
  /\ \A f \in DOMAIN files : f[1] = "lake" =>
       /\ OfItsDay(f, files[f]) /\ Ascending(files[f])
       /\ \A row \in Range(files[f]) : row.at \in 1..MaxTime

(* FeedLog, with the files it reads as a parameter. *)
LogOf(files, t) ==
  LET days == {f[3] : f \in {g \in DOMAIN files : g[1] = "lake" /\ g[2] = t}}
      inOrder == CHOOSE s \in InNumberOrder(days) : TRUE
  IN FlattenSeq([i \in DOMAIN inOrder |-> files[LakeFile(t, inOrder[i])]])

(* The partitions of a table, day after day, are one sequence of its rows  *)
(* in order.                                                               *)
LEMMA LogIsLake ==
  ASSUME NEW files, LakeKept(files), NEW t \in Tables
  PROVE  /\ LogOf(files, t) \in Seq(Stamps)
         /\ Ascending(LogOf(files, t))
         /\ Range(LogOf(files, t)) = InLake(files, t)
<1> DEFINE parts == {g \in DOMAIN files : g[1] = "lake" /\ g[2] = t}
           days == {f[3] : f \in parts}
<1>1. ASSUME NEW f \in parts
      PROVE  /\ f[3] \in Nat /\ f = LakeFile(t, f[3])
             /\ files[f] \in Seq(Stamps) /\ Ascending(files[f])
             /\ \A row \in Range(files[f]) : row.at \in 1..MaxTime /\ DayOf[row.at] = f[3]
  <2>1. f \in Files /\ f[1] = "lake" /\ f[2] = t
    BY DEF LakeKept
  <2>2. f[3] \in Nat /\ f = LakeFile(t, f[3])
    BY <2>1, FileKinds
  <2> QED
    BY <2>1, <2>2 DEF LakeKept, OfItsDay
<1>2. IsFiniteSet(days) /\ days \in SUBSET Nat
  <2>1. IsFiniteSet(parts)
    BY FS_Subset DEF LakeKept
  <2>2. [f \in parts |-> f[3]] \in Surjection(parts, days)
    BY DEF Surjection
  <2>3. IsFiniteSet(days)
    BY <2>1, <2>2, FS_Surjection
  <2> QED
    BY <1>1, <2>3
<1>3. PICK n : n = Cardinality(days)
  OBVIOUS
<1>4. PICK s : s = CHOOSE q \in InNumberOrder(days) : TRUE
  OBVIOUS
<1>5. /\ n \in Nat /\ s \in [1..n -> days]
      /\ \A i, j \in 1..n : i < j => s[i] < s[j]
      /\ \A x \in days : \E i \in 1..n : s[i] = x
  <2> HIDE DEF days
  <2>1. s \in InNumberOrder(days)
    BY <1>2, <1>4, NumberOrder
  <2> QED
    BY <1>2, <1>3, <2>1, NumberOrder
<1>6. PICK seqs : seqs = [i \in 1..n |-> files[LakeFile(t, s[i])]]
  OBVIOUS
<1>7. LogOf(files, t) = FlattenSeq(seqs)
  <2>1. LogOf(files, t) = FlattenSeq([i \in DOMAIN s |-> files[LakeFile(t, s[i])]])
    BY <1>4 DEF LogOf
  <2>2. DOMAIN s = 1..n
    BY <1>5
  <2> QED
    BY <1>6, <2>1, <2>2
<1>8. ASSUME NEW i \in 1..n
      PROVE  LakeFile(t, s[i]) \in parts /\ seqs[i] = files[LakeFile(t, s[i])] /\ s[i] \in Nat
  <2>1. PICK f \in parts : s[i] = f[3]
    BY <1>5
  <2> QED
    BY <1>1, <1>6, <2>1
<1>9. ASSUME NEW i \in 1..n
      PROVE  /\ seqs[i] \in Seq(Stamps) /\ Ascending(seqs[i])
             /\ \A row \in Range(seqs[i]) : row \in Stamps /\ row.at \in 1..MaxTime /\ DayOf[row.at] = s[i]
  <2>1. /\ seqs[i] \in Seq(Stamps) /\ Ascending(seqs[i])
        /\ \A row \in Range(seqs[i]) : row.at \in 1..MaxTime /\ DayOf[row.at] = s[i]
    BY <1>1, <1>8, NameParts
  <2>2. \A row \in Range(seqs[i]) : row \in Stamps
    BY <2>1 DEF Range
  <2> QED
    BY <2>1, <2>2
<1>10. ASSUME NEW i \in 1..n, NEW j \in 1..n, i < j, NEW x \in Range(seqs[i]), NEW y \in Range(seqs[j])
       PROVE  Later(y, x)
  <2>1. /\ x.at \in 1..MaxTime /\ y.at \in 1..MaxTime
        /\ DayOf[x.at] = s[i] /\ DayOf[y.at] = s[j] /\ s[i] < s[j] /\ s[i] \in Nat /\ s[j] \in Nat
    BY <1>5, <1>8, <1>9, <1>10
  <2>2. y.at <= x.at => DayOf[y.at] <= DayOf[x.at]
    BY <2>1, ServiceAssumption
  <2>3. y.at > x.at
    BY <2>1, <2>2, ServiceAssumption
  <2> QED
    BY <2>3 DEF Later
<1>11. seqs \in [1..n -> Seq(Stamps)]
  BY <1>6, <1>9
<1>12. /\ FlattenSeq(seqs) \in Seq(Stamps) /\ Ascending(FlattenSeq(seqs))
       /\ Range(FlattenSeq(seqs)) = UNION {Range(seqs[i]) : i \in 1..n}
  BY <1>5, <1>9, <1>10, <1>11, FlatteningInOrder
<1>13. UNION {Range(seqs[i]) : i \in 1..n} = UNION {Range(files[f]) : f \in parts}
  <2>1. \A f \in parts : \E i \in 1..n : seqs[i] = files[f]
    <3>1. TAKE f \in parts
    <3>2. PICK i \in 1..n : s[i] = f[3]
      BY <1>5
    <3> QED
      BY <1>1, <1>8, <3>2
  <2>2. \A i \in 1..n : \E f \in parts : seqs[i] = files[f]
    BY <1>8
  <2> HIDE DEF parts
  <2> QED
    BY <2>1, <2>2
<1> QED
  BY <1>7, <1>12, <1>13 DEF InLake

(* Sealing a batch adds its rows to the lake and no others. *)
LEMMA SealingAddsRows ==
  ASSUME Inv, LakeKept(live), NEW r, NEW files, Seals(r, files), IsFiniteSet(DOMAIN files),
         \A t \in Tables : \A row \in Range(r.tables[t]) : row.at \in 1..MaxTime,
         \A f \in OutputsOf(r) : f[1] = "lake" => Ascending(files[f])
  PROVE  /\ LakeKept(files)
         /\ \A t \in Tables : InLake(files, t) = InLake(live, t) \cup Range(r.tables[t])
<1>1. /\ r \in RunIds /\ InSequence(r) /\ r.before = LiveCheckpoint
      /\ DOMAIN files = DOMAIN live \cup OutputsOf(r)
      /\ DOMAIN live \subseteq Files
  BY NamesInUse DEF Seals
<1>2. \A f \in OutputsOf(r) : f \in Files
  <2>1. TAKE f \in OutputsOf(r)
  <2>2. f[1] = "lake" => f \in Files
    <3>1. SUFFICES ASSUME f[1] = "lake" PROVE f \in Files
      OBVIOUS
    <3>2. f[2] \in Tables /\ f = LakeFile(f[2], f[3]) /\ \E row \in Range(r.tables[f[2]]) : f[3] = DayOf[row.at]
      BY <1>1, <3>1, OutputKinds
    <3>3. f[3] \in Nat
      BY <3>2, ServiceAssumption
    <3> QED
      BY <3>2, <3>3, FileNames
  <2> QED
    BY <1>1, <2>2, OutputKinds, FileNames
<1>3. ASSUME NEW f \in OutputsOf(r), f[1] = "lake"
      PROVE  /\ f[2] \in Tables
             /\ OfItsDay(f, files[f])
             /\ DayRows(r, f) \subseteq Range(files[f])
             /\ f \in DOMAIN live => Range(live[f]) \subseteq Range(files[f])
             /\ \A row \in Range(files[f]) : \/ row \in DayRows(r, f)
                                             \/ f \in DOMAIN live /\ row \in Range(live[f])
  <2>1. f[2] \in Tables
    BY <1>1, <1>3, OutputKinds
  <2>2. CASE Fits(r, f, files[f])
    <3>1. /\ OfItsDay(f, files[f]) /\ DayRows(r, f) \subseteq Range(files[f])
          /\ f \in DOMAIN live => IsPrefix(live[f], files[f])
          /\ \A row \in Range(files[f]) \ DayRows(r, f) : f \in DOMAIN live /\ row \in Range(live[f])
      BY <1>3, <2>2 DEF Fits
    <3>2. f \in DOMAIN live => Range(live[f]) \subseteq Range(files[f])
      BY <1>3, <3>1, PrefixRows DEF LakeKept, OfItsDay
    <3> QED
      BY <2>1, <3>1, <3>2
  <2>3. CASE Published(r, f) /\ files[f] = live[f]
    <3>1. f \in DOMAIN live /\ DayRows(r, f) \subseteq Range(live[f])
      BY <1>3, <2>3 DEF Published
    <3> QED
      BY <1>3, <2>1, <2>3, <3>1 DEF LakeKept
  <2> QED
    BY <2>2, <2>3 DEF Seals
<1>4. ASSUME NEW f \in DOMAIN files, f[1] = "lake"
      PROVE  /\ OfItsDay(f, files[f]) /\ Ascending(files[f])
             /\ \A row \in Range(files[f]) : row.at \in 1..MaxTime
  <2>1. CASE f \in OutputsOf(r)
    <3>1. \A row \in DayRows(r, f) : row.at \in 1..MaxTime
      BY <1>3, <1>4, <2>1 DEF DayRows
    <3>2. f \in DOMAIN live => \A row \in Range(live[f]) : row.at \in 1..MaxTime
      BY <1>4 DEF LakeKept
    <3> QED
      BY <1>3, <1>4, <2>1, <3>1, <3>2
  <2>2. CASE f \notin OutputsOf(r)
    <3>1. f \in DOMAIN live /\ files[f] = live[f]
      BY <1>1, <2>2 DEF Seals
    <3> QED
      BY <1>4, <3>1 DEF LakeKept
  <2> QED
    BY <2>1, <2>2
<1>5. LakeKept(files)
  BY <1>1, <1>2, <1>4 DEF LakeKept
<1>6. ASSUME NEW t \in Tables
      PROVE  InLake(files, t) = InLake(live, t) \cup Range(r.tables[t])
  <2>1. ASSUME NEW f \in DOMAIN files, f[1] = "lake", f[2] = t
        PROVE  Range(files[f]) \subseteq InLake(live, t) \cup Range(r.tables[t])
    <3>1. CASE f \in OutputsOf(r)
      <4>1. DayRows(r, f) \subseteq Range(r.tables[t])
        BY <2>1 DEF DayRows
      <4>2. f \in DOMAIN live => Range(live[f]) \subseteq InLake(live, t)
        BY <2>1 DEF InLake
      <4> QED
        BY <1>3, <2>1, <3>1, <4>1, <4>2
    <3>2. CASE f \notin OutputsOf(r)
      <4>1. f \in DOMAIN live /\ files[f] = live[f]
        BY <1>1, <3>2 DEF Seals
      <4> QED
        BY <2>1, <4>1 DEF InLake
    <3> QED
      BY <3>1, <3>2
  <2>2. ASSUME NEW f \in DOMAIN live, f[1] = "lake", f[2] = t
        PROVE  f \in DOMAIN files /\ Range(live[f]) \subseteq Range(files[f])
    <3>1. CASE f \in OutputsOf(r)
      BY <1>1, <1>3, <2>2, <3>1
    <3>2. CASE f \notin OutputsOf(r)
      BY <1>1, <3>2 DEF Seals
    <3> QED
      BY <3>1, <3>2
  <2>3. ASSUME NEW row \in Range(r.tables[t])
        PROVE  row \in InLake(files, t)
    <3>1. PICK f : f = LakeFile(t, DayOf[row.at])
      OBVIOUS
    <3>2. f \in OutputsOf(r)
      BY <3>1 DEF OutputsOf, Partitions
    <3>3. f[1] = "lake" /\ f[2] = t /\ f[3] = DayOf[row.at]
      BY <3>1, NameParts
    <3>4. row \in DayRows(r, f)
      BY <3>3 DEF DayRows
    <3>5. row \in Range(files[f]) /\ f \in DOMAIN files
      BY <1>1, <1>3, <3>2, <3>3, <3>4
    <3> QED
      BY <3>3, <3>5 DEF InLake
  <2>4. InLake(files, t) \subseteq InLake(live, t) \cup Range(r.tables[t])
    BY <2>1 DEF InLake
  <2>5. InLake(live, t) \subseteq InLake(files, t)
    BY <2>2 DEF InLake
  <2> QED
    BY <2>3, <2>4, <2>5
<1> QED
  BY <1>5, <1>6

(* The rows of a batch come after those in the lake. *)
LEMMA BatchComesLater ==
  ASSUME Inv, LakeInv, \A q : ~Pending(q), NEW r, NEW files, Seals(r, files), NEW t \in Tables,
         NEW x \in InLake(live, t), NEW y \in Range(r.tables[t])
  PROVE  x \in Stamps /\ y \in Stamps /\ Later(y, x)
<1>1. PICK f \in DOMAIN live : f[1] = "lake" /\ f[2] = t /\ x \in Range(live[f])
  BY DEF InLake
<1>2. LiveFits(f) /\ LiveInOrder(f)
  BY DEF Inv, FilesInv, LakeInv
<1>3. Passed(t, x) /\ live[f] \in Seq(Stamps)
  BY <1>1, <1>2 DEF LiveFits, OfItsDay, LiveInOrder
<1>4. ~Later(x, LiveCheckpoint[t])
  BY <1>3 DEF Passed
<1>5. x \in Stamps
  BY <1>1, <1>3 DEF Range
<1>6. y \in Stamps /\ LiveCheckpoint[t] \in Stamps /\ Later(y, LiveCheckpoint[t])
  BY RunIdParts, AfterIsLatest DEF Seals, InSequence
<1> QED
  BY <1>4, <1>5, <1>6, NotLaterIsTransitive

(* Sealing a batch appends its rows to every table's log. *)
LEMMA SealingAppends ==
  ASSUME Inv, LakeInv, \A q : ~Pending(q), LakeKept(live), NEW r, NEW files, Seals(r, files), LakeKept(files),
         NEW t \in Tables, InLake(files, t) = InLake(live, t) \cup Range(r.tables[t])
  PROVE  LogOf(files, t) = LogOf(live, t) \o r.tables[t]
<1>1. PICK old, new, delta : old = LogOf(live, t) /\ new = LogOf(files, t) /\ delta = r.tables[t]
  OBVIOUS
<1>2. old \in Seq(Stamps) /\ Ascending(old) /\ Range(old) = InLake(live, t)
  BY <1>1, LogIsLake
<1>3. new \in Seq(Stamps) /\ Ascending(new) /\ Range(new) = InLake(files, t)
  BY <1>1, LogIsLake
<1>4. delta \in Seq(Stamps) /\ Ascending(delta)
  BY <1>1, RunIdParts DEF Seals, InSequence
<1>5. \A x \in Range(old), y \in Range(delta) : Later(y, x)
  BY <1>1, <1>2, BatchComesLater
<1>6. old \o delta \in Seq(Stamps) /\ Ascending(old \o delta) /\ Range(old \o delta) = Range(old) \cup Range(delta)
  BY <1>2, <1>4, <1>5, JoiningInOrder
<1>7. new = old \o delta
  BY <1>1, <1>2, <1>3, <1>4, <1>6, AscendingIsUnique
<1> QED
  BY <1>1, <1>7

(* Writing READY adds a batch to the lake. *)
LEMMA MarkReadyAddsRows ==
  ASSUME J!SingleInstance, Inv, LakeInv, NEW a \in J!Actors, J!MarkReady(a), LakeKept(live),
         NEW files, files = Overlay(live, dirs[run[a]].files)
  PROVE  /\ a \in Threads /\ Staging(a)
         /\ Seals(run[a], files) /\ LakeKept(files) /\ \A q : ~Pending(q)
         /\ \A t \in Tables : InLake(files, t) = InLake(live, t) \cup Range(run[a].tables[t])
<1>1. PICK r, s : r = run[a] /\ s = steps[a]
  OBVIOUS
<1>2. a \in Threads /\ Staging(a)
  BY DEF J!MarkReady, J!Actors, Inv, J!JournalInv, J!LockInv, Staging
<1>3. /\ Fetched(a) /\ r = IdOf(a) /\ r \in RunIds
      /\ DOMAIN dirs[r].files = Range(s) /\ s \in Seq(Files)
      /\ \A q : ~Pending(q)
  BY <1>1, <1>2, StagingAlone
<1>4. Seals(r, files)
  BY <1>1, MarkReadySealsBatch
<1>5. \A t \in Tables : \A row \in Range(r.tables[t]) : row.at \in 1..MaxTime
  <2>1. TypeOK /\ RequestInv(a)
    BY <1>2 DEF Inv, FilesInv
  <2> QED
    BY <1>2, <1>3, <2>1, RequestKnows
<1>6. IsFiniteSet(DOMAIN files)
  <2>1. DOMAIN s = 1..Len(s) /\ Len(s) \in Nat
    BY <1>3
  <2>2. s \in Surjection(1..Len(s), Range(s))
    BY <1>3, <2>1 DEF Surjection, Range
  <2>3. IsFiniteSet(1..Len(s))
    BY <2>1, FS_Interval
  <2>4. IsFiniteSet(Range(s))
    BY <2>2, <2>3, FS_Surjection
  <2>5. DOMAIN files = DOMAIN live \cup Range(s)
    BY <1>1, <1>3 DEF Overlay
  <2>6. IsFiniteSet(DOMAIN live)
    BY DEF LakeKept
  <2> QED
    BY <2>4, <2>5, <2>6, FS_Union
<1>7. ASSUME NEW f \in OutputsOf(r), f[1] = "lake"
      PROVE  Ascending(files[f])
  <2>1. CASE f \in DOMAIN dirs[r].files
    <3>1. InUse(r)
      BY <1>1, <1>2, StagingAlone
    <3>2. StagedInOrder(r, f, dirs[r].files[f])
      BY <2>1, <3>1 DEF LakeInv, InUse
    <3>3. files[f] = dirs[r].files[f]
      BY <1>1, <2>1 DEF Overlay
    <3> QED
      BY <1>7, <3>2, <3>3 DEF StagedInOrder
  <2>2. CASE f \notin DOMAIN dirs[r].files
    <3>1. f \in DOMAIN live /\ files[f] = live[f]
      BY <1>1, <1>4, <2>2 DEF Seals, Overlay
    <3> QED
      BY <1>7, <3>1 DEF LakeKept
  <2> QED
    BY <2>1, <2>2
<1> QED
  BY <1>1, <1>2, <1>3, <1>4, <1>5, <1>6, <1>7, SealingAddsRows

-----------------------------------------------------------------------------
(* Accounts. *)

EventsIn(files) == {f \in DOMAIN files : f[1] = "events"}
PartsIn(files, t) == {f \in DOMAIN files : f[1] = "lake" /\ f[2] = t}

RowCounts(files, t) == [f \in EventsIn(files) |-> files[f][t].rows]
PartLengths(files, t) == [f \in PartsIn(files, t) |-> Len(files[f])]

(* The events count as many rows as there are in the lake. *)
Accounted(files) ==
  /\ LakeKept(files)
  /\ \A t \in Tables :
       /\ \A f \in EventsIn(files) : files[f][t].rows \in Nat
       /\ Cardinality(Counted(RowCounts(files, t), EventsIn(files))) = Cardinality(InLake(files, t))

(* The partitions of a table are as long as it has rows in the lake: none  *)
(* is in two of them, or in one of them twice.                             *)
LEMMA LakeIsCounted ==
  ASSUME NEW files, LakeKept(files), NEW t \in Tables
  PROVE  /\ IsFiniteSet(InLake(files, t))
         /\ SumFunctionOnSet(PartLengths(files, t), PartsIn(files, t)) = Cardinality(InLake(files, t))
<1> DEFINE parts == PartsIn(files, t)
           length == PartLengths(files, t)
           place == [p \in Counted(length, parts) |-> files[p[1]][p[2]]]
<1>1. ASSUME NEW f \in parts
      PROVE  /\ f = LakeFile(t, f[3])
             /\ files[f] \in Seq(Stamps) /\ Ascending(files[f])
             /\ \A row \in Range(files[f]) : DayOf[row.at] = f[3]
             /\ length[f] = Len(files[f])
  <2>1. f \in Files /\ f[1] = "lake" /\ f[2] = t
    BY DEF LakeKept, PartsIn
  <2>2. f = LakeFile(t, f[3])
    BY <2>1, FileKinds
  <2> QED
    BY <2>1, <2>2 DEF LakeKept, OfItsDay, PartLengths, PartsIn
<1>2. IsFiniteSet(parts) /\ \A f \in parts : length[f] \in Nat
  <2>1. IsFiniteSet(parts)
    BY FS_Subset DEF LakeKept, PartsIn
  <2> QED
    BY <1>1, <2>1
<1>3. /\ IsFiniteSet(Counted(length, parts))
      /\ SumFunctionOnSet(length, parts) = Cardinality(Counted(length, parts))
  <2> HIDE DEF length, parts
  <2> QED
    BY <1>2, SumIsCount
<1>4. \A p \in Counted(length, parts) :
        p[1] \in parts /\ p[2] \in 1..Len(files[p[1]]) /\ p = <<p[1], p[2]>>
  BY <1>1 DEF Counted
<1>5. ASSUME NEW p \in Counted(length, parts), NEW q \in Counted(length, parts), place[p] = place[q]
      PROVE  p = q
  <2>1. PICK f, i, g, j : f = p[1] /\ i = p[2] /\ g = q[1] /\ j = q[2]
    OBVIOUS
  <2>2. /\ f \in parts /\ g \in parts /\ i \in 1..Len(files[f]) /\ j \in 1..Len(files[g])
        /\ p = <<f, i>> /\ q = <<g, j>> /\ files[f][i] = files[g][j]
    BY <1>4, <1>5, <2>1
  <2>3. files[f][i] \in Range(files[f]) /\ files[g][j] \in Range(files[g])
    BY <1>1, <2>2 DEF Range
  <2>4. f[3] = g[3]
    <3>1. PICK row : row = files[f][i]
      OBVIOUS
    <3>2. row \in Range(files[f]) /\ row \in Range(files[g])
      BY <2>2, <2>3, <3>1
    <3>3. DayOf[row.at] = f[3] /\ DayOf[row.at] = g[3]
      BY <1>1, <2>2, <3>2
    <3> QED
      BY <3>3
  <2>5. f = g
    BY <1>1, <2>2, <2>4
  <2>6. i = j
    BY <1>1, <2>2, <2>5, AscendingHasNoDoubles
  <2> QED
    BY <2>2, <2>5, <2>6
<1>6. place \in [Counted(length, parts) -> InLake(files, t)]
  <2>1. \A p \in Counted(length, parts) : files[p[1]][p[2]] \in InLake(files, t)
    BY <1>1, <1>4 DEF InLake, Range, PartsIn
  <2> QED
    BY <2>1
<1>7. \A row \in InLake(files, t) : \E p \in Counted(length, parts) : place[p] = row
  <2>1. TAKE row \in InLake(files, t)
  <2>2. PICK f \in parts : row \in Range(files[f])
    BY DEF InLake, PartsIn
  <2>3. PICK i \in 1..Len(files[f]) : files[f][i] = row
    BY <1>1, <2>2 DEF Range
  <2>4. <<f, i>> \in Counted(length, parts)
    BY <1>1, <2>2, <2>3 DEF Counted
  <2>5. place[<<f, i>>] = row
    BY <2>3, <2>4
  <2> QED
    BY <2>4, <2>5
<1> HIDE DEF place
<1>8. place \in Bijection(Counted(length, parts), InLake(files, t))
  BY <1>5, <1>6, <1>7 DEF Bijection, Injection, Surjection, IsInjective
<1>9. ExistsBijection(Counted(length, parts), InLake(files, t))
  BY <1>8 DEF ExistsBijection
<1> QED
  BY <1>3, <1>9, FS_Bijection

(* What the events of accounted files give adds up. *)
LEMMA AccountsAddUp ==
  ASSUME NEW files, Accounted(files), NEW t \in Tables
  PROVE  SumFunctionOnSet(RowCounts(files, t), EventsIn(files))
           = SumFunctionOnSet(PartLengths(files, t), PartsIn(files, t))
<1>1. IsFiniteSet(EventsIn(files))
  BY FS_Subset DEF Accounted, LakeKept, EventsIn
<1>2. \A f \in EventsIn(files) : RowCounts(files, t)[f] \in Nat
  BY DEF Accounted, RowCounts
<1>3. SumFunctionOnSet(RowCounts(files, t), EventsIn(files))
        = Cardinality(Counted(RowCounts(files, t), EventsIn(files)))
  BY <1>1, <1>2, SumIsCount
<1> QED
  BY <1>3, LakeIsCounted DEF Accounted

(* The events of a batch that is sealed are new, or it has no rows. *)
LEMMA EventsAreNew ==
  ASSUME Inv, LakeInv, \A q : ~Pending(q), NEW r, NEW files, Seals(r, files)
  PROVE  /\ EventsIn(files) = EventsIn(live) \cup {EventsFile(r)}
         /\ files[EventsFile(r)] = EventsOf(r)
         /\ \A f \in EventsIn(live) : files[f] = live[f]
         /\ EventsFile(r) \in DOMAIN live => \A t \in Tables : r.tables[t] = << >>
<1>1. PICK e : e = EventsFile(r)
  OBVIOUS
<1>2. /\ r \in RunIds /\ InSequence(r) /\ r.before = LiveCheckpoint
      /\ DOMAIN files = DOMAIN live \cup OutputsOf(r)
      /\ \A f \in DOMAIN live \ OutputsOf(r) : files[f] = live[f]
  BY DEF Seals
<1>3. e \in OutputsOf(r) /\ e[1] = "events" /\ e[2] = r
  BY <1>1, NameParts DEF OutputsOf
<1>4. \A f \in OutputsOf(r) : f[1] = "events" => f = e
  BY <1>1, <1>2, OutputKinds
<1>5. files[e] = EventsOf(r)
  <2>1. Fits(r, e, files[e]) => files[e] = EventsOf(r)
    BY <1>3 DEF Fits
  <2>2. Published(r, e) => live[e] = EventsOf(r)
    BY <1>3 DEF Published
  <2> QED
    BY <1>3, <2>1, <2>2 DEF Seals
<1>6. ASSUME e \in DOMAIN live
      PROVE  live[e] = EventsOf(r) /\ \A t \in Tables : r.tables[t] = << >>
  <2>1. LiveFits(e) /\ LiveInOrder(e)
    BY <1>6 DEF Inv, FilesInv, LakeInv
  <2>2. live[e] = EventsOf(r) /\ \A t \in Tables : ~Later(AfterOf(r)[t], LiveCheckpoint[t])
    BY <1>3, <2>1 DEF LiveFits, LiveInOrder, Passed
  <2> QED
    BY <1>2, <2>2, AfterIsLatest
<1> QED
  BY <1>1, <1>2, <1>3, <1>4, <1>5, <1>6 DEF EventsIn

(* Sealing a batch adds as many rows to the lake as its events say. *)
LEMMA SealingAccounts ==
  ASSUME Inv, LakeInv, \A q : ~Pending(q), Accounted(live), NEW r, NEW files, Seals(r, files), LakeKept(files),
         \A t \in Tables : InLake(files, t) = InLake(live, t) \cup Range(r.tables[t])
  PROVE  Accounted(files)
<1>1. PICK e : e = EventsFile(r)
  OBVIOUS
<1>2. /\ EventsIn(files) = EventsIn(live) \cup {e} /\ files[e] = EventsOf(r)
      /\ \A f \in EventsIn(live) : files[f] = live[f]
      /\ e \in DOMAIN live => \A t \in Tables : r.tables[t] = << >>
      /\ e[1] = "events"
  BY <1>1, EventsAreNew, NameParts
<1> SUFFICES ASSUME NEW t \in Tables
             PROVE  /\ \A f \in EventsIn(files) : files[f][t].rows \in Nat
                    /\ Cardinality(Counted(RowCounts(files, t), EventsIn(files))) = Cardinality(InLake(files, t))
  BY DEF Accounted
<1>3. PICK delta, n : delta = r.tables[t] /\ n = Len(delta)
  OBVIOUS
<1>4. delta \in Seq(Stamps) /\ Ascending(delta) /\ n \in Nat
  BY <1>3, RunIdParts DEF Seals, InSequence
<1>5. files[e][t].rows = n
  BY <1>2, <1>3 DEF EventsOf
<1>6. \A f \in EventsIn(files) : files[f][t].rows \in Nat
  BY <1>2, <1>4, <1>5 DEF Accounted
<1>7. e \in EventsIn(live) => n = 0
  BY <1>2, <1>3 DEF EventsIn
<1>8. PICK old, new, more : /\ old = Counted(RowCounts(live, t), EventsIn(live))
                            /\ new = Counted(RowCounts(files, t), EventsIn(files))
                            /\ more = {e} \X (1..n)
  OBVIOUS
<1>9. new = old \cup more /\ old \cap more = {}
  <2>1. \A f \in EventsIn(live) : RowCounts(files, t)[f] = RowCounts(live, t)[f]
    BY <1>2 DEF RowCounts
  <2>2. RowCounts(files, t)[e] = n
    BY <1>2, <1>5 DEF RowCounts
  <2>3. new = old \cup more
    BY <1>2, <1>8, <2>1, <2>2 DEF Counted
  <2>4. e \notin EventsIn(live) => old \cap more = {}
    BY <1>8 DEF Counted
  <2>5. e \in EventsIn(live) => more = {}
    BY <1>7, <1>8
  <2> QED
    BY <2>3, <2>4, <2>5
<1>10. IsFiniteSet(old) /\ Cardinality(old) = Cardinality(InLake(live, t))
  <2>1. IsFiniteSet(EventsIn(live))
    BY FS_Subset DEF Accounted, LakeKept, EventsIn
  <2>2. \A f \in EventsIn(live) : RowCounts(live, t)[f] \in Nat
    BY DEF Accounted, RowCounts
  <2>3. IsFiniteSet(Counted(RowCounts(live, t), EventsIn(live)))
    BY <2>1, <2>2, SumIsCount
  <2> QED
    BY <1>8, <2>3 DEF Accounted
<1>11. IsFiniteSet(more) /\ Cardinality(more) = n
  <2>1. IsFiniteSet(1..n) /\ Cardinality(1..n) = n
    BY <1>4, FS_Interval
  <2>2. IsFiniteSet({e}) /\ Cardinality({e}) = 1
    BY FS_Singleton
  <2>3. PICK one, upto : one = {e} /\ upto = 1..n
    OBVIOUS
  <2>4. IsFiniteSet(one) /\ Cardinality(one) = 1 /\ IsFiniteSet(upto) /\ Cardinality(upto) = n
    BY <2>1, <2>2, <2>3
  <2>5. /\ IsFiniteSet(one \X upto)
        /\ Cardinality(one \X upto) = Cardinality(one) * Cardinality(upto)
    BY <2>4, FS_Product
  <2>6. Cardinality(one \X upto) = n
    BY <1>4, <2>4, <2>5
  <2> QED
    BY <1>8, <2>3, <2>5, <2>6
<1>12. IsFiniteSet(Range(delta)) /\ Cardinality(Range(delta)) = n
  BY <1>3, <1>4, AscendingHasNoDoubles
<1>13. IsFiniteSet(InLake(live, t)) /\ InLake(live, t) \cap Range(delta) = {}
  <2>1. IsFiniteSet(InLake(live, t))
    BY LakeIsCounted DEF Accounted
  <2>2. \A x \in InLake(live, t), y \in Range(delta) : x # y
    <3>1. TAKE x \in InLake(live, t), y \in Range(delta)
    <3>2. x \in Stamps /\ y \in Stamps /\ Later(y, x)
      BY <1>3, BatchComesLater
    <3> QED
      BY <3>2, LaterIsAnOrder
  <2> QED
    BY <2>1, <2>2
<1>14. InLake(files, t) = InLake(live, t) \cup Range(delta)
  BY <1>3
<1>15. Cardinality(new) = Cardinality(old) + n
  BY <1>9, <1>10, <1>11, DisjointUnion
<1>16. Cardinality(InLake(files, t)) = Cardinality(InLake(live, t)) + n
  <2>1. PICK a, b : a = InLake(live, t) /\ b = Range(delta)
    OBVIOUS
  <2>2. Cardinality(a \cup b) = Cardinality(a) + Cardinality(b)
    BY <1>12, <1>13, <2>1, DisjointUnion
  <2> QED
    BY <1>12, <1>14, <2>1, <2>2
<1> QED
  BY <1>6, <1>8, <1>10, <1>15, <1>16

(* Nothing accounts for nothing. *)
LEMMA NothingIsAccounted ==
  ASSUME NEW files, DOMAIN files = {}
  PROVE  Accounted(files)
<1>1. LakeKept(files)
  BY FS_EmptySet DEF LakeKept
<1>2. EventsIn(files) = {} /\ \A t \in Tables : InLake(files, t) = {}
  BY DEF EventsIn, InLake
<1>3. \A f : Counted(f, {}) = {}
  BY DEF Counted
<1> QED
  BY <1>1, <1>2, <1>3 DEF Accounted

(* Every step accounts for what it commits. *)
LEMMA AccountsStep ==
  ASSUME J!SingleInstance, Inv, LakeInv, Accounted(J!Committed), [Next]_vars
  PROVE  Accounted(J!Committed')
<1>1. J!TypeOK /\ J!JournalInv /\ [J!Next]_(J!vars)
  BY ServiceIsJournal DEF Inv
<1>2. CASE J!Committed' = J!Committed
  BY <1>2
<1>3. ASSUME NEW a \in J!Actors, J!MarkReady(a), J!Committed = live,
             J!Committed' = Overlay(live, dirs[run[a]].files)
      PROVE  Accounted(J!Committed')
  <2>1. PICK r, files : r = run[a] /\ files = Overlay(live, dirs[run[a]].files)
    OBVIOUS
  <2>2. Accounted(live) /\ LakeKept(live)
    BY <1>3 DEF Accounted
  <2>3. /\ Seals(r, files) /\ LakeKept(files) /\ \A q : ~Pending(q)
        /\ \A t \in Tables : InLake(files, t) = InLake(live, t) \cup Range(r.tables[t])
    BY <1>3, <2>1, <2>2, MarkReadyAddsRows
  <2>4. Accounted(files)
    BY <2>2, <2>3, SealingAccounts
  <2> QED
    BY <1>3, <2>1, <2>4
<1> QED
  BY <1>1, <1>2, <1>3, JournalCommits

(* Files that are accounted for add up. *)
LEMMA AccountedIsEnough ==
  ASSUME Accounted(J!Committed)
  PROVE  EventsAccountForLake
<1> SUFFICES ASSUME NEW t \in Tables
             PROVE  SumFunctionOnSet(RowCounts(J!Committed, t), EventsIn(J!Committed))
                      = SumFunctionOnSet(PartLengths(J!Committed, t), PartsIn(J!Committed, t))
  BY DEF EventsAccountForLake, RowCounts, PartLengths, EventsIn, PartsIn
<1> QED
  BY AccountsAddUp

(* What the replay of pending runs leaves is accounted for. *)
THEOREM CommittedIsAccounted ==
  ASSUME J!SingleInstance
  PROVE  Spec => []Accounted(J!Committed)
<1>1. Init => Accounted(J!Committed)
  BY NothingAtFirst, NothingCommitted, NothingIsAccounted
<1>2. Inv /\ LakeInv /\ Accounted(J!Committed) /\ [Next]_vars => Accounted(J!Committed)'
  BY AccountsStep DEF Accounted, LakeKept
<1> QED
  BY <1>1, <1>2, LakeInvariant, PTL DEF Spec

(* The row counts that the events files give for a table add up to the     *)
(* rows in its partitions, once pending runs are replayed: no batch is     *)
(* counted twice, overwritten by another one's events or published without *)
(* events.                                                                 *)
THEOREM EventsAccount ==
  ASSUME J!SingleInstance
  PROVE  Spec => []EventsAccountForLake
BY AccountedIsEnough, CommittedIsAccounted, PTL

-----------------------------------------------------------------------------
(* How the outputs stand to the source database.  If its writers come      *)
(* after all they find (Discipline "strict" or "keys"), the checkpoint is  *)
(* never ahead of the outputs; if each transaction has a later updated_at  *)
(* than all before it ("strict"), the checkpoint is a cut.  Where a        *)
(* transaction may come before a row that was read, neither is so (run     *)
(* tie_at_watermark).                                                      *)

-----------------------------------------------------------------------------
(* Tables. *)

(* The rows of a table of the source. *)
LEMMA TableRows ==
  ASSUME NEW table \in Partial(1..MaxPk, 1..MaxTime)
  PROVE  \A row \in Rows(table) : row \in Stamps /\ row.at \in 1..MaxTime /\ Later(row, EmptyWatermark)
<1>1. MaxTime \in Nat /\ MaxPk \in Nat
  BY ServiceAssumption
<1>2. DOMAIN table \subseteq 1..MaxPk /\ table \in [DOMAIN table -> 1..MaxTime]
  BY PartialIsFunction
<1>3. \A row \in Rows(table) : row \in Stamps /\ Later(row, EmptyWatermark) /\ row.pk \in DOMAIN table
                                 /\ table[row.pk] = row.at
  BY <1>1, RowsAreStamps
<1> QED
  BY <1>2, <1>3

(* The source is a table for every name. *)
LEMMA SourceIsTables ==
  ASSUME Inv, NEW t \in Tables
  PROVE  source[t] \in Partial(1..MaxPk, 1..MaxTime)
BY TypeByThread DEF Inv, SourceTables

(* A table is its own successor. *)
LEMMA SuccessorOfItself ==
  ASSUME NEW table
  PROVE  Successor(table, table)
BY DEF Successor

(* A row that is new to a table comes after any watermark it had reached.  *)
LEMMA NewRowsPass ==
  ASSUME NEW old \in Partial(1..MaxPk, 1..MaxTime), NEW new \in Partial(1..MaxPk, 1..MaxTime),
         Successor(old, new), NEW w \in Stamps, Reached(old, w), NEW row \in Rows(new) \ Rows(old)
  PROVE  Later(row, w)
<1>1. row \in Stamps /\ Later(row, EmptyWatermark)
  BY TableRows
<1>2. CASE w = EmptyWatermark
  BY <1>1, <1>2
<1>3. ASSUME NEW other \in Rows(old), other = w \/ Later(other, w)
      PROVE  Later(row, w)
  <2>1. other \in Stamps /\ Later(row, other)
    BY TableRows DEF Successor
  <2> QED
    BY <1>1, <1>3, <2>1, LaterIsAnOrder
<1> QED
  BY <1>2, <1>3 DEF Reached

(* What a transaction writes. *)
LEMMA WrittenRows ==
  ASSUME NEW at \in 1..MaxTime, NEW pks \in [Tables -> SUBSET (1..MaxPk)], Transaction(at, pks),
         NEW t \in Tables
  PROVE  /\ DOMAIN source[t] \subseteq DOMAIN source'[t]
         /\ \A row \in Rows(source'[t]) \ Rows(source[t]) : \E pk \in pks[t] : row = Row(at, pk)
<1>1. PICK old : old = source[t]
  OBVIOUS
<1>2. PICK new : new = source'[t]
  OBVIOUS
<1>3. new = Overlay(old, [pk \in pks[t] |-> at])
  BY <1>1, <1>2 DEF Transaction
<1>4. /\ DOMAIN new = DOMAIN old \cup pks[t]
      /\ \A pk \in DOMAIN new : new[pk] = IF pk \in pks[t] THEN at ELSE old[pk]
  BY <1>3 DEF Overlay
<1>5. ASSUME NEW row \in Rows(new) \ Rows(old)
      PROVE  \E pk \in pks[t] : row = Row(at, pk)
  <2>1. PICK pk \in DOMAIN new : row = Row(new[pk], pk)
    BY DEF Rows
  <2>2. pk \in pks[t]
    BY <1>4, <2>1 DEF Rows
  <2> QED
    BY <1>4, <2>1, <2>2
<1> QED
  BY <1>1, <1>2, <1>4, <1>5

WritersFollow == Discipline \in {"strict", "keys"}

(* Where writers come after all they find a table becomes its successor.   *)
LEMMA TablesGoOn ==
  ASSUME WritersFollow, source \in SourceTables, [Next]_vars, NEW t \in Tables
  PROVE  source'[t] \in Partial(1..MaxPk, 1..MaxTime) /\ Successor(source[t], source'[t])
<1>1. source'[t] \in Partial(1..MaxPk, 1..MaxTime)
  BY SourceTypedStep DEF SourceTables
<1>2. CASE source' = source
  BY <1>1, <1>2, SuccessorOfItself
<1>3. ASSUME NEW at \in 1..MaxTime, NEW pks \in [Tables -> SUBSET (1..MaxPk)], Transaction(at, pks)
      PROVE  Successor(source[t], source'[t])
  <2>1. SUFFICES ASSUME NEW row \in Rows(source'[t]) \ Rows(source[t]), NEW other \in Rows(source[t])
                 PROVE  Later(row, other)
    BY <1>3, WrittenRows DEF Successor
  <2>2. PICK pk \in pks[t] : row = Row(at, pk)
    BY <1>3, WrittenRows
  <2>3. CASE Discipline = "strict"
    <3>1. other.at \in Newest
      BY DEF Newest
    <3>2. at > other.at
      BY <1>3, <2>3, <3>1 DEF Transaction, Allowed
    <3> QED
      BY <2>2, <3>2 DEF Later, Row
  <2>4. CASE Discipline = "keys"
    BY <1>3, <2>2, <2>4 DEF Transaction, Allowed
  <2> QED
    BY <2>3, <2>4 DEF WritersFollow
<1> QED
  BY <1>1, <1>2, <1>3, SourceTypedStep DEF SourceChanges

(* The same of what the invariant knows. *)
LEMMA SourceGoesOn ==
  ASSUME WritersFollow, Inv, [Next]_vars, NEW t \in Tables
  PROVE  source'[t] \in Partial(1..MaxPk, 1..MaxTime) /\ Successor(source[t], source'[t])
BY TablesGoOn, TypeByThread DEF Inv

-----------------------------------------------------------------------------
(* Requests. *)

(* What a request's snapshot and checkpoint become: it forgets them, keeps *)
(* them, or reads the source as it is.                                     *)
LEMMA LookStep ==
  ASSUME Inv, [Next]_vars, NEW t \in Threads
  PROVE  \/ req'[t].snap = << >>
         \/ /\ req'[t].snap = req[t].snap /\ req'[t].dry = req[t].dry
            /\ req[t].before # << >> => req'[t].before = req[t].before
         \/ /\ pc[t] = "prepare" /\ req[t].before # << >>
            /\ req'[t].snap = source /\ req'[t].before = req[t].before
            /\ source' = source
<1>0. DOMAIN req = Threads /\ NewRequest.snap = << >> /\ \A u \in Threads : ThreadTyped(u)
  BY TypeByThread, NewRequestFields DEF Inv
<1>1. CASE req' = req
  BY <1>1
<1>2. CASE KeepRequests
  BY <1>0, <1>2 DEF KeepRequests
<1>3. ASSUME NEW u \in Threads, NEW dry \in BOOLEAN, Request(u, dry)
      PROVE  req'[t].snap = << >> \/ req'[t] = req[t]
  <2>1. req'[t] = [NewRequest EXCEPT !.dry = dry] \/ req'[t] = req[t]
    BY <1>0, <1>3 DEF Request
  <2>2. [NewRequest EXCEPT !.dry = dry].snap = << >>
    BY DEF NewRequest
  <2> QED
    BY <2>1, <2>2
<1>4. ASSUME NEW u \in Threads, LoadCheckpoint(u)
      PROVE  \/ req'[t] = req[t]
             \/ req'[t].snap = req[t].snap /\ req'[t].dry = req[t].dry /\ req[t].before = << >>
  <2>1. req'[t] = req[t] \/ (t = u /\ req'[t] = [req[t] EXCEPT !.before = LiveCheckpoint])
    BY <1>0, <1>4 DEF LoadCheckpoint
  <2>2. DOMAIN req[t] = {"dry", "before", "snap", "delta"}
    BY <1>0 DEF ThreadTyped
  <2>3. ASSUME t = u, req'[t] = [req[t] EXCEPT !.before = LiveCheckpoint]
        PROVE  req'[t].snap = req[t].snap /\ req'[t].dry = req[t].dry /\ req[t].before = << >>
    <3>1. req'[t].snap = req[t].snap /\ req'[t].dry = req[t].dry
      BY <2>2, <2>3
    <3> QED
      BY <1>4, <2>3, <3>1 DEF LoadCheckpoint
  <2> QED
    BY <2>1, <2>3
<1>5. ASSUME NEW u \in Threads, FetchDelta(u)
      PROVE  \/ req'[t] = req[t]
             \/ /\ req'[t].snap = req[t].snap /\ req'[t].dry = req[t].dry
                /\ req'[t].before = req[t].before
             \/ /\ pc[t] = "prepare" /\ req[t].before # << >>
                /\ req'[t].snap = source /\ req'[t].before = req[t].before
                /\ source' = source
  <2>1. CASE t # u
    BY <1>0, <1>5, <2>1 DEF FetchDelta
  <2>2. CASE t = u
    <3> DEFINE table == TableSpecs[Cardinality(DOMAIN req[t].delta) + 1]
    <3>1. PICK rows : req' = [req EXCEPT ![t].snap = Snapshot(t), ![t].delta = Put(@, table, rows)]
      BY <1>5, <2>2 DEF FetchDelta
    <3> HIDE DEF table
    <3>2. req'[t].snap = Snapshot(t) /\ req'[t].dry = req[t].dry /\ req'[t].before = req[t].before
      <4>1. DOMAIN req[t] = {"dry", "before", "snap", "delta"}
        BY <1>0 DEF ThreadTyped
      <4> QED
        BY <1>0, <3>1, <4>1
    <3> QED
      BY <1>5, <2>2, <3>2 DEF FetchDelta, Snapshot
  <2> QED
    BY <2>1, <2>2
<1>6. CASE Next
  <2>1. \/ req' = req
        \/ KeepRequests
        \/ \E u \in Threads, dry \in BOOLEAN : Request(u, dry)
        \/ \E u \in Threads : LoadCheckpoint(u)
        \/ \E u \in Threads : FetchDelta(u)
    BY <1>6 DEF Next, SourceChanges, Transaction, Boot, Ingest, ReturnDry, BeginRun, StageNext, Work,
                Fault, SourceFails
  <2> QED
    BY <1>1, <1>2, <1>3, <1>4, <1>5, <2>1
<1> QED
  BY <1>1, <1>6 DEF vars

(* A directory comes into use when a request names its run. *)
LEMMA InUseStep ==
  ASSUME J!SingleInstance, Inv, [Next]_vars, NEW r \in DOMAIN dirs', InUse(r)'
  PROVE  \/ r \in DOMAIN dirs /\ InUse(r)
         \/ \E t \in Threads : BeginRun(t) /\ r = IdOf(t)
<1>1. CASE Quiet
  BY <1>1 DEF Quiet
<1>2. ASSUME NEW t \in Threads, BeginRun(t)
      PROVE  r = IdOf(t)
  <2>1. pc[t] = "prepare" /\ t \in J!Actors
    BY <1>2 DEF BeginRun, J!BeginRun, J!Actors
  <2>2. DOMAIN dirs = {}
    BY <2>1 DEF Inv, J!JournalInv, J!ActorInv
  <2> QED
    BY <1>2, <2>2 DEF BeginRun, J!BeginRun, J!SetDir, J!DirOf, J!Put
<1>3. ASSUME NEW t \in Threads, StageNext(t)
      PROVE  r \in DOMAIN dirs /\ InUse(r)
  <2>1. Staging(t)
    BY <1>3 DEF StageNext, Staging
  <2>2. DOMAIN dirs = {run[t]} /\ InUse(run[t])
    BY <2>1, StagingAlone
  <2>3. DOMAIN dirs' \subseteq DOMAIN dirs \cup {run[t]}
    BY <1>3 DEF StageNext, J!StageFile, J!SetDir, J!Put
  <2> QED
    BY <2>2, <2>3
<1>4. ASSUME NEW a \in J!Actors, J!Replace(a)
      PROVE  r \in DOMAIN dirs /\ InUse(r)
  <2>1. DOMAIN dirs = {run[a]} /\ InUse(run[a])
    BY <1>4, RenamingAlone
  <2>2. DOMAIN dirs' \subseteq DOMAIN dirs \cup {run[a]}
    BY <1>4 DEF J!Replace, J!SetDir, J!Put
  <2> QED
    BY <2>1, <2>2
<1> QED
  BY <1>1, <1>2, <1>3, <1>4, StepKinds

(* A batch follows what its request saw of the source. *)
LEMMA BatchFollows ==
  ASSUME Inv, NEW t \in Threads, Fetched(t), LooksBack(t)
  PROVE  Follows(IdOf(t))
<1>1. PICK r : r = IdOf(t)
  OBVIOUS
<1>2. /\ r \in RunIds /\ r.before = req[t].before /\ r.tables = req[t].delta /\ InSequence(r)
      /\ req[t].before \in Checkpoints
  BY <1>1, RequestKnows DEF Inv, FilesInv
<1>3. req[t].delta # << >>
  BY ServiceAssumption DEF Fetched
<1>4. req[t].snap # << >> /\ req[t].snap \in SourceTables
  BY <1>3, TypeByThread DEF Inv, ThreadTyped
<1>5. MaxTime \in Nat /\ MaxPk \in Nat
  BY ServiceAssumption
<1>6. ASSUME NEW table \in Tables
      PROVE  /\ Reached(source[table], AfterOf(r)[table])
             /\ \A row \in Rows(source[table]) : \/ Later(row, AfterOf(r)[table])
                                                  \/ row \in Range(r.tables[table])
                                                  \/ ~Later(row, r.before[table])
  <2>1. PICK seen : seen = req[t].snap[table]
    OBVIOUS
  <2>2. PICK now : now = source[table]
    OBVIOUS
  <2>3. seen \in Partial(1..MaxPk, 1..MaxTime) /\ now \in Partial(1..MaxPk, 1..MaxTime)
    BY <1>4, <2>1, <2>2, SourceIsTables DEF SourceTables
  <2>4. Successor(seen, now) /\ Reached(seen, r.before[table])
    BY <1>2, <1>4, <2>1, <2>2 DEF LooksBack
  <2>5. r.tables[table] \in Ordered(Matching(seen, r.before[table])) /\ r.before[table] \in Stamps
    BY <1>2, <2>1, RunIdParts DEF Fetched, Inv, FilesInv, RequestInv
  <2>6. /\ Range(r.tables[table]) = Matching(seen, r.before[table])
        /\ Range(r.tables[table]) \subseteq Rows(seen)
    BY <1>5, <2>3, <2>5, DeltaIsMatching
  <2>7. AfterOf(r)[table] \in Stamps
        /\ (r.tables[table] = << >> => AfterOf(r)[table] = r.before[table])
        /\ (r.tables[table] # << >> => AfterOf(r)[table] \in Range(r.tables[table]))
    BY <1>2, RunIdParts, AfterIsLatest
  <2>8. Reached(seen, AfterOf(r)[table])
    BY <2>4, <2>6, <2>7 DEF Reached
  <2>9. Reached(now, AfterOf(r)[table])
    BY <1>5, <2>3, <2>4, <2>7, <2>8, ReachedForEver
  <2>10. ASSUME NEW row \in Rows(now)
         PROVE  \/ Later(row, AfterOf(r)[table])
                \/ row \in Range(r.tables[table])
                \/ ~Later(row, r.before[table])
    <3>1. CASE row \in Rows(seen)
      BY <2>6, <3>1 DEF Matching
    <3>2. CASE row \notin Rows(seen)
      BY <2>3, <2>4, <2>7, <2>8, <3>2, NewRowsPass
    <3> QED
      BY <3>1, <3>2
  <2> QED
    BY <2>2, <2>9, <2>10
<1> QED
  BY <1>1, <1>6 DEF Follows

-----------------------------------------------------------------------------
(* The checkpoint is never ahead. *)

(* Each part of SourceInv after a step. *)
LEMMA LooksBackStep ==
  ASSUME WritersFollow, Inv, SourceInv, [Next]_vars, NEW t \in Threads
  PROVE  LooksBack(t)'
<1>1. MaxTime \in Nat /\ MaxPk \in Nat
  BY ServiceAssumption
<1>2. \A u \in Threads : ThreadTyped(u)
  BY TypeByThread DEF Inv
<1>3. CASE req'[t].snap = << >>
  BY <1>3 DEF LooksBack
<1>4. CASE /\ req[t].snap # << >>
           /\ req'[t].snap = req[t].snap /\ (req[t].before # << >> => req'[t].before = req[t].before)
  <2>1. /\ req[t].before # << >> /\ req'[t].before = req[t].before
        /\ \A table \in Tables : /\ Successor(req[t].snap[table], source[table])
                                 /\ Reached(req[t].snap[table], req[t].before[table])
    BY <1>4 DEF SourceInv, LooksBack
  <2>2. ASSUME NEW table \in Tables
        PROVE  Successor(req[t].snap[table], source'[table])
    <3>1. /\ req[t].snap[table] \in Partial(1..MaxPk, 1..MaxTime)
          /\ source[table] \in Partial(1..MaxPk, 1..MaxTime)
          /\ source'[table] \in Partial(1..MaxPk, 1..MaxTime)
          /\ Successor(source[table], source'[table])
      BY <1>2, <1>4, SourceIsTables, SourceGoesOn DEF ThreadTyped, SourceTables
    <3> QED
      BY <1>1, <2>1, <3>1, SuccessorsCompose
  <2> QED
    BY <1>4, <2>1, <2>2 DEF LooksBack
<1>5. CASE /\ pc[t] = "prepare" /\ req[t].before # << >>
           /\ req'[t].snap = source /\ req'[t].before = req[t].before
           /\ source' = source
  <2>1. req[t].before = LiveCheckpoint
    BY <1>5 DEF Inv, FilesInv, RequestInv
  <2>2. \A table \in Tables : Reached(source[table], req[t].before[table])
    BY <2>1 DEF SourceInv, MarksReached
  <2> QED
    BY <1>5, <2>2, SuccessorOfItself DEF LooksBack
<1> QED
  BY <1>3, <1>4, <1>5, LookStep

(* Batches go on following the source. *)
LEMMA FollowsStep ==
  ASSUME J!SingleInstance, WritersFollow, Inv, SourceInv, [Next]_vars, NEW r \in DOMAIN dirs', InUse(r)'
  PROVE  r \in RunIds /\ Follows(r)'
<1>1. r \in RunIds /\ Follows(r)
  <2>1. CASE r \in DOMAIN dirs /\ InUse(r)
    BY <2>1, NamesInUse DEF SourceInv
  <2>2. ASSUME NEW t \in Threads, BeginRun(t), r = IdOf(t)
        PROVE  r \in RunIds /\ Follows(r)
    <3>1. Fetched(t) /\ LooksBack(t)
      BY <2>2 DEF BeginRun, SourceInv
    <3> QED
      BY <2>2, <3>1, BatchFollows, RequestKnows DEF Inv, FilesInv
  <2> QED
    BY <2>1, <2>2, InUseStep
<1>2. ASSUME NEW t \in Tables
      PROVE  /\ Reached(source'[t], AfterOf(r)[t])
             /\ \A row \in Rows(source'[t]) : \/ Later(row, AfterOf(r)[t])
                                               \/ row \in Range(r.tables[t])
                                               \/ ~Later(row, r.before[t])
  <2>1. PICK old : old = source[t]
    OBVIOUS
  <2>2. PICK new : new = source'[t]
    OBVIOUS
  <2>3. /\ old \in Partial(1..MaxPk, 1..MaxTime) /\ new \in Partial(1..MaxPk, 1..MaxTime)
        /\ Successor(old, new) /\ MaxTime \in Nat /\ MaxPk \in Nat
    BY <2>1, <2>2, SourceIsTables, SourceGoesOn, ServiceAssumption
  <2>4. AfterOf(r)[t] \in Stamps /\ Reached(old, AfterOf(r)[t])
    BY <1>1, <2>1, RunIdParts DEF Follows
  <2>5. Reached(new, AfterOf(r)[t])
    BY <2>3, <2>4, ReachedForEver
  <2>6. \A row \in Rows(new) \ Rows(old) : Later(row, AfterOf(r)[t])
    BY <2>3, <2>4, NewRowsPass
  <2> QED
    BY <1>1, <2>1, <2>2, <2>5, <2>6 DEF Follows
<1> QED
  BY <1>1, <1>2 DEF Follows, AfterOf

(* The batch that is renamed is in use. *)
LEMMA RenamedFollows ==
  ASSUME Inv, SourceInv, NEW r, NEW f, RenamesOne(r, f)
  PROVE  r \in RunIds /\ InUse(r) /\ Follows(r) /\ r.before = LiveCheckpoint
<1>1. r \in RunIds /\ r \in DOMAIN dirs /\ dirs[r].ready /\ r.before = LiveCheckpoint
  BY DEF RenamesOne, Pending
<1> QED
  BY <1>1 DEF InUse, SourceInv

(* The source reaches every new watermark. *)
LEMMA MarksStep ==
  ASSUME J!SingleInstance, WritersFollow, Inv, SourceInv, [Next]_vars
  PROVE  MarksReached'
<1> SUFFICES ASSUME NEW t \in Tables
             PROVE  Reached(source'[t], LiveCheckpoint'[t])
  BY DEF MarksReached
<1>1. PICK w : w = LiveCheckpoint'
  OBVIOUS
<1>2. w[t] \in Stamps /\ Reached(source[t], w[t])
  <2>1. CASE w = LiveCheckpoint
    BY <2>1, LiveCheckpointType DEF SourceInv, MarksReached, Checkpoints
  <2>2. ASSUME NEW r, NEW f, RenamesOne(r, f), w = AfterOf(r)
        PROVE  w[t] \in Stamps /\ Reached(source[t], w[t])
    BY <2>2, RenamedFollows, RunIdParts DEF Follows
  <2>3. \/ w = LiveCheckpoint
        \/ \E r, f : RenamesOne(r, f) /\ w = AfterOf(r)
    BY <1>1, LiveChangesByRenames DEF RenamesOne, LiveCheckpoint
  <2> QED
    BY <2>1, <2>2, <2>3
<1>3. /\ source[t] \in Partial(1..MaxPk, 1..MaxTime) /\ source'[t] \in Partial(1..MaxPk, 1..MaxTime)
      /\ Successor(source[t], source'[t]) /\ MaxTime \in Nat /\ MaxPk \in Nat
  BY SourceIsTables, SourceGoesOn, ServiceAssumption
<1>4. Reached(source'[t], w[t])
  <2>1. PICK a, b : a = source[t] /\ b = source'[t]
    OBVIOUS
  <2> QED
    BY <1>2, <1>3, <2>1, ReachedForEver
<1> QED
  BY <1>1, <1>4

(* A rename of the checkpoint finds the batch in the lake. *)
LEMMA NeverAheadStep ==
  ASSUME J!SingleInstance, WritersFollow, Inv, SourceInv, [Next]_vars
  PROVE  CheckpointNeverAhead'
<1> SUFFICES ASSUME NEW t \in Tables, NEW row \in Rows(source'[t])
             PROVE  Later(row, LiveCheckpoint'[t]) \/ row \in InLake(live', t)
  BY DEF CheckpointNeverAhead
<1>1. PICK w : w = LiveCheckpoint'
  OBVIOUS
<1>2. CASE row \notin Rows(source[t])
  <2>1. /\ source[t] \in Partial(1..MaxPk, 1..MaxTime) /\ source'[t] \in Partial(1..MaxPk, 1..MaxTime)
        /\ Successor(source[t], source'[t])
    BY SourceIsTables, SourceGoesOn
  <2>2. source' # source
    BY <1>2
  <2>3. live' = live
    BY <2>2, SourceStep DEF SourceChanges, Transaction
  <2>4. w = LiveCheckpoint
    BY <1>1, <2>3 DEF LiveCheckpoint
  <2>5. w[t] \in Stamps /\ Reached(source[t], w[t])
    BY <2>4, LiveCheckpointType DEF SourceInv, MarksReached, Checkpoints
  <2>6. PICK a, b : a = source[t] /\ b = source'[t]
    OBVIOUS
  <2>7. Later(row, w[t])
    BY <1>2, <2>1, <2>5, <2>6, NewRowsPass
  <2> QED
    BY <1>1, <2>7
<1>3. CASE row \in Rows(source[t])
  <2>1. Later(row, LiveCheckpoint[t]) \/ row \in InLake(live, t)
    BY <1>3 DEF SourceInv, CheckpointNeverAhead
  <2>2. CASE live' = live
    <3>1. w = LiveCheckpoint
      BY <1>1, <2>2 DEF LiveCheckpoint
    <3> QED
      BY <1>1, <2>1, <2>2, <3>1
  <2>3. ASSUME NEW r, NEW f, RenamesOne(r, f)
        PROVE  Later(row, w[t]) \/ row \in InLake(live', t)
    <3>1. r \in RunIds /\ Follows(r) /\ r.before = LiveCheckpoint
      BY <2>3, RenamedFollows
    <3>2. InLake(live, t) \subseteq InLake(live', t)
      BY <2>3, LakeGrows
    <3>3. CASE f = CheckpointFile
      <4>1. w = AfterOf(r)
        BY <1>1, <2>3, <3>3 DEF RenamesOne
      <4>2. \A g \in OutputsOf(r) : g[1] = "lake" => Published(r, g)
        BY <2>3, <3>3, NameParts DEF RenamesOne, Rank, KindOrder
      <4>3. Range(r.tables[t]) \subseteq InLake(live, t)
        BY <3>1, <4>2, PublishedRows
      <4>4. Later(row, w[t]) \/ row \in Range(r.tables[t]) \/ ~Later(row, LiveCheckpoint[t])
        BY <1>3, <3>1, <4>1 DEF Follows
      <4> QED
        BY <2>1, <3>2, <4>3, <4>4
    <3>4. CASE f # CheckpointFile
      <4>1. w = LiveCheckpoint
        BY <1>1, <2>3, <3>4 DEF RenamesOne
      <4> QED
        BY <2>1, <3>2, <4>1
    <3> QED
      BY <3>3, <3>4
  <2> QED
    BY <1>1, <2>2, <2>3, LiveChangesByRenames
<1> QED
  BY <1>2, <1>3

(* At first the source is empty. *)
LEMMA NoSource ==
  ASSUME Init
  PROVE  SourceInv
<1>1. /\ live = << >> /\ dirs = << >> /\ DOMAIN << >> = {}
      /\ source = [t \in Tables |-> << >>] /\ req = [t \in Threads |-> NewRequest]
  BY DEF Init, J!Init
<1>2. \A t \in Tables : Rows(source[t]) = {}
  BY <1>1 DEF Rows
<1>3. MarksReached
  BY <1>1 DEF MarksReached, LiveCheckpoint, InitialCheckpoint, Reached
<1>4. \A t \in Threads : LooksBack(t)
  BY <1>1, NewRequestFields DEF LooksBack
<1> QED
  BY <1>1, <1>2, <1>3, <1>4 DEF SourceInv, CheckpointNeverAhead

(* No step takes the source back or passes over a row. *)
LEMMA SourceInvStep ==
  ASSUME J!SingleInstance, WritersFollow, Inv, SourceInv, [Next]_vars
  PROVE  SourceInv'
<1>1. MarksReached' /\ CheckpointNeverAhead'
  BY MarksStep, NeverAheadStep
<1>2. \A t \in Threads : LooksBack(t)'
  BY LooksBackStep
<1>3. \A r \in DOMAIN dirs' : InUse(r)' => Follows(r)'
  BY FollowsStep
<1> QED
  BY <1>1, <1>2, <1>3 DEF SourceInv

(* The source has reached every watermark, and every row that a watermark  *)
(* has passed is in the lake.                                              *)
THEOREM SourceInvariant ==
  ASSUME J!SingleInstance, WritersFollow
  PROVE  Spec => []SourceInv
BY NoSource, SourceInvStep, ServiceInvariant, PTL DEF Spec

(* "The checkpoint never advances ahead of durable outputs" (README): what *)
(* the live checkpoint has passed is in the live lake, at any moment of a  *)
(* run, of a crash or of a recovery.                                       *)
THEOREM CheckpointIsNeverAhead ==
  ASSUME J!SingleInstance, WritersFollow
  PROVE  Spec => []CheckpointNeverAhead
<1>1. SourceInv => CheckpointNeverAhead
  BY DEF SourceInv
<1> QED
  BY <1>1, SourceInvariant, PTL

-----------------------------------------------------------------------------
(* The checkpoint is a cut. *)

Strict == Discipline = "strict"

(* The times of the source. *)
LEMMA NewestTimes ==
  ASSUME Inv
  PROVE  /\ Newest \subseteq 1..MaxTime
         /\ \A t \in Tables : \A row \in Rows(source[t]) : row.at \in Newest
BY SourceIsTables, TableRows DEF Newest

(* A moment stays one: a row that has come to it is only replaced by later *)
(* ones.                                                                   *)
LEMMA MomentStays ==
  ASSUME WritersFollow, Inv, [Next]_vars, NEW now \in 0..MaxTime, Moment(now)
  PROVE  Moment(now)'
<1>1. CASE now = 0
  BY <1>1 DEF Moment
<1>2. ASSUME NEW s \in Newest, now <= s
      PROVE  \E new \in Newest' : now <= new
  <2>1. PICK t \in Tables : \E row \in Rows(source[t]) : row.at = s
    BY DEF Newest
  <2>2. PICK row \in Rows(source[t]) : row.at = s
    BY <2>1
  <2>3. PICK a, b : a = source[t] /\ b = source'[t]
    OBVIOUS
  <2>4. /\ a \in Partial(1..MaxPk, 1..MaxTime) /\ b \in Partial(1..MaxPk, 1..MaxTime) /\ Successor(a, b)
        /\ MaxTime \in Nat /\ MaxPk \in Nat
    BY <2>3, SourceIsTables, SourceGoesOn, ServiceAssumption
  <2>5. PICK new \in Rows(b) : new = row \/ Later(new, row)
    BY <2>2, <2>3, <2>4, SuccessorsGrow
  <2>6. new.at \in 1..MaxTime /\ row.at \in 1..MaxTime
    BY <2>2, <2>3, <2>4, TableRows
  <2>7. now <= new.at
    BY <1>2, <2>2, <2>4, <2>5, <2>6 DEF Later
  <2>8. new.at \in Newest'
    BY <2>3 DEF Newest
  <2> QED
    BY <2>7, <2>8
<1> QED
  BY <1>1, <1>2 DEF Moment

(* What is written is written after every moment there was. *)
LEMMA WrittenLater ==
  ASSUME Strict, Inv, [Next]_vars, NEW now \in 0..MaxTime, Moment(now),
         NEW t \in Tables, NEW row \in Rows(source'[t]) \ Rows(source[t])
  PROVE  row.at > now
<1>1. source' # source
  OBVIOUS
<1>2. PICK at \in 1..MaxTime, pks \in [Tables -> SUBSET (1..MaxPk)] : Transaction(at, pks)
  BY <1>1, SourceStep DEF SourceChanges
<1>3. row.at = at
  BY <1>2, WrittenRows DEF Row
<1>4. \A s \in Newest : at > s
  BY <1>2 DEF Strict, Transaction, Allowed
<1>5. MaxTime \in Nat /\ Newest \subseteq 1..MaxTime
  BY ServiceAssumption, NewestTimes
<1> QED
  BY <1>3, <1>4, <1>5 DEF Moment

(* Watermarks that are a cut stay one. *)
LEMMA CutStays ==
  ASSUME Strict, Inv, [Next]_vars, NEW w \in Checkpoints, Cut(w), \A t \in Tables : Reached(source[t], w[t])
  PROVE  Cut(w)'
<1>1. PICK now \in 0..MaxTime :
        /\ Moment(now)
        /\ \A t \in Tables : \A row \in Rows(source[t]) : row.at > now <=> Later(row, w[t])
  BY DEF Cut
<1>2. ASSUME NEW t \in Tables, NEW row \in Rows(source'[t]) \ Rows(source[t])
      PROVE  row.at > now /\ Later(row, w[t])
  <2>1. PICK a, b : a = source[t] /\ b = source'[t]
    OBVIOUS
  <2>2. /\ a \in Partial(1..MaxPk, 1..MaxTime) /\ b \in Partial(1..MaxPk, 1..MaxTime) /\ Successor(a, b)
    BY <2>1, SourceIsTables, SourceGoesOn DEF Strict, WritersFollow
  <2>3. w[t] \in Stamps
    BY DEF Checkpoints
  <2>4. Later(row, w[t])
    BY <2>1, <2>2, <2>3, NewRowsPass
  <2> QED
    BY <1>1, <2>4, WrittenLater
<1>3. Moment(now)'
  BY <1>1, MomentStays DEF Strict, WritersFollow
<1>4. \A t \in Tables : \A row \in Rows(source'[t]) : row.at > now <=> Later(row, w[t])
  BY <1>1, <1>2
<1> QED
  BY <1>3, <1>4 DEF Cut

(* So does a snapshot of one moment. *)
LEMMA MomentsStay ==
  ASSUME Strict, Inv, [Next]_vars, NEW snap \in SourceTables, OfAMoment(snap)
  PROVE  OfAMoment(snap)'
<1>1. PICK now \in 0..MaxTime :
        /\ Moment(now)
        /\ \A t \in Tables : \A row \in Rows(source[t]) : row.at > now <=> row \notin Rows(snap[t])
        /\ \A t \in Tables : \A row \in Rows(snap[t]) : row.at <= now
  BY DEF OfAMoment
<1>2. Moment(now)'
  BY <1>1, MomentStays DEF Strict, WritersFollow
<1>3. ASSUME NEW t \in Tables, NEW row \in Rows(source'[t])
      PROVE  row.at > now <=> row \notin Rows(snap[t])
  <2>1. CASE row \in Rows(source[t])
    BY <1>1, <2>1
  <2>2. CASE row \notin Rows(source[t])
    <3>1. row.at > now /\ row.at \in Nat /\ now \in Nat
      <4>1. source'[t] \in Partial(1..MaxPk, 1..MaxTime)
        BY SourceStep DEF SourceTables
      <4> QED
        BY <1>1, <2>2, <4>1, WrittenLater, TableRows
    <3>2. row \notin Rows(snap[t])
      BY <1>1, <3>1
    <3> QED
      BY <3>1, <3>2
  <2> QED
    BY <2>1, <2>2
<1> QED
  BY <1>1, <1>2, <1>3 DEF OfAMoment

(* The source itself is of a moment: of its newest. *)
LEMMA SourceIsOfAMoment ==
  ASSUME Inv
  PROVE  OfAMoment(source)
<1>1. MaxTime \in Nat /\ Newest \subseteq 1..MaxTime
  BY ServiceAssumption, NewestTimes
<1> DEFINE bounds == {n \in 0..MaxTime : \A s \in Newest : s <= n}
<1>2. bounds \in SUBSET Nat /\ MaxTime \in bounds
  BY <1>1
<1>3. PICK now \in bounds : \A n \in bounds : now <= n
  BY <1>2, LeastOf
<1>4. now \in 0..MaxTime /\ \A s \in Newest : s <= now
  BY <1>3
<1>5. now = 0 \/ \E s \in Newest : now <= s
  <2>1. SUFFICES ASSUME now # 0, \A s \in Newest : ~(now <= s)
                 PROVE  FALSE
    OBVIOUS
  <2>2. now - 1 \in 0..MaxTime /\ \A s \in Newest : s <= now - 1
    BY <1>1, <1>4, <2>1
  <2>3. now <= now - 1
    BY <1>3, <2>2
  <2> QED
    BY <1>1, <1>4, <2>3
<1>6. \A t \in Tables : \A row \in Rows(source[t]) : row.at <= now /\ ~(row.at > now)
  <2>1. \A s \in Newest : s <= now /\ ~(s > now)
    BY <1>1, <1>4
  <2> QED
    BY <2>1, NewestTimes
<1> QED
  BY <1>4, <1>5, <1>6 DEF OfAMoment, Moment

(* A batch that was read at one moment leaves the watermarks at it. *)
LEMMA BatchIsCut ==
  ASSUME Inv, NEW t \in Threads, Fetched(t), LooksBack(t), OfAMoment(req[t].snap)
  PROVE  Cut(AfterOf(IdOf(t)))
<1>1. PICK r : r = IdOf(t)
  OBVIOUS
<1>2. /\ r \in RunIds /\ r.before = req[t].before /\ r.tables = req[t].delta /\ InSequence(r)
  BY <1>1, RequestKnows DEF Inv, FilesInv
<1>3. req[t].snap # << >> /\ req[t].snap \in SourceTables
  <2>1. req[t].delta # << >>
    BY ServiceAssumption DEF Fetched
  <2> QED
    BY <2>1, TypeByThread DEF Inv, ThreadTyped
<1>4. MaxTime \in Nat /\ MaxPk \in Nat
  BY ServiceAssumption
<1>5. PICK now \in 0..MaxTime :
        /\ Moment(now)
        /\ \A table \in Tables : \A row \in Rows(source[table]) :
             row.at > now <=> row \notin Rows(req[t].snap[table])
  BY DEF OfAMoment
<1>6. ASSUME NEW table \in Tables, NEW row \in Rows(source[table])
      PROVE  row.at > now <=> Later(row, AfterOf(r)[table])
  <2>1. PICK seen, new : seen = req[t].snap[table] /\ new = source[table]
    OBVIOUS
  <2>2. seen \in Partial(1..MaxPk, 1..MaxTime) /\ new \in Partial(1..MaxPk, 1..MaxTime)
    BY <1>3, <2>1, SourceIsTables DEF SourceTables
  <2>3. Successor(seen, new) /\ Reached(seen, r.before[table])
    BY <1>2, <1>3, <2>1 DEF LooksBack
  <2>4. r.tables[table] \in Ordered(Matching(seen, r.before[table])) /\ r.before[table] \in Stamps
    BY <1>2, <2>1, RunIdParts DEF Fetched, Inv, FilesInv, RequestInv
  <2>5. /\ Range(r.tables[table]) = Matching(seen, r.before[table])
        /\ Range(r.tables[table]) \subseteq Rows(seen)
    BY <1>4, <2>2, <2>4, DeltaIsMatching
  <2>6. /\ AfterOf(r)[table] \in Stamps
        /\ r.tables[table] = << >> => AfterOf(r)[table] = r.before[table]
        /\ r.tables[table] # << >> => AfterOf(r)[table] \in Range(r.tables[table])
        /\ \A x \in Range(r.tables[table]) : ~Later(x, AfterOf(r)[table])
        /\ ~Later(r.before[table], AfterOf(r)[table])
    BY <1>2, RunIdParts, AfterIsLatest
  <2>7. Reached(seen, AfterOf(r)[table])
    BY <2>3, <2>5, <2>6 DEF Reached
  <2>8. CASE row \in Rows(seen)
    <3>1. row \in Stamps
      BY <2>2, <2>8, TableRows
    <3>2. Later(row, r.before[table]) => ~Later(row, AfterOf(r)[table])
      BY <2>5, <2>6, <2>8 DEF Matching
    <3>3. ~Later(row, r.before[table]) => ~Later(row, AfterOf(r)[table])
      BY <2>4, <2>6, <3>1, NotLaterIsTransitive
    <3> QED
      BY <1>5, <2>1, <2>8, <3>2, <3>3
  <2>9. CASE row \notin Rows(seen)
    <3>1. Later(row, AfterOf(r)[table])
      BY <2>1, <2>2, <2>3, <2>6, <2>7, <2>9, NewRowsPass
    <3> QED
      BY <1>5, <2>1, <2>9, <3>1
  <2> QED
    BY <2>8, <2>9
<1> QED
  BY <1>1, <1>5, <1>6 DEF Cut

(* Every snapshot is of one moment, and so are the watermarks of every     *)
(* batch and of the live checkpoint.                                       *)
LEMMA CutStep ==
  ASSUME J!SingleInstance, Strict, Inv, SourceInv, CutInv, [Next]_vars
  PROVE  CutInv'
<1>1. WritersFollow
  BY DEF Strict, WritersFollow
<1>2. ASSUME NEW t \in Threads, req'[t].snap # << >>
      PROVE  OfAMoment(req[t].snap)'
  <2>1. PICK snap : snap = req'[t].snap
    OBVIOUS
  <2>2. snap \in SourceTables /\ OfAMoment(snap)
    <3>1. CASE req'[t].snap = req[t].snap
      BY <1>2, <2>1, <3>1, TypeByThread DEF CutInv, Inv, ThreadTyped
    <3>2. CASE req'[t].snap = source
      BY <2>1, <3>2, SourceIsOfAMoment, TypeByThread DEF Inv
    <3> QED
      BY <1>2, <3>1, <3>2, LookStep
  <2>3. OfAMoment(snap)'
    BY <2>2, MomentsStay
  <2> QED
    BY <2>1, <2>3 DEF OfAMoment
<1>3. ASSUME NEW r \in DOMAIN dirs', InUse(r)'
      PROVE  Cut(AfterOf(r))'
  <2>1. r \in RunIds /\ Follows(r) /\ Cut(AfterOf(r))
    <3>1. CASE r \in DOMAIN dirs /\ InUse(r)
      BY <3>1, NamesInUse DEF SourceInv, CutInv
    <3>2. ASSUME NEW t \in Threads, BeginRun(t), r = IdOf(t)
          PROVE  r \in RunIds /\ Follows(r) /\ Cut(AfterOf(r))
      <4>1. Fetched(t) /\ LooksBack(t)
        BY <3>2 DEF BeginRun, SourceInv
      <4>2. req[t].snap # << >>
        <5>1. req[t].delta # << >>
          BY <4>1, ServiceAssumption DEF Fetched
        <5> QED
          BY <5>1, TypeByThread DEF Inv, ThreadTyped
      <4>3. OfAMoment(req[t].snap)
        BY <4>2 DEF CutInv
      <4> QED
        BY <3>2, <4>1, <4>3, BatchFollows, BatchIsCut, RequestKnows DEF Inv, FilesInv
    <3> QED
      BY <1>3, <3>1, <3>2, InUseStep
  <2>2. PICK w : w = AfterOf(r)
    OBVIOUS
  <2>3. w \in Checkpoints /\ \A t \in Tables : Reached(source[t], w[t])
    BY <2>1, <2>2, RunIdParts DEF Follows
  <2>4. Cut(w)'
    BY <2>1, <2>2, <2>3, CutStays
  <2> QED
    BY <2>2, <2>4 DEF Cut, AfterOf
<1>4. Cut(LiveCheckpoint)'
  <2>1. PICK w : w = LiveCheckpoint'
    OBVIOUS
  <2>2. w \in Checkpoints /\ Cut(w) /\ \A t \in Tables : Reached(source[t], w[t])
    <3>1. CASE w = LiveCheckpoint
      BY <3>1, LiveCheckpointType DEF SourceInv, MarksReached, CutInv
    <3>2. ASSUME NEW r, NEW f, RenamesOne(r, f), w = AfterOf(r)
          PROVE  w \in Checkpoints /\ Cut(w) /\ \A t \in Tables : Reached(source[t], w[t])
      <4>1. r \in RunIds /\ InUse(r) /\ Follows(r) /\ r \in DOMAIN dirs
        BY <3>2, RenamedFollows DEF RenamesOne
      <4> QED
        BY <3>2, <4>1, RunIdParts DEF Follows, CutInv
    <3>3. \/ w = LiveCheckpoint
          \/ \E r, f : RenamesOne(r, f) /\ w = AfterOf(r)
      BY <2>1, LiveChangesByRenames DEF RenamesOne, LiveCheckpoint
    <3> QED
      BY <3>1, <3>2, <3>3
  <2>3. Cut(w)'
    BY <2>2, CutStays
  <2> QED
    BY <2>1, <2>3 DEF Cut
<1> QED
  BY <1>2, <1>3, <1>4 DEF CutInv

(* The inductive invariant of the cuts: what a request has seen of the      *)
(* source is the source of one moment, and so are the watermarks of the    *)
(* live checkpoint and of the one every run directory leads to.            *)
THEOREM CutInvariant ==
  ASSUME J!SingleInstance, Strict
  PROVE  Spec => []CutInv
<1>1. Init => CutInv
  <2> SUFFICES ASSUME Init PROVE CutInv
    OBVIOUS
  <2>1. /\ dirs = << >> /\ DOMAIN << >> = {}
        /\ source = [t \in Tables |-> << >>] /\ req = [t \in Threads |-> NewRequest]
    BY DEF Init, J!Init
  <2>2. \A t \in Tables : Rows(source[t]) = {}
    BY <2>1 DEF Rows
  <2>3. Moment(0) /\ 0 \in 0..MaxTime
    BY ServiceAssumption DEF Moment
  <2>4. Cut(LiveCheckpoint)
    BY <2>2, <2>3 DEF Cut
  <2> QED
    BY <2>1, <2>4, NewRequestFields DEF CutInv
<1>2. WritersFollow
  BY DEF Strict, WritersFollow
<1>3. Inv /\ SourceInv /\ CutInv /\ [Next]_vars => CutInv'
  BY CutStep
<1> QED
  BY <1>1, <1>2, <1>3, ServiceInvariant, SourceInvariant, PTL DEF Spec

(* A transaction on several tables arrives as a whole: the watermarks of   *)
(* all tables are at one point of the source's history.                    *)
THEOREM CheckpointsAreCuts ==
  ASSUME J!SingleInstance, Strict
  PROVE  Spec => []CheckpointIsACut
<1>1. CutInv => CheckpointIsACut
  BY DEF CutInv, Cut, CheckpointIsACut
<1> QED
  BY <1>1, CutInvariant, PTL

-----------------------------------------------------------------------------
(* The service is a feed. *)

(* F has its own names for the operators of Watermark. *)
LEMMA FeedOperators ==
  /\ \A a, b : F!Later(a, b) <=> Later(a, b)
  /\ \A table : F!Rows(table) = Rows(table)
  /\ \A table, w : F!Matching(table, w) = Matching(table, w)
  /\ \A rows : F!Ordered(rows) = Ordered(rows)
  /\ \A before, delta : F!AdvanceCheckpoint(before, delta) = AdvanceCheckpoint(before, delta)
  /\ F!EmptyWatermark = EmptyWatermark
  /\ F!Sources = SourceTables
<1>1. \A a, b : F!Later(a, b) <=> Later(a, b)
  BY DEF F!Later, Later
<1>2. \A table : F!Rows(table) = Rows(table)
  BY DEF F!Rows, Rows, F!Row, Row
<1>3. \A table, w : F!Matching(table, w) = Matching(table, w)
  BY <1>1, <1>2 DEF F!Matching, Matching
<1>4. \A rows : F!Ordered(rows) = Ordered(rows)
  <2>1. \A rows : F!Cardinality(rows) = Cardinality(rows)
    BY Zenon DEF F!Cardinality, Cardinality
  <2>2. \A s : F!Ascending(s) <=> Ascending(s)
    BY <1>1 DEF F!Ascending, Ascending
  <2> QED
    BY <2>1, <2>2 DEF F!Ordered, Ordered
<1>5. \A before, delta : F!AdvanceCheckpoint(before, delta) = AdvanceCheckpoint(before, delta)
  BY DEF F!AdvanceCheckpoint, AdvanceCheckpoint
<1>6. F!EmptyWatermark = EmptyWatermark
  BY DEF F!EmptyWatermark, EmptyWatermark, F!Row, Row
<1>7. F!Sources = SourceTables
  BY DEF F!Sources, SourceTables, F!Partial, Partial
<1> QED
  BY <1>1, <1>2, <1>3, <1>4, <1>5, <1>6, <1>7

(* A request that will commit what it sees of the source. *)
Looking(t) == ~req[t].dry /\ pc[t] \in {"prepare", "stage", "plan", "ready"}

(* There is one at most, and the feed's look is its snapshot. *)
LEMMA LookOfOne ==
  J!SingleInstance /\ Inv =>
    /\ \A t \in Threads : Looking(t) => FeedSnap = req[t].snap
    /\ (\A t \in Threads : ~Looking(t)) => FeedSnap = << >>
<1> SUFFICES ASSUME J!SingleInstance, Inv
             PROVE  /\ \A t \in Threads : Looking(t) => FeedSnap = req[t].snap
                    /\ (\A t \in Threads : ~Looking(t)) => FeedSnap = << >>
  OBVIOUS
<1> DEFINE looking == {t \in Threads : ~req[t].dry /\ pc[t] \in {"prepare", "stage", "plan", "ready"}}
<1>1. FeedSnap = IF looking = {} THEN << >> ELSE req[CHOOSE t \in looking : TRUE].snap
  BY DEF FeedSnap
<1>2. looking = {t \in Threads : Looking(t)}
  BY DEF Looking
<1>3. ASSUME NEW t \in Threads, Looking(t)
      PROVE  looking = {t}
  <2>1. pc[t] # "idle" /\ t \in J!Actors
    BY <1>3 DEF Looking, J!Actors
  <2>2. ASSUME NEW u \in Threads, u # t
        PROVE  ~Looking(u)
    <3>1. pc[u] = "idle"
      BY <2>1, <2>2, OneAtWork DEF J!Actors
    <3> QED
      BY <3>1 DEF Looking
  <2> QED
    BY <1>2, <1>3, <2>2
<1>4. ASSUME NEW t \in Threads, Looking(t)
      PROVE  FeedSnap = req[t].snap
  <2>1. (CHOOSE u \in looking : TRUE) = t
    BY <1>3, <1>4
  <2> HIDE DEF looking
  <2>2. looking # {}
    BY <1>3, <1>4
  <2> QED
    BY <1>1, <2>1, <2>2
<1> HIDE DEF looking
<1>5. (\A t \in Threads : ~Looking(t)) => FeedSnap = << >>
  BY <1>1, <1>2
<1> QED
  BY <1>4, <1>5

(* The same of the next state. *)
LEMMA LookOfOneNext ==
  (J!SingleInstance /\ Inv =>
    /\ \A t \in Threads : Looking(t) => FeedSnap = req[t].snap
    /\ (\A t \in Threads : ~Looking(t)) => FeedSnap = << >>)'
BY LookOfOne, PTL

(* What the feed sees of the source is kept, forgotten or seen anew. *)
LEMMA FeedSnapStep ==
  ASSUME J!SingleInstance, Inv, [Next]_vars
  PROVE  FeedSnap' = << >> \/ FeedSnap' = FeedSnap \/ (FeedSnap' = source /\ source' = source)
<1>1. Inv'
  BY InvariantStep
<1>2. CASE \A t \in Threads : ~Looking(t)'
  BY <1>1, <1>2, LookOfOneNext
<1>3. ASSUME NEW t \in Threads, Looking(t)'
      PROVE  FeedSnap' = << >> \/ FeedSnap' = FeedSnap \/ (FeedSnap' = source /\ source' = source)
  <2>1. FeedSnap' = req'[t].snap
    BY <1>1, <1>3, LookOfOneNext
  <2>2. ASSUME req'[t].snap = req[t].snap, req'[t].dry = req[t].dry, req[t].snap # << >>
        PROVE  Looking(t)
    <3>1. ~req[t].dry /\ pc'[t] \in {"prepare", "stage", "plan", "ready"}
      BY <1>3, <2>2 DEF Looking
    <3>2. Moves(t)
      BY StepKinds
    <3>3. own[t] \/ pc[t] = "prepare"
      <4>1. own[t] \/ pc[t] = "prepare" \/ [req[t] EXCEPT !.dry = FALSE] = NewRequest
        BY DEF Inv, FilesInv, RequestInv
      <4>2. ThreadTyped(t)
        BY TypeByThread DEF Inv
      <4>3. [req[t] EXCEPT !.dry = FALSE].snap = req[t].snap
        BY <4>2 DEF ThreadTyped
      <4> QED
        BY <2>2, <4>1, <4>3, NewRequestFields
    <3>4. BeginRun(t) => pc[t] = "prepare"
      BY DEF BeginRun, J!BeginRun
    <3>5. GoesOn(t) => pc[t] \in {"prepare", "stage", "plan", "ready"}
      BY <3>1, <3>3 DEF GoesOn, Staging
    <3>6. ~ThreadGone(t) /\ pc'[t] # "scan"
      BY <3>1 DEF ThreadGone
    <3> QED
      BY <3>1, <3>2, <3>4, <3>5, <3>6 DEF Moves, Looking
  <2>3. Looking(t) => FeedSnap = req[t].snap
    BY LookOfOne
  <2> QED
    BY <2>1, <2>2, <2>3, LookStep
<1> QED
  BY <1>2, <1>3

-----------------------------------------------------------------------------
(* Steps of the feed. *)

(* What consumers see is told from what the replay of pending runs leaves. *)
ShareRows(files, t) == IF ShareFile(t) \in DOMAIN files THEN files[ShareFile(t)].rows ELSE << >>

MarkIn(files) == IF CheckpointFile \in DOMAIN files THEN files[CheckpointFile] ELSE InitialCheckpoint

(* The logs, batches and watermarks that readers see are functions of the committed files. *)
LEMMA FeedOfCommitted ==
  /\ \A t : FeedLog(t) = LogOf(J!Committed, t) /\ FeedBatch(t) = ShareRows(J!Committed, t)
  /\ FeedMark = MarkIn(J!Committed)
BY DEF FeedLog, LogOf, FeedBatch, ShareRows, FeedMark, MarkIn

(* And of the next state. *)
LEMMA FeedOfCommittedNext ==
  /\ \A t : FeedLog(t)' = LogOf(J!Committed', t) /\ FeedBatch(t)' = ShareRows(J!Committed', t)
  /\ FeedMark' = MarkIn(J!Committed')
BY DEF FeedLog, LogOf, FeedBatch, ShareRows, FeedMark, MarkIn

(* The request that writes READY is the one that looks, and the last one.  *)
LEMMA SealingForgets ==
  ASSUME J!SingleInstance, Inv, [Next]_vars, NEW a \in J!Actors, J!MarkReady(a)
  PROVE  /\ a \in Threads /\ Staging(a) /\ Looking(a)
         /\ FeedSnap' = << >> /\ source' = source
<1>1. Inv'
  BY InvariantStep
<1>2. pc[a] = "ready" /\ a \in Threads
  BY DEF J!MarkReady, J!Actors, Inv, J!JournalInv, J!LockInv
<1>3. Staging(a) /\ ~req[a].dry
  BY <1>2, StagingAlone DEF Staging
<1>4. Looking(a)
  BY <1>2, <1>3 DEF Looking
<1>5. pc'[a] = "commit" /\ \A t \in Threads : t # a => pc'[t] = pc[t]
  BY DEF J!MarkReady, J!Goto, Inv, J!TypeOK, J!Actors
<1>6. \A t \in Threads : ~Looking(t)'
  <2>1. \A t \in Threads : t # a => pc[t] = "idle"
    BY <1>2, OneAtWork DEF J!Actors
  <2> QED
    BY <1>5, <2>1 DEF Looking
<1>7. FeedSnap' = << >>
  BY <1>1, <1>6, LookOfOneNext
<1>8. ~SourceChanges
  BY <1>2, <1>5 DEF SourceChanges, Transaction
<1> QED
  BY <1>2, <1>3, <1>4, <1>7, <1>8, SourceStep

(* Writing READY delivers the run's batch. *)
LEMMA SealingDelivers ==
  ASSUME J!SingleInstance, Inv, LakeInv, LakeKept(J!Committed), [Next]_vars,
         NEW a \in J!Actors, J!MarkReady(a),
         J!Committed = live, J!Committed' = Overlay(live, dirs[run[a]].files)
  PROVE  F!Deliver
<1>1. a \in Threads /\ Staging(a) /\ Looking(a) /\ FeedSnap' = << >> /\ source' = source
  BY SealingForgets
<1>2. PICK r : r = run[a]
  OBVIOUS
<1>3. PICK files : files = Overlay(live, dirs[run[a]].files)
  OBVIOUS
<1>4. Seals(r, files)
  BY <1>2, <1>3, MarkReadySealsBatch
<1>5. /\ Fetched(a) /\ r = IdOf(a) /\ r \in RunIds /\ r.before = LiveCheckpoint
      /\ r.before = req[a].before /\ r.tables = req[a].delta
  <2>1. Fetched(a) /\ r = IdOf(a) /\ r \in RunIds /\ r.before = LiveCheckpoint
    BY <1>1, <1>2, StagingAlone
  <2>2. RequestInv(a) /\ TypeOK
    BY <1>1 DEF Inv, FilesInv
  <2> QED
    BY <1>1, <2>1, <2>2, RequestKnows
<1>6. RequestInv(a) /\ TypeOK
  BY <1>1 DEF Inv, FilesInv
<1>7. /\ LakeKept(live) /\ LakeKept(files) /\ \A q : ~Pending(q)
      /\ \A t \in Tables : InLake(files, t) = InLake(live, t) \cup Range(r.tables[t])
  BY <1>2, <1>3, MarkReadyAddsRows
<1>8. \A t \in Tables : LogOf(files, t) = LogOf(live, t) \o r.tables[t]
  BY <1>4, <1>7, SealingAppends
<1>9. MarkIn(live) = r.before /\ MarkIn(files) = AfterOf(r)
  BY <1>4, <1>5, SealedContents DEF MarkIn, LiveCheckpoint
<1>10. \A t \in Tables : ShareRows(files, t) = IF r.tables[t] = << >> THEN ShareRows(live, t) ELSE r.tables[t]
  <2> SUFFICES ASSUME NEW t \in Tables
               PROVE  ShareRows(files, t) = IF r.tables[t] = << >> THEN ShareRows(live, t) ELSE r.tables[t]
    OBVIOUS
  <2>1. IF r.tables[t] # << >>
        THEN ShareFile(t) \in DOMAIN files /\ files[ShareFile(t)] = ShareOf(r, t)
        ELSE /\ ShareFile(t) \in DOMAIN files <=> ShareFile(t) \in DOMAIN live
             /\ ShareFile(t) \in DOMAIN live => files[ShareFile(t)] = live[ShareFile(t)]
    BY <1>4, SealedContents
  <2>2. ShareOf(r, t).rows = r.tables[t]
    BY DEF ShareOf
  <2> QED
    BY <2>1, <2>2 DEF ShareRows
<1>11. /\ FeedSnap = req[a].snap /\ FeedSnap # << >>
       /\ \A t \in Tables : r.tables[t] \in Ordered(Matching(FeedSnap[t], r.before[t]))
  <2>1. FeedSnap = req[a].snap
    BY <1>1, LookOfOne
  <2>2. req[a].delta # << >>
    BY <1>5, ServiceAssumption DEF Fetched
  <2>3. req[a].snap # << >>
    BY <1>1, <1>6, <2>2 DEF TypeOK
  <2>4. \A t \in Tables : req[a].delta[t] \in Ordered(Matching(req[a].snap[t], req[a].before[t]))
    BY <1>5, <1>6 DEF Fetched, RequestInv
  <2> QED
    BY <1>5, <2>1, <2>3, <2>4
<1>12. PICK delta : delta = r.tables
  OBVIOUS
<1>13. delta \in F!Deltas
  <2> DEFINE Delta(t) == F!Ordered(F!Matching(FeedSnap[t], FeedMark[t]))
  <2>1. \A t \in Tables : delta[t] \in Delta(t)
    BY <1>9, <1>11, <1>12, FeedOfCommitted, FeedOperators
  <2>2. DOMAIN delta = Tables /\ delta = [t \in Tables |-> delta[t]]
    BY <1>5, <1>12, RunIdParts DEF Deltas
  <2> HIDE DEF Delta
  <2>3. delta \in {d \in [Tables -> UNION {Delta(t) : t \in Tables}] : \A t \in Tables : d[t] \in Delta(t)}
    BY <2>1, <2>2
  <2> QED
    BY <2>3 DEF F!Deltas, Delta
<1>14. [t \in Tables |-> FeedLog(t)]' = [t \in Tables |-> [u \in Tables |-> FeedLog(u)][t] \o delta[t]]
  BY <1>3, <1>8, <1>12, FeedOfCommitted, FeedOfCommittedNext
<1>15. FeedMark' = F!AdvanceCheckpoint(FeedMark, delta)
  <2>1. AfterOf(r) = AdvanceCheckpoint(r.before, delta)
    BY <1>12 DEF AfterOf
  <2> QED
    BY <1>3, <1>9, <2>1, FeedOfCommitted, FeedOfCommittedNext, FeedOperators
<1>16. [t \in Tables |-> FeedBatch(t)]'
         = [t \in Tables |-> IF delta[t] = << >> THEN [u \in Tables |-> FeedBatch(u)][t] ELSE delta[t]]
  BY <1>3, <1>10, <1>12, FeedOfCommitted, FeedOfCommittedNext
<1> QED
  BY <1>1, <1>11, <1>13, <1>14, <1>15, <1>16 DEF F!Deliver

(* Every step of the service is a step of the feed. *)
LEMMA FeedStep ==
  ASSUME J!SingleInstance, WritersFollow, Inv, LakeInv, LakeKept(J!Committed), [Next]_vars
  PROVE  [F!Next]_(F!vars)
<1>1. J!TypeOK /\ J!JournalInv /\ [J!Next]_(J!vars)
  BY ServiceIsJournal DEF Inv
<1>2. ASSUME NEW a \in J!Actors, J!MarkReady(a), J!Committed = live,
             J!Committed' = Overlay(live, dirs[run[a]].files)
      PROVE  [F!Next]_(F!vars)
  BY <1>2, SealingDelivers DEF F!Next
<1>3. CASE J!Committed' = J!Committed
  <2>1. /\ [t \in Tables |-> FeedLog(t)]' = [t \in Tables |-> FeedLog(t)]
        /\ [t \in Tables |-> FeedBatch(t)]' = [t \in Tables |-> FeedBatch(t)]
        /\ FeedMark' = FeedMark
    BY <1>3, FeedOfCommitted, FeedOfCommittedNext
  <2>2. CASE source' = source
    <3>1. FeedSnap' = << >> \/ FeedSnap' = FeedSnap \/ FeedSnap' = source
      BY FeedSnapStep
    <3>2. CASE FeedSnap' = << >>
      BY <2>1, <2>2, <3>2 DEF F!Next, F!Forget
    <3>3. CASE FeedSnap' = FeedSnap
      BY <2>1, <2>2, <3>3 DEF F!vars
    <3>4. CASE FeedSnap' = source
      BY <2>1, <2>2, <3>4 DEF F!Next, F!Look
    <3> QED
      BY <3>1, <3>2, <3>3, <3>4
  <2>3. CASE source' # source
    <3>1. req' = req /\ pc' = pc
      BY <2>3, SourceStep DEF SourceChanges, Transaction
    <3>2. FeedSnap' = FeedSnap
      BY <3>1 DEF FeedSnap
    <3>3. source' \in F!Sources
      BY SourceStep, FeedOperators
    <3>4. \A t \in Tables : Successor(source[t], source'[t])
      BY SourceGoesOn
    <3>5. F!Write
      BY <2>1, <3>2, <3>3, <3>4, FeedOperators DEF F!Write, Successor
    <3> QED
      BY <3>5 DEF F!Next
  <2> QED
    BY <2>2, <2>3
<1> QED
  BY <1>1, <1>2, <1>3, JournalCommits

(* A feed starts with nothing. *)
LEMMA FeedStarts ==
  ASSUME Init
  PROVE  F!Init
<1>1. /\ live = << >> /\ dirs = << >> /\ DOMAIN << >> = {} /\ pc = [a \in J!Actors |-> "idle"]
      /\ source = [t \in Tables |-> << >>]
  BY DEF Init, J!Init
<1>2. DOMAIN J!Committed = {}
  BY <1>1 DEF J!Committed, J!Replayed
<1>3. LakeKept(J!Committed)
  BY <1>2, FS_EmptySet DEF LakeKept
<1>4. ASSUME NEW t \in Tables
      PROVE  FeedLog(t) = << >> /\ FeedBatch(t) = << >>
  <2>1. /\ LogOf(J!Committed, t) \in Seq(Stamps)
        /\ Range(LogOf(J!Committed, t)) = InLake(J!Committed, t)
    BY <1>3, LogIsLake
  <2>2. InLake(J!Committed, t) = {}
    BY <1>2 DEF InLake
  <2>3. LogOf(J!Committed, t) = << >>
    <3>1. PICK s : s = LogOf(J!Committed, t)
      OBVIOUS
    <3>2. s \in Seq(Stamps) /\ \A i \in 1..Len(s) : s[i] \in Range(s)
      BY <2>1, <3>1 DEF Range
    <3>3. Range(s) = {}
      BY <2>1, <2>2, <3>1
    <3> QED
      BY <3>1, <3>2, <3>3
  <2> QED
    BY <1>2, <2>3, FeedOfCommitted DEF ShareRows
<1>5. FeedMark = [t \in Tables |-> F!EmptyWatermark]
  BY <1>2, FeedOperators DEF FeedMark, InitialCheckpoint
<1>6. FeedSnap = << >>
  <2>1. \A t \in Threads : pc[t] = "idle"
    BY <1>1 DEF J!Actors
  <2> QED
    BY <2>1 DEF FeedSnap
<1> QED
  BY <1>1, <1>4, <1>5, <1>6 DEF F!Init

(* Requests, retries, crashes, replays and writers that race with them     *)
(* amount to a feed, if writers come after all rows they find: each commit *)
(* gives the consumers of all tables what one look at the source shows     *)
(* after what they were given before, no row twice and none left out, and  *)
(* nothing else gives them anything.                                       *)
THEOREM ServiceIsAFeed ==
  ASSUME J!SingleInstance, WritersFollow
  PROVE  Spec => ImplementsFeed
<1>1. Init => F!Init
  BY FeedStarts
<1>2. Inv /\ LakeInv /\ Accounted(J!Committed) /\ [Next]_vars => [F!Next]_(F!vars)
  BY FeedStep DEF Accounted
<1> QED
  BY <1>1, <1>2, LakeInvariant, CommittedIsAccounted, PTL DEF Spec, ImplementsFeed, F!Spec
=============================================================================
