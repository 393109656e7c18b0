------------------------ MODULE CommitJournalProofs ------------------------
(***************************************************************************)
(* Proofs about CommitJournal, for any number of processes, threads, files *)
(* and run names unless a theorem says SingleInstance.                     *)
(***************************************************************************)
EXTENDS CommitJournal, PartialFunctionTheorems, SequenceTheorems, TLAPS

-----------------------------------------------------------------------------
(* The disk. *)

(* Run directories, the ones that mkdir would create included, are typed. *)
LEMMA DirsAreTyped ==
  ASSUME TypeOK, NEW r
  PROVE  /\ dirs \in Partial(RunIds, RunDirs)
         /\ r \in DOMAIN dirs => r \in RunIds /\ dirs[r] \in RunDirs
         /\ DirOf(r) \in RunDirs
<1>1. NewDir \in RunDirs
  BY EmptyPartial DEF NewDir, RunDirs
<1> QED
  BY <1>1, PartialIsFunction DEF TypeOK, DirOf

(* Writing a run directory. *)
LEMMA SettingDir ==
  ASSUME TypeOK, NEW r \in RunIds, NEW d \in RunDirs, SetDir(r, d)
  PROVE  /\ DOMAIN dirs' = DOMAIN dirs \cup {r}
         /\ dirs'[r] = d
         /\ \A s \in DOMAIN dirs \ {r} : dirs'[s] = dirs[s]
         /\ DOMAIN dirs' \subseteq RunIds
         /\ dirs' \in [DOMAIN dirs' -> RunDirs]
<1>1. dirs \in Partial(RunIds, RunDirs)
  BY DirsAreTyped
<1>2. Put(dirs, r, d) \in Partial(RunIds, RunDirs)
  BY <1>1, PuttingType
<1>3. dirs' \in Partial(RunIds, RunDirs)
  BY <1>2 DEF SetDir
<1>4. DOMAIN dirs' \subseteq RunIds /\ dirs' \in [DOMAIN dirs' -> RunDirs]
  BY <1>3, PartialIsFunction
<1>5. /\ DOMAIN dirs' = DOMAIN dirs \cup {r}
      /\ dirs'[r] = d
      /\ \A s \in DOMAIN dirs \ {r} : dirs'[s] = dirs[s]
  BY DEF SetDir, Put
<1> QED
  BY <1>4, <1>5

(* Removing a run directory. *)
LEMMA DroppingDir ==
  ASSUME TypeOK, NEW r, dirs' = Drop(dirs, r)
  PROVE  /\ DOMAIN dirs' = DOMAIN dirs \ {r}
         /\ \A s \in DOMAIN dirs' : dirs'[s] = dirs[s]
         /\ DOMAIN dirs' \subseteq RunIds
         /\ dirs' \in [DOMAIN dirs' -> RunDirs]
<1>1. dirs \in Partial(RunIds, RunDirs)
  BY DirsAreTyped
<1>2. dirs' \in Partial(RunIds, RunDirs)
  BY <1>1, DroppingType
<1>3. DOMAIN dirs' \subseteq RunIds /\ dirs' \in [DOMAIN dirs' -> RunDirs]
  BY <1>2, PartialIsFunction
<1> QED
  BY <1>3 DEF Drop, Restrict

(* Writing a file of a run directory, its plan or its marker. *)
LEMMA EditingDir ==
  ASSUME NEW d \in RunDirs
  PROVE  /\ \A f \in Files, c \in Contents : [d EXCEPT !.files = Put(@, f, c)] \in RunDirs
         /\ \A f : [d EXCEPT !.files = Drop(@, f)] \in RunDirs
         /\ \A s \in Seq(Files) \cup {NoPlan} : [d EXCEPT !.plan = s] \in RunDirs
         /\ \A b \in BOOLEAN : [d EXCEPT !.ready = b] \in RunDirs
BY PuttingType, DroppingType DEF RunDirs

-----------------------------------------------------------------------------
(* Types. *)

(* A step that leaves the disk alone keeps its type. *)
LEMMA SameDisk ==
  ASSUME TypeOK, UNCHANGED disk
  PROVE  /\ live' \in Partial(Files, Contents)
         /\ DOMAIN dirs' \subseteq RunIds
         /\ dirs' \in [DOMAIN dirs' -> RunDirs]
BY DEF TypeOK, disk

(* An actor that returns or raises leaves well-typed memory behind.        *)
LEMMA LeaveType ==
  ASSUME TypeOK, NEW a \in Actors, NEW status \in {"down", "serving"}, Leave(a, status)
  PROVE  /\ lock' \in Threads \cup {Nobody}
         /\ svc' \in [Procs -> {"down", "booting", "serving"}]
         /\ pc' \in [Actors -> Labels]
         /\ own' \in [Actors -> BOOLEAN]
         /\ run' \in [Actors -> RunIds \cup {NoRun}]
         /\ todo' \in [Actors -> SUBSET RunIds]
         /\ steps' \in [Actors -> Seq(Files)]
         /\ \A b \in Actors :
              pc'[b] \notin {"idle", "scan", "resume", "prepare"} => run'[b] \in RunIds
         /\ \A b \in Actors : pc'[b] = "replace" => steps'[b] # << >>
<1>1. pc' \in [Actors -> Labels]
  BY DEF TypeOK, Leave, Goto, Labels
<1>2. steps' \in [Actors -> Seq(Files)]
  BY EmptySeq DEF TypeOK, Leave
<1> QED
  BY <1>1, <1>2 DEF TypeOK, Leave, Goto, Actors

(* Every action keeps the types. *)
LEMMA TypeStep == TypeOK /\ [Next]_vars => TypeOK'
<1> SUFFICES ASSUME TypeOK, [Next]_vars
             PROVE  TypeOK'
  OBVIOUS
<1> USE DEF memory
<1>1. ASSUME NEW p \in Procs, Boot(p)
      PROVE  TypeOK'
  <2>1. pc' \in [Actors -> Labels]
    BY <1>1 DEF TypeOK, Boot, Goto, Labels
  <2> QED
    BY <1>1, <2>1, SameDisk DEF TypeOK, Boot, Goto
<1>2. ASSUME NEW t \in Threads, Acquire(t)
      PROVE  TypeOK'
  <2>1. pc' \in [Actors -> Labels]
    BY <1>2 DEF TypeOK, Acquire, Goto, Labels
  <2> QED
    BY <1>2, <2>1, SameDisk DEF TypeOK, Acquire, Goto
<1>3. ASSUME NEW a \in Actors, Sweep(a)
      PROVE  TypeOK'
  <2>1. CASE Scan(a)
    <3>1. pc' \in [Actors -> Labels]
      BY <2>1 DEF TypeOK, Scan, Goto, Labels
    <3> QED
      BY <2>1, <3>1, SameDisk DEF TypeOK, Scan, Goto
  <2>2. ASSUME NEW r \in todo[a], ResumeReady(a, r)
        PROVE  TypeOK'
    <3>1. pc' \in [Actors -> Labels]
      BY <2>2 DEF TypeOK, ResumeReady, Goto, Labels
    <3>2. r \in RunIds /\ dirs[r].plan \in Seq(Files)
      BY <2>2, DirsAreTyped DEF TypeOK, ResumeReady, IsReady, HasPlan, RunDirs
    <3> QED
      BY <2>2, <3>1, <3>2, SameDisk DEF TypeOK, ResumeReady, Goto
  <2>3. ASSUME NEW r \in todo[a], ResumeDiscard(a, r)
        PROVE  TypeOK'
    <3>1. pc' \in [Actors -> Labels]
      BY <2>3 DEF TypeOK, ResumeDiscard, Goto, Labels
    <3> QED
      BY <2>3, <3>1, SameDisk DEF TypeOK, ResumeDiscard, Goto
  <2>4. CASE ResumeDone(a)
    <3>1. CASE a \in Procs /\ Leave(a, "serving") /\ UNCHANGED disk
      BY <3>1, LeaveType, SameDisk DEF TypeOK
    <3>2. CASE a \in Threads /\ Goto(a, "prepare") /\ UNCHANGED <<disk, lock, svc, memory>>
      <4>1. pc' \in [Actors -> Labels]
        BY <3>2 DEF TypeOK, Goto, Labels
      <4> QED
        BY <3>2, <4>1, SameDisk DEF TypeOK, Goto
    <3> QED
      BY <2>4, <3>1, <3>2 DEF ResumeDone
  <2> QED
    BY <1>3, <2>1, <2>2, <2>3, <2>4 DEF Sweep
<1>4. ASSUME NEW a \in Actors, Stage(a)
      PROVE  TypeOK'
  <2>1. CASE ReturnDry(a)
    BY <2>1, LeaveType, SameDisk DEF TypeOK, ReturnDry
  <2>2. ASSUME NEW r \in RunIds, BeginRun(a, r)
        PROVE  TypeOK'
    <3>1. pc' \in [Actors -> Labels]
      BY <2>2 DEF TypeOK, BeginRun, Goto, Labels
    <3> QED
      BY <2>2, <3>1, SettingDir, DirsAreTyped, EmptySeq DEF TypeOK, BeginRun, Goto
  <2>3. ASSUME NEW f \in Files, NEW c \in Contents, StageFile(a, f, c)
        PROVE  TypeOK'
    <3>1. pc' \in [Actors -> Labels]
      BY <2>3 DEF TypeOK, StageFile, Goto, Labels
    <3>2. steps' \in [Actors -> Seq(Files)]
      BY <2>3, AppendProperties DEF TypeOK, StageFile
    <3>3. run[a] \in RunIds
      BY <2>3 DEF TypeOK, StageFile
    <3> QED
      BY <2>3, <3>1, <3>2, SettingDir, DirsAreTyped, EditingDir DEF TypeOK, StageFile, Goto
  <2> QED
    BY <1>4, <2>1, <2>2, <2>3 DEF Stage
<1>5. ASSUME NEW a \in Actors, Execute(a)
      PROVE  TypeOK'
  <2>1. CASE WritePlan(a)
    <3>1. pc' \in [Actors -> Labels]
      BY <2>1 DEF TypeOK, WritePlan, Goto, Labels
    <3>2. run[a] \in RunIds /\ steps[a] \in Seq(Files)
      BY <2>1 DEF TypeOK, WritePlan
    <3> QED
      BY <2>1, <3>1, <3>2, SettingDir, DirsAreTyped, EditingDir DEF TypeOK, WritePlan, Goto
  <2>2. CASE MarkReady(a)
    <3>1. pc' \in [Actors -> Labels]
      BY <2>2 DEF TypeOK, MarkReady, Goto, Labels
    <3>2. run[a] \in RunIds
      BY <2>2 DEF TypeOK, MarkReady
    <3> QED
      BY <2>2, <3>1, <3>2, SettingDir, DirsAreTyped, EditingDir DEF TypeOK, MarkReady, Goto
  <2>3. CASE Commit(a)
    <3>1. pc' \in [Actors -> Labels]
      BY <2>3 DEF TypeOK, Commit, Goto, Labels
    <3>2. run[a] \in RunIds /\ dirs[run[a]].plan \in Seq(Files)
      BY <2>3, DirsAreTyped DEF TypeOK, Commit, IsReady, HasPlan, RunDirs
    <3> QED
      BY <2>3, <3>1, <3>2, SameDisk DEF TypeOK, Commit, Goto
  <2>4. CASE CheckStaged(a)
    <3>1. pc' \in [Actors -> Labels]
      BY <2>4 DEF TypeOK, CheckStaged, Goto, Labels
    <3> QED
      BY <2>4, <3>1, SameDisk DEF TypeOK, CheckStaged, Goto
  <2>5. CASE SkipStep(a)
    <3>1. steps' \in [Actors -> Seq(Files)]
      BY <2>5, HeadTailProperties DEF TypeOK, SkipStep
    <3> QED
      BY <2>5, <3>1, SameDisk DEF TypeOK, SkipStep
  <2>6. CASE Replace(a)
    <3> DEFINE r == run[a]
               f == Head(steps[a])
    <3>1. pc' \in [Actors -> Labels]
      BY <2>6 DEF TypeOK, Replace, Goto, Labels
    <3>2. steps[a] \in Seq(Files) /\ steps[a] # << >>
      BY <2>6 DEF TypeOK, Replace
    <3>3. steps' \in [Actors -> Seq(Files)] /\ f \in Files
      BY <2>6, <3>2, HeadTailProperties DEF TypeOK, Replace
    <3>4. r \in RunIds /\ dirs[r] \in RunDirs
      BY <2>6, DirsAreTyped DEF TypeOK, Replace, IsStaged
    <3>5. live' \in Partial(Files, Contents)
      <4>1. dirs[r].files \in Partial(Files, Contents) /\ f \in DOMAIN dirs[r].files
        BY <2>6, <3>4 DEF Replace, IsStaged, RunDirs
      <4>2. dirs[r].files[f] \in Contents
        BY <4>1, PartialIsFunction
      <4> QED
        BY <2>6, <3>3, <4>2, PuttingType DEF TypeOK, Replace
    <3> HIDE DEF r, f
    <3>6. DOMAIN dirs' \subseteq RunIds /\ dirs' \in [DOMAIN dirs' -> RunDirs]
      BY <2>6, <3>4, SettingDir, EditingDir DEF Replace, r, f
    <3> QED
      BY <2>6, <3>1, <3>3, <3>5, <3>6 DEF TypeOK, Replace, Goto
  <2>7. CASE ExecuteDone(a)
    <3>1. pc' \in [Actors -> Labels]
      BY <2>7 DEF TypeOK, ExecuteDone, Goto, Labels
    <3> QED
      BY <2>7, <3>1, SameDisk DEF TypeOK, ExecuteDone, Goto
  <2> QED
    BY <1>5, <2>1, <2>2, <2>3, <2>4, <2>5, <2>6, <2>7 DEF Execute
<1>6. ASSUME NEW a \in Actors, Remove(a)
      PROVE  TypeOK'
  <2>1. Removing(a) => run[a] \in RunIds /\ dirs[run[a]] \in RunDirs
    BY DirsAreTyped DEF Removing
  <2>2. ASSUME NEW f, RemoveStaged(a, f)
        PROVE  TypeOK'
    BY <2>1, <2>2, SettingDir, EditingDir DEF TypeOK, RemoveStaged
  <2>3. CASE RemovePlan(a)
    BY <2>1, <2>3, SettingDir, EditingDir DEF TypeOK, RemovePlan
  <2>4. CASE RemoveReady(a)
    BY <2>1, <2>4, SettingDir, EditingDir DEF TypeOK, RemoveReady
  <2>5. ASSUME Removed(a)
        PROVE  /\ lock' \in Threads \cup {Nobody}
               /\ svc' \in [Procs -> {"down", "booting", "serving"}]
               /\ pc' \in [Actors -> Labels]
               /\ own' \in [Actors -> BOOLEAN]
               /\ run' \in [Actors -> RunIds \cup {NoRun}]
               /\ todo' \in [Actors -> SUBSET RunIds]
               /\ steps' \in [Actors -> Seq(Files)]
               /\ \A b \in Actors :
                    pc'[b] \notin {"idle", "scan", "resume", "prepare"} => run'[b] \in RunIds
               /\ \A b \in Actors : pc'[b] = "replace" => steps'[b] # << >>
    <3>1. CASE Leave(a, "serving")
      BY <3>1, LeaveType DEF TypeOK
    <3>2. CASE Goto(a, "resume") /\ UNCHANGED <<lock, svc, memory>>
      <4>1. pc' \in [Actors -> Labels]
        BY <3>2 DEF TypeOK, Goto, Labels
      <4> QED
        BY <3>2, <4>1 DEF TypeOK, Goto
    <3> QED
      BY <2>5, <3>1, <3>2 DEF Removed
  <2>6. CASE RemoveDir(a)
    BY <2>5, <2>6, DroppingDir DEF TypeOK, RemoveDir
  <2>7. CASE CleanupMissing(a)
    BY <2>5, <2>7, SameDisk DEF TypeOK, CleanupMissing
  <2> QED
    BY <1>6, <2>2, <2>3, <2>4, <2>6, <2>7 DEF Remove
<1>7. ASSUME NEW a \in Actors, Raise(a) \/ OSError(a)
      PROVE  TypeOK'
  BY <1>7, LeaveType, SameDisk DEF TypeOK, Raise, OSError
<1>8. ASSUME NEW p \in Procs, Crash(p)
      PROVE  TypeOK'
  <2>1. pc' \in [Actors -> Labels]
    BY <1>8 DEF TypeOK, Crash, Labels
  <2>2. steps' \in [Actors -> Seq(Files)]
    BY <1>8, EmptySeq DEF TypeOK, Crash
  <2>3. lock' \in Threads \cup {Nobody} /\ svc' \in [Procs -> {"down", "booting", "serving"}]
    BY <1>8 DEF TypeOK, Crash
  <2>4. own' \in [Actors -> BOOLEAN] /\ run' \in [Actors -> RunIds \cup {NoRun}]
        /\ todo' \in [Actors -> SUBSET RunIds]
    BY <1>8 DEF TypeOK, Crash
  <2>5. \A b \in Actors :
          pc'[b] \notin {"idle", "scan", "resume", "prepare"} => run'[b] \in RunIds
    BY <1>8 DEF TypeOK, Crash
  <2> QED
    BY <1>8, <2>1, <2>2, <2>3, <2>4, <2>5, SameDisk DEF TypeOK, Crash
<1>9. CASE UNCHANGED vars
  BY <1>9, SameDisk DEF TypeOK, vars, disk
<1> QED
  BY <1>1, <1>2, <1>3, <1>4, <1>5, <1>6, <1>7, <1>8, <1>9 DEF Next, Work, Fault

(* The initial state is typed. *)
LEMMA TypeInit == Init => TypeOK
BY EmptyPartial, EmptySeq, PartialIsFunction DEF Init, TypeOK, Labels

(* Every reachable state is typed. *)
THEOREM TypeCorrect == Spec => []TypeOK
BY TypeInit, TypeStep, PTL DEF Spec

-----------------------------------------------------------------------------
(* Lists of files. *)

(* Appending a file to a list, the checkpoint last.                        *)
LEMMA AppendingFile ==
  ASSUME NEW s \in Seq(Files), NEW f \in Files
  PROVE  /\ Range(Append(s, f)) = Range(s) \cup {f}
         /\ CheckpointFile \notin Range(s) => CheckpointAtEnd(Append(s, f))
<1>1. /\ DOMAIN Append(s, f) = 1..(Len(s) + 1)
      /\ Len(Append(s, f)) = Len(s) + 1
      /\ \A i \in 1..Len(s) : Append(s, f)[i] = s[i]
      /\ Append(s, f)[Len(s) + 1] = f
  BY AppendProperties
<1>2. DOMAIN s = 1..Len(s) /\ Len(s) \in Nat
  BY LenProperties
<1>3. Range(Append(s, f)) = Range(s) \cup {f}
  BY <1>1, <1>2 DEF Range
<1>4. CheckpointFile \notin Range(s) => CheckpointAtEnd(Append(s, f))
  BY <1>1, <1>2 DEF Range, CheckpointAtEnd
<1> QED
  BY <1>3, <1>4

(* The first file of a list and the others: the checkpoint is the last.    *)
LEMMA DroppingHead ==
  ASSUME NEW s \in Seq(Files), s # << >>, CheckpointAtEnd(s)
  PROVE  /\ Range(s) = {Head(s)} \cup Range(Tail(s))
         /\ CheckpointAtEnd(Tail(s))
         /\ Head(s) = CheckpointFile => Range(Tail(s)) = {}
<1>1. DOMAIN s = 1..Len(s) /\ Len(s) \in Nat \ {0}
  BY LenProperties, EmptySeq
<1>2. /\ Tail(s) \in Seq(Files)
      /\ Len(Tail(s)) = Len(s) - 1
      /\ \A i \in 1..Len(Tail(s)) : Tail(s)[i] = s[i + 1]
      /\ Head(s) = s[1]
  BY HeadTailProperties
<1>3. DOMAIN Tail(s) = 1..(Len(s) - 1)
  BY <1>2, LenProperties
<1>4. Range(s) = {Head(s)} \cup Range(Tail(s))
  <2>1. ASSUME NEW i \in DOMAIN s
        PROVE  s[i] \in {Head(s)} \cup Range(Tail(s))
    <3>1. CASE i = 1
      BY <3>1, <1>2
    <3>2. CASE i # 1
      <4>1. i - 1 \in 1..(Len(s) - 1) /\ (i - 1) + 1 = i
        BY <3>2, <1>1
      <4> QED
        BY <4>1, <1>2, <1>3 DEF Range
    <3> QED
      BY <3>1, <3>2
  <2>2. ASSUME NEW i \in DOMAIN Tail(s)
        PROVE  Tail(s)[i] \in Range(s)
    <3>1. i + 1 \in DOMAIN s /\ Tail(s)[i] = s[i + 1]
      BY <1>1, <1>2, <1>3
    <3> QED
      BY <3>1 DEF Range
  <2>3. Head(s) \in Range(s)
    BY <1>1, <1>2 DEF Range
  <2> QED
    BY <2>1, <2>2, <2>3 DEF Range
<1>5. CheckpointAtEnd(Tail(s))
  <2>1. ASSUME NEW i \in 1..Len(Tail(s)), Tail(s)[i] = CheckpointFile
        PROVE  i = Len(Tail(s))
    <3>1. i + 1 \in 1..Len(s) /\ s[i + 1] = CheckpointFile
      BY <2>1, <1>1, <1>2
    <3>2. i + 1 = Len(s)
      BY <3>1 DEF CheckpointAtEnd
    <3>3. i \in Nat /\ Len(s) \in Nat
      BY <1>1, <1>2
    <3> QED
      BY <3>2, <3>3, <1>2
  <2> QED
    BY <2>1 DEF CheckpointAtEnd
<1>6. ASSUME Head(s) = CheckpointFile
      PROVE  Range(Tail(s)) = {}
  <2>1. Len(s) = 1
    <3>1. 1 \in 1..Len(s)
      BY <1>1
    <3>2. s[1] = CheckpointFile
      BY <1>6, <1>2
    <3> QED
      BY <3>1, <3>2 DEF CheckpointAtEnd
  <2>2. DOMAIN Tail(s) = {}
    BY <2>1, <1>3
  <2> QED
    BY <2>2 DEF Range
<1> QED
  BY <1>4, <1>5, <1>6

(* The empty list has no checkpoint that could be out of place.            *)
LEMMA NoFiles == Range(<< >>) = {} /\ CheckpointAtEnd(<< >>)
BY DEF Range, CheckpointAtEnd

-----------------------------------------------------------------------------
(* One actor at a time. *)

(* With one service process there is one active actor at most.             *)
LEMMA Alone ==
  ASSUME SingleInstance, TypeOK, LockInv,
         NEW a \in Actors, Active(a), NEW b \in Actors, b # a
  PROVE  ~Active(b)
<1>1. \A t \in Threads : ProcOf[t] \in Procs
  BY JournalAssumption
<1> QED
  BY <1>1 DEF SingleInstance, LockInv, Active, Actors

(* Whoever is idle knows nothing. *)
LEMMA IdleActor ==
  ASSUME NEW a \in Actors, pc[a] = "idle"
  PROVE  ActorInv(a)
BY DEF ActorInv

(* A step of one actor that keeps it at work leaves the lock as it is. *)
LEMMA StayingLockInv ==
  ASSUME TypeOK, LockInv, NEW a \in Actors, Active(a), NEW label, Goto(a, label),
         label # "idle", UNCHANGED <<lock, svc>>,
         a \in Procs => label \notin {"prepare", "stage", "plan", "ready", "commit"}
  PROVE  LockInv'
BY DEF TypeOK, LockInv, Active, Goto, Actors

(* Whoever leaves gives up the lock.                                       *)
LEMMA LeavingLockInv ==
  ASSUME TypeOK, LockInv, NEW a \in Actors, Active(a),
         NEW status \in {"down", "serving"}, Leave(a, status)
  PROVE  LockInv'
<1>1. CASE a \in Threads
  BY <1>1, JournalAssumption DEF TypeOK, LockInv, Active, Leave, Goto, Actors
<1>2. CASE a \notin Threads
  <2>1. a \in Procs
    BY <1>2 DEF Actors
  <2> QED
    BY <1>2, <2>1, JournalAssumption DEF TypeOK, LockInv, Active, Leave, Goto, Actors
<1> QED
  BY <1>1, <1>2

(* When only one actor moves, its own part of the invariant is all there    *)
(* is to show.                                                              *)
LEMMA OthersIdle ==
  ASSUME SingleInstance, TypeOK, LockInv, NEW a \in Actors, Active(a),
         NEW label, Goto(a, label), ActorInv(a)'
  PROVE  \A b \in Actors : ActorInv(b)'
<1>1. ASSUME NEW b \in Actors, b # a
      PROVE  pc'[b] = "idle"
  BY <1>1, Alone DEF TypeOK, Active, Goto
<1>2. ASSUME NEW b \in Actors, b # a
      PROVE  ActorInv(b)'
  BY <1>1, <1>2 DEF ActorInv
<1> QED
  BY <1>2

-----------------------------------------------------------------------------
(* The only run directory. *)

(* A step that leaves the disk alone keeps what is known of it. *)
LEMMA SameDirs ==
  ASSUME DirsInv, UNCHANGED dirs
  PROVE  DirsInv'
BY DEF DirsInv, ReadyIsReplayable, Staged

(* Writing the only run directory. *)
LEMMA EditingOnlyDir ==
  ASSUME TypeOK, NEW r \in RunIds, DOMAIN dirs \subseteq {r},
         NEW d \in RunDirs, SetDir(r, d)
  PROVE  /\ DOMAIN dirs' = {r} /\ dirs'[r] = d
         /\ (/\ d.plan # NoPlan => CheckpointAtEnd(d.plan)
             /\ d.ready /\ DOMAIN d.files # {} =>
                  /\ d.plan # NoPlan
                  /\ DOMAIN d.files \subseteq Range(d.plan)
                  /\ CheckpointFile \in DOMAIN d.files) => DirsInv'
<1>1. DOMAIN dirs' = {r} /\ dirs'[r] = d
  BY SettingDir
<1> QED
  BY <1>1 DEF DirsInv, ReadyIsReplayable, Staged

-----------------------------------------------------------------------------
(* The invariant. *)

(* A step that leaves the disk alone and puts its actor at another label.   *)
LEMMA QuietStep ==
  ASSUME SingleInstance, TypeOK, JournalInv, NEW a \in Actors, Active(a),
         NEW label, Goto(a, label), label # "idle", UNCHANGED <<disk, lock, svc>>,
         a \in Procs => label \notin {"prepare", "stage", "plan", "ready", "commit"},
         ActorInv(a)'
  PROVE  JournalInv'
<1>1. LockInv'
  BY StayingLockInv DEF JournalInv
<1>2. DirsInv'
  BY SameDirs DEF JournalInv, disk
<1>3. \A b \in Actors : ActorInv(b)'
  BY OthersIdle DEF JournalInv
<1> QED
  BY <1>1, <1>2, <1>3 DEF JournalInv

(* So does returning and raising. *)
LEMMA LeavingStep ==
  ASSUME SingleInstance, TypeOK, JournalInv, NEW a \in Actors, Active(a),
         NEW status \in {"down", "serving"}, Leave(a, status), DirsInv'
  PROVE  JournalInv'
<1>1. LockInv'
  BY LeavingLockInv DEF JournalInv
<1>2. pc'[a] = "idle"
  BY DEF TypeOK, Leave, Goto
<1>3. ActorInv(a)'
  BY <1>2 DEF ActorInv
<1>4. \A b \in Actors : ActorInv(b)'
  BY <1>3, OthersIdle DEF JournalInv, Leave
<1> QED
  BY <1>1, <1>4 DEF JournalInv

(* Every action keeps the invariant. *)
LEMMA InvStep == SingleInstance /\ TypeOK /\ JournalInv /\ [Next]_vars => JournalInv'
<1> SUFFICES ASSUME SingleInstance, TypeOK, JournalInv, [Next]_vars
             PROVE  JournalInv'
  OBVIOUS
<1> USE DEF memory
<1>1. ASSUME NEW p \in Procs, Boot(p)
      PROVE  JournalInv'
  <2>1. \A a \in Actors : pc[a] = "idle"
    <3>1. ~Active(p) /\ \A t \in Threads : ProcOf[t] = p
      BY <1>1, JournalAssumption DEF JournalInv, LockInv, Boot, SingleInstance
    <3>2. \A t \in Threads : ~Active(t)
      BY <1>1, <3>1 DEF JournalInv, LockInv, Boot
    <3> QED
      BY <3>1, <3>2 DEF SingleInstance, Active, Actors
  <2>2. p \in Actors /\ pc' = [pc EXCEPT ![p] = "scan"]
    BY <1>1 DEF Boot, Goto, Actors
  <2>3. \A a \in Actors : pc'[a] = IF a = p THEN "scan" ELSE "idle"
    BY <2>1, <2>2 DEF TypeOK
  <2>4. LockInv'
    BY <1>1, <2>1, <2>3, JournalAssumption
       DEF JournalInv, LockInv, Boot, Active, Actors, TypeOK, SingleInstance
  <2>5. \A a \in Actors : ActorInv(a)'
    BY <2>3 DEF ActorInv
  <2>6. DirsInv'
    BY <1>1, SameDirs DEF JournalInv, Boot, disk
  <2> QED
    BY <2>4, <2>5, <2>6 DEF JournalInv
<1>2. ASSUME NEW t \in Threads, Acquire(t)
      PROVE  JournalInv'
  <2>1. \A a \in Actors : pc[a] = "idle"
    <3>1. \A u \in Threads : ~Active(u)
      BY <1>2, JournalAssumption DEF JournalInv, LockInv, Acquire, Actors
    <3>2. \A p \in Procs : svc[p] = "serving"
      BY <1>2, JournalAssumption DEF Acquire, SingleInstance
    <3> QED
      BY <3>1, <3>2 DEF JournalInv, LockInv, Active, Actors
  <2>2. t \in Actors /\ pc' = [pc EXCEPT ![t] = "scan"]
    BY <1>2 DEF Acquire, Goto, Actors
  <2>3. \A a \in Actors : pc'[a] = IF a = t THEN "scan" ELSE "idle"
    BY <2>1, <2>2 DEF TypeOK
  <2>4. LockInv'
    BY <1>2, <2>1, <2>3, JournalAssumption
       DEF JournalInv, LockInv, Acquire, Active, Actors, TypeOK
  <2>5. \A a \in Actors : ActorInv(a)'
    BY <2>3 DEF ActorInv
  <2>6. DirsInv'
    BY <1>2, SameDirs DEF JournalInv, Acquire, disk
  <2> QED
    BY <2>4, <2>5, <2>6 DEF JournalInv
<1>3. ASSUME NEW a \in Actors, Sweep(a)
      PROVE  JournalInv'
  <2>1. CASE Scan(a)
    <3>1. ActorInv(a)'
      BY <2>1 DEF Scan, Goto, ActorInv, TypeOK, disk
    <3> QED
      BY <2>1, <3>1, QuietStep DEF Scan, Active
  <2>2. ASSUME NEW r \in todo[a], ResumeReady(a, r)
        PROVE  JournalInv'
    <3>1. DOMAIN dirs = {r} /\ todo[a] = {r}
      BY <2>2 DEF ResumeReady, JournalInv, ActorInv, DirsInv
    <3>2. ExecuteInv(a)'
      <4>1. dirs[r].ready /\ dirs[r].plan # NoPlan
        BY <2>2 DEF ResumeReady, IsReady, HasPlan
      <4>2. CheckpointAtEnd(dirs[r].plan) /\ Staged(r) \subseteq Range(dirs[r].plan)
        BY <3>1, <4>1 DEF JournalInv, DirsInv, ReadyIsReplayable
      <4>3. /\ run'[a] = r /\ steps'[a] = dirs[r].plan /\ todo'[a] = {}
            /\ dirs' = dirs
        BY <2>2, <3>1 DEF ResumeReady, TypeOK, disk
      <4> QED
        BY <3>1, <4>1, <4>2, <4>3 DEF ExecuteInv, Staged
    <3>3. ActorInv(a)'
      BY <2>2, <3>2 DEF ResumeReady, Goto, ActorInv, TypeOK
    <3> QED
      BY <2>2, <3>3, QuietStep DEF ResumeReady, Active
  <2>3. ASSUME NEW r \in todo[a], ResumeDiscard(a, r)
        PROVE  JournalInv'
    <3>1. DOMAIN dirs = {r} /\ todo[a] = {r}
      BY <2>3 DEF ResumeDiscard, JournalInv, ActorInv, DirsInv
    <3>2. ActorInv(a)'
      BY <2>3, <3>1 DEF ResumeDiscard, Goto, ActorInv, TypeOK, IsReady, disk
    <3> QED
      BY <2>3, <3>2, QuietStep DEF ResumeDiscard, Active
  <2>4. CASE ResumeDone(a)
    <3>1. CASE a \in Procs /\ Leave(a, "serving") /\ UNCHANGED disk
      BY <2>4, <3>1, LeavingStep, SameDirs DEF ResumeDone, Active, JournalInv, disk
    <3>2. CASE a \in Threads /\ Goto(a, "prepare") /\ UNCHANGED <<disk, lock, svc, memory>>
      <4>1. ActorInv(a)'
        BY <2>4, <3>2 DEF ResumeDone, Goto, JournalInv, ActorInv, TypeOK, disk
      <4> QED
        BY <2>4, <3>2, <4>1, JournalAssumption, QuietStep DEF ResumeDone, Active
    <3> QED
      BY <2>4, <3>1, <3>2 DEF ResumeDone
  <2> QED
    BY <1>3, <2>1, <2>2, <2>3, <2>4 DEF Sweep
<1>4. ASSUME NEW a \in Actors, Stage(a)
      PROVE  JournalInv'
  <2>1. CASE ReturnDry(a)
    BY <2>1, LeavingStep, SameDirs DEF ReturnDry, Active, JournalInv, disk
  <2>2. ASSUME NEW r \in RunIds, BeginRun(a, r)
        PROVE  JournalInv'
    <3>1. /\ a \in Threads
          /\ DOMAIN dirs = {} /\ todo[a] = {} /\ DirOf(r) = NewDir
      BY <2>2 DEF BeginRun, JournalInv, LockInv, ActorInv, Actors, DirOf
    <3>2. DOMAIN dirs' = {r} /\ dirs'[r] = NewDir /\ DirsInv'
      <4>1. NewDir \in RunDirs /\ SetDir(r, NewDir)
        BY <2>2, <3>1, DirsAreTyped DEF BeginRun
      <4> QED
        BY <3>1, <4>1, EditingOnlyDir, EmptyPartial DEF NewDir
    <3>3. /\ pc'[a] = "stage" /\ run'[a] = r /\ steps'[a] = << >> /\ todo'[a] = {}
      BY <2>2, <3>1 DEF BeginRun, Goto, TypeOK
    <3>4. StageInv(a)'
      <4>1. DOMAIN NewDir.files = {} /\ ~NewDir.ready
        BY DEF NewDir
      <4>2. Staged(r)' = {} /\ Range(steps'[a]) = {} /\ CheckpointAtEnd(steps'[a])
        BY <3>2, <3>3, <4>1, NoFiles DEF Staged
      <4> QED
        BY <3>2, <3>3, <4>1, <4>2 DEF StageInv
    <3>5. ActorInv(a)'
      BY <3>3, <3>4 DEF ActorInv
    <3>6. LockInv'
      BY <2>2, <3>1, JournalAssumption, StayingLockInv DEF BeginRun, Active, JournalInv
    <3> QED
      BY <2>2, <3>2, <3>5, <3>6, OthersIdle DEF BeginRun, Active, JournalInv
  <2>3. ASSUME NEW f \in Files, NEW c \in Contents, StageFile(a, f, c)
        PROVE  JournalInv'
    <3> DEFINE r == run[a]
               d == [dirs[r] EXCEPT !.files = Put(@, f, c)]
               s == Append(steps[a], f)
    <3>1. a \in Threads /\ StageInv(a) /\ todo[a] = {} /\ r \in RunIds
      BY <2>3 DEF StageFile, JournalInv, LockInv, ActorInv, Actors, TypeOK
    <3>2. dirs[r] \in RunDirs /\ d \in RunDirs /\ SetDir(r, d)
      BY <2>3, <3>1, DirsAreTyped, EditingDir DEF StageFile, StageInv, DirOf
    <3>3. /\ d.ready = dirs[r].ready /\ d.plan = dirs[r].plan
          /\ DOMAIN d.files = DOMAIN dirs[r].files \cup {f}
      BY <3>2 DEF RunDirs, Put
    <3>4. DOMAIN dirs' = {r} /\ dirs'[r] = d /\ DirsInv'
      <4>1. ~d.ready /\ (d.plan # NoPlan => CheckpointAtEnd(d.plan))
        BY <3>1, <3>3 DEF JournalInv, DirsInv, StageInv
      <4> HIDE DEF d
      <4> QED
        BY <3>1, <3>2, <4>1, EditingOnlyDir DEF StageInv
    <3>5. /\ run'[a] = r /\ steps'[a] = s /\ todo'[a] = {}
          /\ pc'[a] = IF f = CheckpointFile THEN "plan" ELSE "stage"
      BY <2>3, <3>1 DEF StageFile, Goto, TypeOK
    <3>6. StageInv(a)'
      <4>1. Range(s) = Range(steps[a]) \cup {f} /\ CheckpointAtEnd(s)
        BY <2>3, <3>1, AppendingFile DEF StageFile, StageInv, TypeOK
      <4>2. CheckpointFile \in Range(s) <=> pc'[a] # "stage"
        BY <2>3, <3>1, <3>5, <4>1 DEF StageFile, StageInv
      <4> HIDE DEF d, s
      <4> QED
        BY <2>3, <3>1, <3>3, <3>4, <3>5, <4>1, <4>2 DEF StageInv, Staged, StageFile
    <3>7. ActorInv(a)'
      BY <3>5, <3>6 DEF ActorInv
    <3>8. LockInv'
      BY <2>3, <3>1, JournalAssumption, StayingLockInv DEF StageFile, Active, JournalInv
    <3> QED
      BY <2>3, <3>4, <3>7, <3>8, OthersIdle DEF StageFile, Active, JournalInv
  <2> QED
    BY <1>4, <2>1, <2>2, <2>3 DEF Stage
<1>5. ASSUME NEW a \in Actors, Execute(a)
      PROVE  JournalInv'
  <2> DEFINE r == run[a]
  <2>1. CASE WritePlan(a)
    <3> DEFINE d == [dirs[r] EXCEPT !.plan = steps[a]]
    <3>1. a \in Threads /\ StageInv(a) /\ todo[a] = {} /\ r \in RunIds
      BY <2>1 DEF WritePlan, JournalInv, LockInv, ActorInv, Actors, TypeOK
    <3>2. dirs[r] \in RunDirs /\ d \in RunDirs /\ SetDir(r, d)
      BY <2>1, <3>1, DirsAreTyped, EditingDir DEF WritePlan, StageInv, DirOf, TypeOK
    <3>3. d.ready = dirs[r].ready /\ d.plan = steps[a] /\ d.files = dirs[r].files
      BY <3>2 DEF RunDirs
    <3> HIDE DEF d
    <3>4. DOMAIN dirs' = {r} /\ dirs'[r] = d /\ DirsInv'
      BY <3>1, <3>2, <3>3, EditingOnlyDir DEF StageInv
    <3>5. run'[a] = r /\ steps'[a] = steps[a] /\ todo'[a] = {} /\ pc'[a] = "ready"
      BY <2>1, <3>1 DEF WritePlan, Goto, TypeOK
    <3>6. StageInv(a)'
      BY <2>1, <3>1, <3>3, <3>4, <3>5 DEF StageInv, WritePlan, Staged
    <3>7. ActorInv(a)'
      BY <3>5, <3>6 DEF ActorInv
    <3>8. LockInv'
      BY <2>1, <3>1, JournalAssumption, StayingLockInv DEF WritePlan, Active, JournalInv
    <3> QED
      BY <2>1, <3>4, <3>7, <3>8, OthersIdle DEF WritePlan, Active, JournalInv
  <2>2. CASE MarkReady(a)
    <3> DEFINE d == [dirs[r] EXCEPT !.ready = TRUE]
    <3>1. a \in Threads /\ StageInv(a) /\ todo[a] = {} /\ r \in RunIds
      BY <2>2 DEF MarkReady, JournalInv, LockInv, ActorInv, Actors, TypeOK
    <3>2. dirs[r] \in RunDirs /\ d \in RunDirs /\ SetDir(r, d)
      BY <2>2, <3>1, DirsAreTyped, EditingDir DEF MarkReady, StageInv, DirOf
    <3>3. d.ready /\ d.plan = dirs[r].plan /\ d.files = dirs[r].files
      BY <3>2 DEF RunDirs
    <3>4. dirs[r].plan = steps[a] /\ steps[a] # NoPlan
      BY <2>2, <3>1, JournalAssumption DEF MarkReady, StageInv, TypeOK
    <3> HIDE DEF d
    <3>5. /\ DOMAIN dirs' = {r} /\ dirs'[r] = d
          /\ DirsInv'
      <4>1. /\ CheckpointAtEnd(d.plan) /\ d.plan # NoPlan
            /\ DOMAIN d.files = Range(d.plan) /\ CheckpointFile \in DOMAIN d.files
        BY <2>2, <3>1, <3>3, <3>4 DEF StageInv, Staged, MarkReady
      <4> QED
        BY <3>1, <3>2, <4>1, EditingOnlyDir DEF StageInv
    <3>6. run'[a] = r /\ todo'[a] = {} /\ pc'[a] = "commit"
      BY <2>2, <3>1 DEF MarkReady, Goto, TypeOK
    <3>7. ActorInv(a)'
      BY <3>3, <3>4, <3>5, <3>6 DEF ActorInv, IsReady, HasPlan
    <3>8. LockInv'
      BY <2>2, <3>1, JournalAssumption, StayingLockInv DEF MarkReady, Active, JournalInv
    <3> QED
      BY <2>2, <3>5, <3>7, <3>8, OthersIdle DEF MarkReady, Active, JournalInv
  <2>3. CASE Commit(a)
    <3>1. DOMAIN dirs = {r} /\ todo[a] = {} /\ IsReady(r) /\ HasPlan(r)
      BY <2>3 DEF Commit, JournalInv, ActorInv
    <3>2. ExecuteInv(a)'
      <4>1. CheckpointAtEnd(dirs[r].plan) /\ Staged(r) \subseteq Range(dirs[r].plan)
        BY <3>1 DEF JournalInv, DirsInv, ReadyIsReplayable, IsReady, HasPlan
      <4>2. /\ run'[a] = r /\ steps'[a] = dirs[r].plan /\ todo'[a] = {}
            /\ dirs' = dirs
        BY <2>3, <3>1 DEF Commit, TypeOK, disk
      <4> QED
        BY <3>1, <4>1, <4>2 DEF ExecuteInv, Staged, IsReady, HasPlan
    <3>3. ActorInv(a)'
      BY <2>3, <3>2 DEF Commit, Goto, ActorInv, TypeOK
    <3> QED
      BY <2>3, <3>3, QuietStep DEF Commit, Active
  <2>4. CASE CheckStaged(a)
    <3>1. ExecuteInv(a)'
      BY <2>4 DEF CheckStaged, JournalInv, ActorInv, ExecuteInv, Staged, disk
    <3>2. Head(steps'[a]) \in Staged(run[a])' /\ run'[a] = run[a]
      BY <2>4 DEF CheckStaged, IsStaged, Staged, disk
    <3>3. ActorInv(a)'
      BY <2>4, <3>1, <3>2 DEF CheckStaged, Goto, ActorInv, TypeOK, Staged
    <3> QED
      BY <2>4, <3>3, QuietStep DEF CheckStaged, Active
  <2>5. CASE SkipStep(a)
    <3>1. ExecuteInv(a)
      BY <2>5 DEF SkipStep, JournalInv, ActorInv
    <3>2. /\ Range(steps[a]) = {Head(steps[a])} \cup Range(Tail(steps[a]))
          /\ CheckpointAtEnd(Tail(steps[a]))
      BY <2>5, <3>1, DroppingHead DEF SkipStep, ExecuteInv, TypeOK
    <3>3. Head(steps[a]) \notin Staged(r)
      BY <2>5 DEF SkipStep, IsStaged, Staged
    <3>4. steps'[a] = Tail(steps[a]) /\ UNCHANGED <<dirs, run, todo, pc>> /\ pc[a] = "execute"
      BY <2>5 DEF SkipStep, TypeOK, disk
    <3>5. ExecuteInv(a)'
      BY <3>1, <3>2, <3>3, <3>4 DEF ExecuteInv, Staged
    <3>6. ActorInv(a)'
      BY <3>4, <3>5 DEF ActorInv
    <3>7. Goto(a, "execute")
      BY <3>4 DEF Goto, TypeOK
    <3> QED
      BY <2>5, <3>6, <3>7, QuietStep DEF SkipStep, Active
  <2>6. CASE Replace(a)
    <3> DEFINE f == Head(steps[a])
               d == [dirs[r] EXCEPT !.files = Drop(@, f)]
    <3>1. ExecuteInv(a) /\ r \in RunIds /\ steps[a] \in Seq(Files) /\ steps[a] # << >>
      BY <2>6 DEF Replace, JournalInv, ActorInv, TypeOK
    <3>2. dirs[r] \in RunDirs /\ d \in RunDirs /\ SetDir(r, d)
      BY <2>6, <3>1, DirsAreTyped, EditingDir DEF Replace, ExecuteInv
    <3>3. /\ d.ready /\ d.plan = dirs[r].plan
          /\ DOMAIN d.files = DOMAIN dirs[r].files \ {f}
      BY <3>1, <3>2 DEF RunDirs, Drop, Restrict, ExecuteInv
    <3>4. /\ Range(steps[a]) = {f} \cup Range(Tail(steps[a]))
          /\ CheckpointAtEnd(Tail(steps[a]))
          /\ f = CheckpointFile => Range(Tail(steps[a])) = {}
      BY <3>1, DroppingHead DEF ExecuteInv
    <3>5. f \in Staged(r)
      BY <2>6 DEF Replace, IsStaged, Staged
    <3> HIDE DEF f, d
    <3>6. DOMAIN dirs' = {r} /\ dirs'[r] = d /\ DirsInv'
      <4>1. /\ CheckpointAtEnd(d.plan)
            /\ DOMAIN d.files # {} => /\ d.plan # NoPlan
                                      /\ DOMAIN d.files \subseteq Range(d.plan)
                                      /\ CheckpointFile \in DOMAIN d.files
        BY <3>1, <3>3, <3>4, <3>5
           DEF JournalInv, DirsInv, ReadyIsReplayable, ExecuteInv, Staged
      <4> QED
        BY <3>1, <3>2, <4>1, EditingOnlyDir DEF ExecuteInv
    <3>7. /\ run'[a] = r /\ todo'[a] = todo[a] /\ steps'[a] = Tail(steps[a])
          /\ pc'[a] = "execute"
      BY <2>6 DEF Replace, Goto, TypeOK
    <3>8. ExecuteInv(a)'
      BY <3>1, <3>3, <3>4, <3>6, <3>7 DEF ExecuteInv, Staged
    <3>9. ActorInv(a)'
      BY <3>7, <3>8 DEF ActorInv
    <3>10. LockInv'
      BY <2>6, StayingLockInv DEF Replace, Active, JournalInv
    <3> QED
      BY <2>6, <3>6, <3>9, <3>10, OthersIdle DEF Replace, Active, JournalInv
  <2>7. CASE ExecuteDone(a)
    <3>1. ActorInv(a)'
      BY <2>7, NoFiles
         DEF ExecuteDone, Goto, JournalInv, ActorInv, ExecuteInv, TypeOK, Staged, disk
    <3> QED
      BY <2>7, <3>1, QuietStep DEF ExecuteDone, Active
  <2> QED
    BY <1>5, <2>1, <2>2, <2>3, <2>4, <2>5, <2>6, <2>7 DEF Execute
<1>6. ASSUME NEW a \in Actors, Remove(a)
      PROVE  JournalInv'
  <2> DEFINE r == run[a]
  <2>1. /\ pc[a] \in {"clean", "discard"}
        /\ DOMAIN dirs = {r} /\ todo[a] = {} /\ r \in RunIds /\ dirs[r] \in RunDirs
        /\ IF pc[a] = "clean" THEN Staged(r) = {} ELSE ~dirs[r].ready
    <3>1. pc[a] \in {"clean", "discard"}
      BY <1>6 DEF Remove, Removing, RemoveStaged, RemovePlan, RemoveReady, RemoveDir,
                  CleanupMissing
    <3> QED
      BY <3>1, DirsAreTyped DEF JournalInv, ActorInv, TypeOK, IsReady
  <2>2. ASSUME NEW d \in RunDirs, SetDir(r, d), UNCHANGED <<live, lock, svc, pc, memory>>,
               DOMAIN d.files \subseteq DOMAIN dirs[r].files,
               d.plan \in {dirs[r].plan, NoPlan}, d.ready \in {dirs[r].ready, FALSE}
        PROVE  JournalInv'
    <3>1. DOMAIN dirs' = {r} /\ dirs'[r] = d /\ DirsInv'
      <4>1. d.plan # NoPlan => CheckpointAtEnd(d.plan)
        BY <2>1, <2>2 DEF JournalInv, DirsInv
      <4>2. ~d.ready \/ DOMAIN d.files = {}
        BY <2>1, <2>2 DEF Staged
      <4> QED
        BY <2>1, <2>2, <4>1, <4>2, EditingOnlyDir
    <3>2. ActorInv(a)'
      BY <2>1, <2>2, <3>1 DEF ActorInv, IsReady, Staged
    <3>3. Goto(a, pc[a])
      BY <2>2 DEF Goto, TypeOK
    <3>4. LockInv'
      BY <2>2 DEF JournalInv, LockInv, Active
    <3> QED
      BY <2>1, <3>1, <3>2, <3>3, <3>4, OthersIdle DEF Active, JournalInv
  <2>3. ASSUME NEW f, RemoveStaged(a, f)
        PROVE  JournalInv'
    <3> DEFINE d == [dirs[r] EXCEPT !.files = Drop(@, f)]
    <3>1. d \in RunDirs /\ SetDir(r, d)
      BY <2>1, <2>3, EditingDir DEF RemoveStaged
    <3>2. /\ DOMAIN d.files \subseteq DOMAIN dirs[r].files
          /\ d.plan = dirs[r].plan /\ d.ready = dirs[r].ready
      BY <2>1 DEF RunDirs, Drop, Restrict
    <3> HIDE DEF d
    <3> QED
      BY <2>2, <2>3, <3>1, <3>2 DEF RemoveStaged
  <2>4. CASE RemovePlan(a)
    <3> DEFINE d == [dirs[r] EXCEPT !.plan = NoPlan]
    <3>1. d \in RunDirs /\ SetDir(r, d)
      BY <2>1, <2>4, EditingDir DEF RemovePlan
    <3>2. d.files = dirs[r].files /\ d.plan = NoPlan /\ d.ready = dirs[r].ready
      BY <2>1 DEF RunDirs
    <3> HIDE DEF d
    <3> QED
      BY <2>2, <2>4, <3>1, <3>2 DEF RemovePlan
  <2>5. CASE RemoveReady(a)
    <3> DEFINE d == [dirs[r] EXCEPT !.ready = FALSE]
    <3>1. d \in RunDirs /\ SetDir(r, d)
      BY <2>1, <2>5, EditingDir DEF RemoveReady
    <3>2. d.files = dirs[r].files /\ d.plan = dirs[r].plan /\ d.ready = FALSE
      BY <2>1 DEF RunDirs
    <3> HIDE DEF d
    <3> QED
      BY <2>2, <2>5, <3>1, <3>2 DEF RemoveReady
  <2>6. ASSUME DOMAIN dirs' = {}, Removed(a)
        PROVE  JournalInv'
    <3>1. DirsInv'
      BY <2>6 DEF DirsInv, ReadyIsReplayable
    <3>2. CASE Leave(a, "serving")
      BY <2>1, <3>1, <3>2, LeavingStep DEF Active
    <3>3. CASE Goto(a, "resume") /\ UNCHANGED <<lock, svc, memory>>
      <4>1. ActorInv(a)'
        BY <2>1, <2>6, <3>3 DEF Goto, ActorInv, TypeOK
      <4>2. LockInv'
        BY <2>1, <3>3, StayingLockInv DEF Active, JournalInv
      <4> QED
        BY <2>1, <3>1, <3>3, <4>1, <4>2, OthersIdle DEF Active, JournalInv
    <3> QED
      BY <2>6, <3>2, <3>3 DEF Removed
  <2>7. CASE RemoveDir(a)
    BY <2>1, <2>6, <2>7, DroppingDir DEF RemoveDir
  <2>8. ~CleanupMissing(a)
    BY <2>1 DEF CleanupMissing
  <2> QED
    BY <1>6, <2>3, <2>4, <2>5, <2>7, <2>8 DEF Remove
<1>7. ASSUME NEW a \in Actors, Raise(a) \/ OSError(a)
      PROVE  JournalInv'
  <2>1. Active(a)
    BY <1>7 DEF Raise, Stuck, OSError, Active
  <2> QED
    BY <1>7, <2>1, LeavingStep, SameDirs DEF Raise, OSError, JournalInv, disk
<1>8. ASSUME NEW p \in Procs, Crash(p)
      PROVE  JournalInv'
  <2>1. \A a \in Actors : a \in Killed(p)
    BY JournalAssumption DEF Killed, Actors, SingleInstance
  <2>2. \A a \in Actors : pc'[a] = "idle"
    BY <1>8, <2>1 DEF Crash
  <2>3. LockInv'
    <3>1. svc'[p] = "down" /\ \A q \in Procs : q = p
      BY <1>8 DEF Crash, SingleInstance, TypeOK
    <3>2. \A t \in Threads : lock' # t
      BY <1>8, <2>1, JournalAssumption DEF Crash, TypeOK, Actors
    <3> QED
      BY <2>2, <3>1, <3>2 DEF LockInv, Active, Actors
  <2>4. \A a \in Actors : ActorInv(a)'
    BY <2>2 DEF ActorInv
  <2>5. DirsInv'
    BY <1>8, SameDirs DEF Crash, JournalInv, disk
  <2> QED
    BY <2>3, <2>4, <2>5 DEF JournalInv
<1>9. CASE UNCHANGED vars
  <2>1. LockInv'
    BY <1>9 DEF JournalInv, LockInv, Active, vars
  <2>2. \A a \in Actors : ActorInv(a)'
    BY <1>9 DEF JournalInv, ActorInv, StageInv, ExecuteInv, IsReady, HasPlan, Staged, vars
  <2>3. DirsInv'
    BY <1>9, SameDirs DEF JournalInv, vars
  <2> QED
    BY <2>1, <2>2, <2>3 DEF JournalInv
<1> QED
  BY <1>1, <1>2, <1>3, <1>4, <1>5, <1>6, <1>7, <1>8, <1>9 DEF Next, Work, Fault

(* The journal starts empty.                                               *)
LEMMA InvInit == Init => JournalInv
BY JournalAssumption
   DEF Init, JournalInv, LockInv, ActorInv, DirsInv, ReadyIsReplayable, Active, Actors

(* With one service process, every reachable state satisfies the invariant. *)
THEOREM JournalInvariant ==
  ASSUME SingleInstance
  PROVE  Spec => []JournalInv
<1>1. TypeOK /\ JournalInv /\ TypeOK' /\ [Next]_vars => JournalInv'
  BY InvStep
<1> QED
  BY <1>1, InvInit, TypeCorrect, PTL DEF Spec

(* With one service process, whatever a crash or an error leaves behind,    *)
(* replaying a READY directory completes its run, checkpoint last.          *)
THEOREM ReadyRunsAreReplayable ==
  ASSUME SingleInstance
  PROVE  Spec => []ReadyIsReplayable
<1>1. JournalInv => ReadyIsReplayable
  BY DEF JournalInv, DirsInv
<1> QED
  BY <1>1, JournalInvariant, PTL

(* With one service process, a request that prepares its run finds the      *)
(* journal empty, and there is never more than one run in it.               *)
THEOREM JournalHoldsOneRun ==
  ASSUME SingleInstance
  PROVE  Spec => []OnePendingRun
<1>1. TypeOK /\ JournalInv => OnePendingRun
  <2> SUFFICES ASSUME TypeOK, JournalInv
               PROVE  OnePendingRun
    OBVIOUS
  <2>1. DOMAIN dirs = {} => dirs = << >>
    BY EmptyPartial DEF TypeOK
  <2> QED
    BY <2>1 DEF JournalInv, DirsInv, ActorInv, OnePendingRun
<1> QED
  BY <1>1, JournalInvariant, TypeCorrect, PTL

-----------------------------------------------------------------------------
(* The order of the renames, and the abstract specification. *)

(* A READY directory's files go on top of the live ones. *)
LEMMA ReplayingReady ==
  ASSUME NEW files, NEW ds, NEW r, DOMAIN ds = {r}, ds[r].ready
  PROVE  Replayed(files, ds) = Overlay(files, ds[r].files)
<1> DEFINE pending == {s \in DOMAIN ds : ds[s].ready}
           Holders(f) == {s \in pending : f \in DOMAIN ds[s].files}
<1>1. pending = {r} /\ UNION {DOMAIN ds[s].files : s \in pending} = DOMAIN ds[r].files
  OBVIOUS
<1>2. ASSUME NEW f \in DOMAIN files \cup DOMAIN ds[r].files
      PROVE  (IF Holders(f) = {} THEN files[f]
                ELSE ds[CHOOSE s \in Holders(f) : TRUE].files[f])
             = IF f \in DOMAIN ds[r].files THEN ds[r].files[f] ELSE files[f]
  <2>1. CASE f \in DOMAIN ds[r].files
    <3>1. Holders(f) = {r}
      BY <2>1
    <3>2. (CHOOSE s \in Holders(f) : TRUE) = r
      BY <3>1
    <3> QED
      BY <2>1, <3>1, <3>2
  <2>2. CASE f \notin DOMAIN ds[r].files
    <3>1. Holders(f) = {}
      BY <2>2
    <3> QED
      BY <2>2, <3>1
  <2> QED
    BY <2>1, <2>2
<1> QED
  BY <1>1, <1>2 DEF Replayed, Overlay

(* READY directories that hold no file change nothing. *)
LEMMA ReplayingNothing ==
  ASSUME NEW files \in Partial(Files, Contents), NEW ds,
         \A r \in DOMAIN ds : ds[r].ready => DOMAIN ds[r].files = {}
  PROVE  Replayed(files, ds) = files
<1> DEFINE pending == {s \in DOMAIN ds : ds[s].ready}
           Holders(f) == {s \in pending : f \in DOMAIN ds[s].files}
<1>1. UNION {DOMAIN ds[s].files : s \in pending} = {} /\ \A f : Holders(f) = {}
  OBVIOUS
<1>2. files = [f \in DOMAIN files |-> files[f]]
  BY PartialIsFunction
<1> QED
  BY <1>1, <1>2 DEF Replayed

(* Only a rename changes a live file. *)
LEMMA LiveChanges ==
  [Next]_vars => UNCHANGED live \/ \E a \in Actors : Replace(a)
BY DEF Next, Work, Fault, Sweep, Execute, Remove, Stage, Boot, Acquire, Scan, ResumeReady,
       ResumeDiscard, ResumeDone, ReturnDry, BeginRun, StageFile, WritePlan, MarkReady,
       Commit, CheckStaged, SkipStep, ExecuteDone, RemoveStaged, RemovePlan, RemoveReady,
       RemoveDir, CleanupMissing, Raise, OSError, Crash, disk, vars

(* A rename takes the file out of the one, READY, directory. *)
LEMMA Renaming ==
  ASSUME TypeOK, JournalInv, NEW a \in Actors, Replace(a), NEW r, r = run[a],
         NEW f, f = Head(steps[a])
  PROVE  /\ DOMAIN dirs = {r} /\ dirs[r].ready
         /\ DOMAIN dirs' = {r} /\ dirs'[r].ready
         /\ f \in DOMAIN dirs[r].files
         /\ dirs'[r].files = Drop(dirs[r].files, f)
         /\ live' = Put(live, f, dirs[r].files[f])
         /\ live' \in Partial(Files, Contents)
         /\ f = CheckpointFile => DOMAIN dirs'[r].files = {}
<1> DEFINE d == [dirs[r] EXCEPT !.files = Drop(@, f)]
<1>1. ExecuteInv(a) /\ r \in RunIds /\ steps[a] \in Seq(Files) /\ steps[a] # << >>
  BY DEF Replace, JournalInv, ActorInv, TypeOK
<1>2. dirs[r] \in RunDirs /\ d \in RunDirs /\ SetDir(r, d)
  BY <1>1, DirsAreTyped, EditingDir DEF Replace, ExecuteInv
<1>3. d.ready = dirs[r].ready /\ d.files = Drop(dirs[r].files, f)
  BY <1>2 DEF RunDirs
<1> HIDE DEF d
<1>4. DOMAIN dirs' = {r} /\ dirs'[r] = d /\ DOMAIN dirs = {r} /\ dirs[r].ready
  BY <1>1, <1>2, SettingDir DEF ExecuteInv
<1>5. f \in DOMAIN dirs[r].files /\ live' = Put(live, f, dirs[r].files[f])
  BY DEF Replace, IsStaged
<1>6. live' \in Partial(Files, Contents)
  <2>1. dirs[r].files \in Partial(Files, Contents)
    BY <1>2 DEF RunDirs
  <2>2. dirs[r].files[f] \in Contents /\ f \in Files
    BY <1>5, <2>1, PartialIsFunction
  <2> QED
    BY <1>5, <2>2, PuttingType DEF TypeOK
<1>7. ASSUME f = CheckpointFile
      PROVE  DOMAIN dirs'[r].files = {}
  <2>1. DOMAIN dirs[r].files \subseteq {f}
    BY <1>1, <1>7, DroppingHead DEF ExecuteInv, Staged
  <2> QED
    BY <1>3, <1>4, <2>1 DEF Drop, Restrict
<1> QED
  BY <1>3, <1>4, <1>5, <1>6, <1>7

(* With one service process, the rename of the checkpoint is the last one   *)
(* of its run, in the run itself and in every replay of it.                 *)
THEOREM CheckpointRenamedLast ==
  ASSUME SingleInstance
  PROVE  Spec => CheckpointLast
<1>1. ASSUME TypeOK, JournalInv, [Next]_vars, CheckpointReplaced
      PROVE  live' = Committed'
  <2>1. live' # live
    BY <1>1 DEF CheckpointReplaced
  <2>2. PICK a \in Actors : Replace(a)
    BY <1>1, <2>1, LiveChanges
  <2>3. PICK r, f : r = run[a] /\ f = Head(steps[a])
    OBVIOUS
  <2>4. /\ DOMAIN dirs' = {r}
        /\ live' = Put(live, f, dirs[r].files[f])
        /\ live' \in Partial(Files, Contents)
        /\ f = CheckpointFile => DOMAIN dirs'[r].files = {}
    BY <1>1, <2>2, <2>3, Renaming
  <2>5. f = CheckpointFile
    BY <1>1, <2>4 DEF CheckpointReplaced, Put
  <2>6. Replayed(live', dirs') = live'
    BY <2>4, <2>5, ReplayingNothing
  <2> QED
    BY <2>6 DEF Committed
<1>2. TypeOK /\ JournalInv /\ [Next]_vars => [CheckpointReplaced => live' = Committed']_vars
  BY <1>1
<1> QED
  BY <1>2, JournalInvariant, TypeCorrect, PTL DEF Spec, CheckpointLast

(* A READY directory only holds files at a point where it is committed.     *)
NothingPending == \A r \in DOMAIN dirs : dirs[r].ready => DOMAIN dirs[r].files = {}

(* While a request prepares, stages or cleans up, nothing is to be replayed. *)
LEMMA NothingPendingAt ==
  ASSUME JournalInv, NEW a \in Actors,
         pc[a] \in {"prepare", "stage", "plan", "ready", "clean", "discard"}
  PROVE  NothingPending
BY DEF JournalInv, ActorInv, StageInv, IsReady, Staged, NothingPending

(* Then the outputs are what a replay would make of them.                  *)
LEMMA NothingPendingCommitted ==
  ASSUME TypeOK, NothingPending
  PROVE  Committed = live
BY ReplayingNothing DEF TypeOK, NothingPending, Committed

(* The same of the state a step leads to.                                  *)
LEMMA NothingPendingCommittedNext ==
  ASSUME TypeOK', NothingPending'
  PROVE  Committed' = live'
BY ReplayingNothing DEF TypeOK, NothingPending, Committed

(* The steps of a run that prepares or cleans up its directory stutter.     *)
LEMMA UnseenSteps ==
  ASSUME TypeOK, TypeOK', JournalInv, JournalInv', NEW a \in Actors,
         pc[a] \in {"prepare", "stage", "plan", "ready", "clean", "discard"},
         pc'[a] \in {"prepare", "stage", "plan", "ready", "clean", "discard"} \/ DOMAIN dirs' = {},
         UNCHANGED live
  PROVE  UNCHANGED Committed
<1>1. NothingPending
  BY NothingPendingAt
<1>2. NothingPending'
  <2>1. CASE DOMAIN dirs' = {}
    BY <2>1 DEF NothingPending
  <2>2. CASE pc'[a] \in {"prepare", "stage", "plan", "ready", "clean", "discard"}
    <3>1. ActorInv(a)'
      BY DEF JournalInv
    <3>2. \A r \in DOMAIN dirs' : r = run'[a]
      BY <2>2, <3>1 DEF ActorInv, StageInv
    <3>3. ~IsReady(run[a])' \/ Staged(run[a])' = {} \/ DOMAIN dirs' = {}
      BY <2>2, <3>1 DEF ActorInv, StageInv, IsReady
    <3> QED
      BY <3>2, <3>3 DEF IsReady, Staged, NothingPending
  <2> QED
    BY <2>1, <2>2
<1> QED
  BY <1>1, <1>2, NothingPendingCommitted, NothingPendingCommittedNext

(* What is on offer is a set of files. *)
LEMMA OfferType ==
  ASSUME NEW ds, DOMAIN ds \subseteq RunIds, ds \in [DOMAIN ds -> RunDirs]
  PROVE  OfferedBy(ds) \in A!Partial(Files, Contents)
<1> DEFINE planned == {r \in DOMAIN ds : ds[r].plan # NoPlan /\ ~ds[r].ready}
<1>1. CASE planned = {}
  <2>1. OfferedBy(ds) = << >>
    BY <1>1 DEF OfferedBy
  <2>2. << >> \in Partial(Files, Contents)
    BY EmptyPartial
  <2> QED
    BY <2>1, <2>2 DEF A!Partial, Partial
<1>2. CASE planned # {}
  <2>1. (CHOOSE r \in planned : TRUE) \in planned
    BY <1>2
  <2>2. PICK r \in DOMAIN ds : r = CHOOSE s \in planned : TRUE
    BY <2>1
  <2>3. OfferedBy(ds) = ds[r].files
    BY <1>2, <2>2 DEF OfferedBy
  <2> QED
    BY <2>3 DEF RunDirs, A!Partial, Partial
<1> QED
  BY <1>1, <1>2

(* A step that the outputs-to-be do not see is one that prepares a batch. *)
LEMMA Preparing ==
  ASSUME TypeOK', UNCHANGED Committed
  PROVE  A!Prepare
<1>1. DOMAIN dirs' \subseteq RunIds /\ dirs' \in [DOMAIN dirs' -> RunDirs]
  BY DEF TypeOK
<1>2. Offered' \in A!Partial(Files, Contents)
  BY <1>1, OfferType DEF Offered
<1> QED
  BY <1>2 DEF A!Prepare

(* Writing READY makes the files that are staged the outputs-to-be. *)
LEMMA MarkReadySeals ==
  ASSUME TypeOK, JournalInv, NEW a \in Actors, MarkReady(a)
  PROVE  /\ Committed = live
         /\ Committed' = Overlay(live, dirs[run[a]].files)
         /\ dirs' = [r \in {run[a]} |-> [dirs[run[a]] EXCEPT !.ready = TRUE]]
<1>1. PICK r : r = run[a]
  OBVIOUS
<1> DEFINE d == [dirs[r] EXCEPT !.ready = TRUE]
<1>2. StageInv(a) /\ r \in RunIds
  BY <1>1 DEF MarkReady, JournalInv, ActorInv, TypeOK, StageInv
<1>3. dirs[r] \in RunDirs /\ d \in RunDirs /\ SetDir(r, d)
  BY <1>1, <1>2, DirsAreTyped, EditingDir DEF MarkReady, StageInv, DirOf
<1>4. d.ready /\ d.files = dirs[r].files
  BY <1>3 DEF RunDirs
<1> HIDE DEF d
<1>5. DOMAIN dirs' = {r} /\ dirs'[r] = d /\ live' = live /\ dirs' = [s \in {r} |-> d]
  BY <1>1, <1>2, <1>3, SettingDir DEF StageInv, MarkReady, SetDir, Put
<1>6. Committed = live
  BY NothingPendingAt, NothingPendingCommitted DEF MarkReady
<1>7. Committed' = Overlay(live, dirs[r].files)
  BY <1>4, <1>5, ReplayingReady DEF Committed
<1> QED
  BY <1>1, <1>5, <1>6, <1>7 DEF d

(* Writing READY is the commit of the abstract specification. *)
LEMMA MarkReadyCommits ==
  ASSUME TypeOK, JournalInv, NEW a \in Actors, MarkReady(a)
  PROVE  A!Commit
<1>1. PICK r : r = run[a]
  OBVIOUS
<1>2. StageInv(a) /\ r \in RunIds /\ CheckpointFile \in Staged(r)
  BY <1>1 DEF MarkReady, JournalInv, ActorInv, TypeOK, StageInv
<1>3. Committed' = Overlay(Committed, dirs[r].files)
  BY <1>1, MarkReadySeals
<1>4. DOMAIN dirs' = {r} /\ dirs'[r].ready
  <2>1. DOMAIN dirs' = {r} /\ dirs'[r] = [dirs[r] EXCEPT !.ready = TRUE]
    BY <1>1, MarkReadySeals
  <2>2. dirs[r] \in RunDirs
    BY <1>1, <1>2, DirsAreTyped DEF StageInv
  <2> QED
    BY <2>1, <2>2 DEF RunDirs
<1>5. dirs[r].plan = steps[a] /\ steps[a] # NoPlan /\ ~dirs[r].ready
  BY <1>1, <1>2, JournalAssumption DEF MarkReady, StageInv, TypeOK
<1>6. Offered = dirs[r].files
  <2>1. {s \in DOMAIN dirs : dirs[s].plan # NoPlan /\ ~dirs[s].ready} = {r}
    BY <1>1, <1>2, <1>5 DEF StageInv
  <2>2. (CHOOSE s \in {r} : TRUE) = r
    OBVIOUS
  <2> QED
    BY <2>1, <2>2 DEF Offered, OfferedBy
<1>7. Offered' = << >>
  <2>1. {s \in DOMAIN dirs' : dirs'[s].plan # NoPlan /\ ~dirs'[s].ready} = {}
    BY <1>4
  <2> QED
    BY <2>1 DEF Offered, OfferedBy
<1>8. A!IsBatch(Offered)
  BY <1>1, <1>2, <1>6 DEF A!IsBatch, Staged, StageInv
<1> QED
  BY <1>3, <1>6, <1>7, <1>8 DEF A!Commit, A!Overlay, Overlay

(* A rename does not change what the outputs will be. *)
LEMMA ReplaceStutters ==
  ASSUME TypeOK, JournalInv, NEW a \in Actors, Replace(a)
  PROVE  UNCHANGED Committed
<1>1. PICK r, f : r = run[a] /\ f = Head(steps[a])
  OBVIOUS
<1>2. /\ DOMAIN dirs = {r} /\ dirs[r].ready
      /\ DOMAIN dirs' = {r} /\ dirs'[r].ready
      /\ f \in DOMAIN dirs[r].files
      /\ dirs'[r].files = Drop(dirs[r].files, f)
      /\ live' = Put(live, f, dirs[r].files[f])
  BY <1>1, Renaming
<1>3. Committed = Overlay(live, dirs[r].files)
  BY <1>2, ReplayingReady DEF Committed
<1>4. Committed' = Overlay(live', dirs'[r].files)
  BY <1>2, ReplayingReady DEF Committed
<1>5. Overlay(live, dirs[r].files)
        = Overlay(Put(live, f, dirs[r].files[f]), Drop(dirs[r].files, f))
  BY <1>2 DEF Overlay, Put, Drop, Restrict
<1> QED
  BY <1>2, <1>3, <1>4, <1>5

(* Only writing READY changes what the outputs will be. *)
LEMMA CommittedStep ==
  ASSUME SingleInstance, TypeOK, JournalInv, [Next]_vars
  PROVE  UNCHANGED Committed \/ \E a \in Actors : MarkReady(a)
<1>1. TypeOK' /\ JournalInv'
  BY TypeStep, InvStep
<1>2. UNCHANGED disk => UNCHANGED Committed
  BY DEF Committed, disk
<1>3. ASSUME NEW a \in Actors, Stage(a)
      PROVE  UNCHANGED Committed
  <2>1. CASE ReturnDry(a)
    BY <2>1, <1>2 DEF ReturnDry
  <2>2. ASSUME NEW r \in RunIds, BeginRun(a, r)
        PROVE  UNCHANGED Committed
    <3>1. pc'[a] = "stage"
      BY <2>2 DEF BeginRun, Goto, TypeOK
    <3> QED
      BY <1>1, <2>2, <3>1, UnseenSteps DEF BeginRun
  <2>3. ASSUME NEW f \in Files, NEW c \in Contents, StageFile(a, f, c)
        PROVE  UNCHANGED Committed
    <3>1. pc'[a] \in {"stage", "plan"}
      BY <2>3 DEF StageFile, Goto, TypeOK
    <3> QED
      BY <1>1, <2>3, <3>1, UnseenSteps DEF StageFile
  <2> QED
    BY <1>3, <2>1, <2>2, <2>3 DEF Stage
<1>4. ASSUME NEW a \in Actors, Execute(a)
      PROVE  UNCHANGED Committed \/ MarkReady(a)
  <2>1. CASE WritePlan(a)
    <3>1. pc'[a] = "ready"
      BY <2>1 DEF WritePlan, Goto, TypeOK
    <3> QED
      BY <1>1, <2>1, <3>1, UnseenSteps DEF WritePlan
  <2>2. CASE MarkReady(a)
    BY <2>2
  <2>3. CASE Replace(a)
    BY <1>1, <2>3, ReplaceStutters
  <2>4. CASE Commit(a) \/ CheckStaged(a) \/ SkipStep(a) \/ ExecuteDone(a)
    BY <1>2, <2>4 DEF Commit, CheckStaged, SkipStep, ExecuteDone
  <2> QED
    BY <1>4, <2>1, <2>2, <2>3, <2>4 DEF Execute
<1>5. ASSUME NEW a \in Actors, Remove(a)
      PROVE  UNCHANGED Committed
  <2>1. CASE CleanupMissing(a)
    BY <1>2, <2>1 DEF CleanupMissing
  <2>2. CASE RemoveDir(a)
    <3>1. pc[a] \in {"clean", "discard"} /\ DOMAIN dirs = {run[a]} /\ UNCHANGED live
      BY <2>2 DEF RemoveDir, Removing, JournalInv, ActorInv
    <3>2. DOMAIN dirs' = {}
      BY <2>2, <3>1, DroppingDir DEF RemoveDir
    <3> QED
      BY <1>1, <3>1, <3>2, UnseenSteps
  <2>3. CASE (\E f \in DOMAIN dirs[run[a]].files : RemoveStaged(a, f))
             \/ RemovePlan(a) \/ RemoveReady(a)
    <3>1. pc[a] \in {"clean", "discard"} /\ UNCHANGED <<live, pc>>
      BY <2>3 DEF RemoveStaged, RemovePlan, RemoveReady, Removing
    <3> QED
      BY <1>1, <3>1, UnseenSteps
  <2> QED
    BY <1>5, <2>1, <2>2, <2>3 DEF Remove
<1>6. CASE \/ \E p \in Procs : Boot(p) \/ Crash(p)
           \/ \E t \in Threads : Acquire(t)
           \/ \E a \in Actors : Sweep(a) \/ Raise(a) \/ OSError(a)
           \/ UNCHANGED vars
  <2>1. UNCHANGED disk
    BY <1>6 DEF Boot, Crash, Acquire, Sweep, Scan, ResumeReady, ResumeDiscard, ResumeDone,
                Raise, OSError, disk, vars
  <2> QED
    BY <1>2, <2>1
<1> QED
  BY <1>3, <1>4, <1>5, <1>6 DEF Next, Work, Fault

(* Every step of the journal is a step of AtomicFiles. *)
LEMMA AtomicStep ==
  ASSUME SingleInstance, TypeOK, JournalInv, [Next]_vars
  PROVE  A!Next
<1>1. TypeOK'
  BY TypeStep
<1> QED
  BY <1>1, CommittedStep, Preparing, MarkReadyCommits DEF A!Next

(* With one service process, the journal implements the abstract            *)
(* specification: the outputs change by whole runs, or not at all.          *)
THEOREM JournalIsAtomic ==
  ASSUME SingleInstance
  PROVE  Spec => AtomicCommit
<1>1. Init => A!Init
  <2> SUFFICES ASSUME Init
               PROVE  Committed = << >> /\ Offered = << >>
    BY DEF A!Init
  <2>1. << >> \in Partial(Files, Contents) /\ DOMAIN dirs = {}
    BY EmptyPartial DEF Init
  <2>2. Committed = << >>
    BY <2>1, ReplayingNothing DEF Init, Committed
  <2>3. {r \in DOMAIN dirs : dirs[r].plan # NoPlan /\ ~dirs[r].ready} = {}
    BY <2>1
  <2> QED
    BY <2>2, <2>3 DEF Offered, OfferedBy
<1>2. TypeOK /\ JournalInv /\ [Next]_vars => A!Next
  BY AtomicStep
<1> QED
  BY <1>1, <1>2, JournalInvariant, TypeCorrect, PTL DEF Spec, AtomicCommit, A!Spec

-----------------------------------------------------------------------------
(* One ingest at a time, for any number of processes.                      *)

(* The sweep keeps the lock with whoever holds it. *)
LEMMA SweepLockInv ==
  ASSUME TypeOK, LockInv, NEW a \in Actors, Sweep(a)
  PROVE  LockInv'
<1>1. Active(a)
  BY DEF Sweep, Scan, ResumeReady, ResumeDiscard, ResumeDone, Active
<1>2. CASE Scan(a)
  BY <1>1, <1>2, StayingLockInv DEF Scan
<1>3. CASE \E r \in todo[a] : ResumeReady(a, r) \/ ResumeDiscard(a, r)
  <2>1. /\ Goto(a, "execute") \/ Goto(a, "discard")
        /\ UNCHANGED <<lock, svc>>
    BY <1>3 DEF ResumeReady, ResumeDiscard
  <2> QED
    BY <1>1, <2>1, StayingLockInv
<1>4. CASE ResumeDone(a)
  <2>1. CASE a \in Procs /\ Leave(a, "serving")
    BY <1>1, <2>1, LeavingLockInv
  <2>2. CASE a \in Threads /\ Goto(a, "prepare") /\ UNCHANGED <<lock, svc>>
    <3>1. a \notin Procs
      BY <2>2, JournalAssumption
    <3> QED
      BY <1>1, <2>2, <3>1, StayingLockInv
  <2> QED
    BY <1>4, <2>1, <2>2 DEF ResumeDone
<1> QED
  BY <1>2, <1>3, <1>4 DEF Sweep

(* Only a thread stages, so that its plan, its marker and its commit are    *)
(* those of the holder of the lock.                                        *)
LEMMA ExecuteLockInv ==
  ASSUME TypeOK, LockInv, NEW a \in Actors, Execute(a)
  PROVE  LockInv'
<1>1. UNCHANGED <<lock, svc>>
  BY DEF Execute, WritePlan, MarkReady, Commit, CheckStaged, SkipStep, Replace, ExecuteDone
<1>2. Active(a)
  BY DEF Execute, WritePlan, MarkReady, Commit, CheckStaged, SkipStep, Replace,
         ExecuteDone, Active
<1>3. CASE WritePlan(a) \/ MarkReady(a)
  <2>1. a \notin Procs
    BY <1>3 DEF WritePlan, MarkReady, LockInv
  <2>2. Goto(a, "ready") \/ Goto(a, "commit")
    BY <1>3 DEF WritePlan, MarkReady
  <2> QED
    BY <1>1, <1>2, <2>1, <2>2, StayingLockInv
<1>4. CASE Commit(a) \/ CheckStaged(a) \/ Replace(a) \/ ExecuteDone(a)
  <2>1. Goto(a, "execute") \/ Goto(a, "replace") \/ Goto(a, "clean")
    BY <1>4 DEF Commit, CheckStaged, Replace, ExecuteDone
  <2> QED
    BY <1>1, <1>2, <2>1, StayingLockInv
<1>5. CASE SkipStep(a)
  BY <1>1, <1>5 DEF SkipStep, LockInv, Active
<1> QED
  BY <1>3, <1>4, <1>5 DEF Execute

(* Deleting a tree: the deleter goes on with its sweep or returns. *)
LEMMA RemoveLockInv ==
  ASSUME TypeOK, LockInv, NEW a \in Actors, Remove(a)
  PROVE  LockInv'
<1>1. CASE \/ \E f \in DOMAIN dirs[run[a]].files : RemoveStaged(a, f)
           \/ RemovePlan(a) \/ RemoveReady(a)
  <2>1. UNCHANGED <<lock, svc, pc>>
    BY <1>1 DEF RemoveStaged, RemovePlan, RemoveReady
  <2> QED
    BY <2>1 DEF LockInv, Active
<1>2. CASE RemoveDir(a) \/ CleanupMissing(a)
  <2>1. Active(a) /\ Removed(a)
    BY <1>2 DEF RemoveDir, CleanupMissing, Removing, Active
  <2>2. CASE Leave(a, "serving")
    BY <2>1, <2>2, LeavingLockInv
  <2>3. CASE Goto(a, "resume") /\ UNCHANGED <<lock, svc>>
    BY <2>1, <2>3, StayingLockInv
  <2> QED
    BY <2>1, <2>2, <2>3 DEF Removed
<1> QED
  BY <1>1, <1>2 DEF Remove

(* Staging is done by the holder of the lock.                              *)
LEMMA StageLockInv ==
  ASSUME TypeOK, LockInv, NEW a \in Actors, Stage(a)
  PROVE  LockInv'
<1>1. pc[a] \in {"prepare", "stage"}
  BY DEF Stage, ReturnDry, BeginRun, StageFile
<1>2. Active(a) /\ a \notin Procs
  BY <1>1 DEF Active, LockInv
<1>3. CASE ReturnDry(a)
  BY <1>2, <1>3, LeavingLockInv DEF ReturnDry
<1>4. CASE \/ \E r \in RunIds : BeginRun(a, r)
           \/ \E f \in Files, c \in Contents : StageFile(a, f, c)
  <2>1. /\ Goto(a, "stage") \/ Goto(a, "plan")
        /\ UNCHANGED <<lock, svc>>
    BY <1>4 DEF BeginRun, StageFile
  <2> QED
    BY <1>2, <2>1, StayingLockInv
<1> QED
  BY <1>3, <1>4 DEF Stage

(* The kernel takes the lock from a dead process, and from no other. *)
LEMMA CrashLockInv ==
  ASSUME TypeOK, LockInv, NEW p \in Procs, Crash(p)
  PROVE  LockInv'
<1>1. /\ \A a \in Actors : pc'[a] = IF a \in Killed(p) THEN "idle" ELSE pc[a]
      /\ lock' = IF lock \in Killed(p) THEN Nobody ELSE lock
      /\ svc' = [svc EXCEPT ![p] = "down"]
  BY DEF Crash
<1>2. \A t \in Threads : t \in Killed(p) <=> ProcOf[t] = p
  BY JournalAssumption DEF Killed
<1>3. \A q \in Procs : q \in Killed(p) <=> q = p
  BY JournalAssumption DEF Killed
<1>4. \A t \in Threads : Active(t)' <=> lock' = t
  BY <1>1, JournalAssumption DEF LockInv, Active, Actors, TypeOK
<1>5. \A t \in Threads : Active(t)' => svc'[ProcOf[t]] = "serving"
  BY <1>1, <1>2, JournalAssumption DEF LockInv, Active, Actors, TypeOK
<1>6. \A q \in Procs : Active(q)' <=> svc'[q] = "booting"
  BY <1>1, <1>3 DEF LockInv, Active, Actors, TypeOK
<1>7. \A q \in Procs : pc'[q] \notin {"prepare", "stage", "plan", "ready", "commit"}
  BY <1>1 DEF LockInv, Actors
<1> QED
  BY <1>4, <1>5, <1>6, <1>7 DEF LockInv

(* Every step leaves the lock with the actor that is at work.              *)
LEMMA LockStep == TypeOK /\ LockInv /\ [Next]_vars => LockInv'
<1> SUFFICES ASSUME TypeOK, LockInv, [Next]_vars
             PROVE  LockInv'
  OBVIOUS
<1>1. ASSUME NEW p \in Procs, Boot(p)
      PROVE  LockInv'
  BY <1>1, JournalAssumption DEF Boot, Goto, LockInv, Active, Actors, TypeOK
<1>2. ASSUME NEW t \in Threads, Acquire(t)
      PROVE  LockInv'
  BY <1>2, JournalAssumption DEF Acquire, Goto, LockInv, Active, Actors, TypeOK
<1>3. ASSUME NEW a \in Actors, Work(a)
      PROVE  LockInv'
  <2>1. CASE Raise(a)
    <3>1. Active(a) /\ Leave(a, "down")
      BY <2>1 DEF Raise, Stuck, Active
    <3> QED
      BY <3>1, LeavingLockInv
  <2> QED
    BY <1>3, <2>1, SweepLockInv, ExecuteLockInv, RemoveLockInv DEF Work
<1>4. ASSUME NEW a \in Actors, OSError(a)
      PROVE  LockInv'
  BY <1>4, LeavingLockInv DEF OSError, Active
<1>5. CASE UNCHANGED vars
  BY <1>5 DEF vars, memory, LockInv, Active
<1> QED
  BY <1>1, <1>2, <1>3, <1>4, <1>5, StageLockInv, CrashLockInv DEF Next, Fault

(* Two requests never ingest side by side, in one process or in several    *)
(* (lock.py): who works holds the lock.                                    *)
THEOREM SingleFlightHolds == Spec => []SingleFlight
<1>1. Init => LockInv
  BY JournalAssumption DEF Init, LockInv, Active, Actors
<1>2. TypeOK /\ TypeOK' /\ LockInv /\ [Next]_vars => LockInv'
  BY LockStep
<1>3. LockInv => SingleFlight
  BY DEF LockInv, SingleFlight, Active
<1> QED
  BY <1>1, <1>2, <1>3, TypeCorrect, PTL DEF Spec

============================================================================
