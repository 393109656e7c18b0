--------------------------- MODULE DurableJournal ---------------------------
(***************************************************************************)
(* The journal of CommitJournal on a disk that can lose power: what        *)
(* utils/fs.py (ensure_dir, fsync_dir, write_bytes_atomic, atomic_rename)  *)
(* makes durable, and when.                                                *)
(*                                                                         *)
(* Processes see the directory tree.  The operating system keeps the       *)
(* changes of directories that are not durable yet in a log; fsync of a    *)
(* directory empties some of the log onto the disk, and a power loss       *)
(* leaves what is on the disk and any part of the log that the file        *)
(* system may have written by itself.  The contents of a file are durable  *)
(* before its name is (fsync_file comes before the rename and is taken to  *)
(* succeed), so that only directory entries are at stake.                  *)
(*                                                                         *)
(* Each step is a step of CommitJournal with its effect on the tree; one   *)
(* service process.                                                        *)
(***************************************************************************)
EXTENDS Naturals, SequencesExt, PartialFunctions

CONSTANTS Procs, Threads, ProcOf, RunIds, Files, Contents, CheckpointFile,
          Nobody, NoRun, NoPlan, \* as in CommitJournal
          RelPath,      \* the path of each output file below ./ or a run directory
          Filesystem,   \* "journal" or "directories", see Touched
          MaxPending,   \* bound: a run begins with at most so many log entries
          NoDir         \* no fsync is due

(* The names that make a path. *)
Names == {"state", "runs", "commit_plan.json", "READY"} \cup RunIds \cup STRING

ASSUME DurableAssumption ==
  /\ \A p, q \in Procs : p = q
  /\ IsFiniteSet(Files)
  /\ RelPath \in [Files -> Seq(STRING)]
  /\ Filesystem \in {"journal", "directories"}
  /\ MaxPending \in Nat
  /\ NoDir \notin Seq(Names)

(* The outputs have roots of their own, ./lake, ./share and ./events       *)
(* (core/config.py), which are not ./state, and no output file is a        *)
(* directory of another; staged, the checkpoint is in the run directory.   *)
ASSUME PathAssumption ==
  /\ \A f \in Files : /\ RelPath[f] # << >>
                      /\ RelPath[f][1] \notin {"state", "commit_plan.json", "READY"}
  /\ \A f, g \in Files : IsPrefix(RelPath[f], RelPath[g]) => f = g
  /\ RelPath[CheckpointFile][1] # "runs"

VARIABLES live, dirs, lock, svc, pc, own, run, todo, steps, \* as in CommitJournal
          tree,   \* the paths that exist to a process, with what is there
          disk,   \* the entries that survive a power loss
          log,    \* the changes of the tree that are not on the disk yet
          dirty,  \* the directory the next fsync is for, or NoDir
          acked   \* a run has returned its manifest, and none was READY since

J == INSTANCE CommitJournal

ASSUME JournalConstants == J!JournalAssumption

journal == <<live, dirs, lock, svc, pc, own, run, todo, steps>>
vars    == <<journal, tree, disk, log, dirty, acked>>

-----------------------------------------------------------------------------
(* Paths. *)

RunDir(r)        == <<"state", "runs", r>>
StagedPath(r, f) == RunDir(r) \o RelPath[f]
PlanPath(r)      == RunDir(r) \o <<"commit_plan.json">>
ReadyPath(r)     == RunDir(r) \o <<"READY">>
LivePath(f)      == IF f = CheckpointFile THEN <<"state">> \o RelPath[f] ELSE RelPath[f]

Entries(t, dir) == {path \in DOMAIN t : Len(path) > Len(dir) /\ IsPrefix(dir, path)}

(* The journal's variables, read off a tree. *)
LiveIn(t) == [f \in {g \in Files : LivePath(g) \in DOMAIN t} |-> t[LivePath(f)].data]

DirsIn(t) ==
  [r \in {s \in RunIds : RunDir(s) \in DOMAIN t} |->
     [files |-> [f \in {g \in Files : StagedPath(r, g) \in DOMAIN t} |-> t[StagedPath(r, f)].data],
      plan  |-> IF PlanPath(r) \in DOMAIN t THEN t[PlanPath(r)].data ELSE NoPlan,
      ready |-> ReadyPath(r) \in DOMAIN t]]

-----------------------------------------------------------------------------
(* Changes of the tree: entries that are made or overwritten and entries   *)
(* that go, in one atomic change.                                          *)

Directory == [dir |-> TRUE]
File(c)   == [dir |-> FALSE, data |-> c]

Changing(changes, p) ==
  {n \in DOMAIN changes : p \in DOMAIN changes[n].new \cup changes[n].gone}

(* t with the changes made to it in their order: the last change of a path *)
(* decides what is there.                                                  *)
Applied(t, changes) ==
  LET paths == DOMAIN t \cup UNION {DOMAIN changes[n].new : n \in DOMAIN changes}
      last  == [p \in paths |-> Max({0} \cup Changing(changes, p))]
  IN [p \in {q \in paths : last[q] = 0 \/ q \in DOMAIN changes[last[q]].new} |->
        IF last[p] = 0 THEN t[p] ELSE changes[last[p]].new[p]]

Made(path, node) == [new |-> [p \in {path} |-> node], gone |-> {}]
Gone(path)       == [new |-> << >>, gone |-> {path}]
Unchanged        == [new |-> << >>, gone |-> {}]

(* mkdir -p: one change for each directory below the deepest that is there. *)
ensure_dir(path) ==
  LET there == Max({0} \cup {n \in 1..Len(path) : SubSeq(path, 1, n) \in DOMAIN tree})
  IN [n \in 1..(Len(path) - there) |-> Made(SubSeq(path, 1, there + n), Directory)]

write_bytes_atomic(path, c) == ensure_dir(Front(path)) \o <<Made(path, File(c))>>

(* Mutant: the file is moved as by a copy to another device. *)
atomic_rename_by_copy(src, dst) ==
  ensure_dir(Front(dst)) \o <<Gone(src), Made(dst, tree[src])>>

atomic_rename(src, dst) ==
  ensure_dir(Front(dst)) \o <<[new |-> [p \in {dst} |-> tree[src]], gone |-> {src}]>>

(* The actor changes the tree and is then to fsync a directory, or not. *)
Change(changes, due) ==
  /\ tree' = Applied(tree, changes)
  /\ log' = log \o changes
  /\ dirty' = due
  /\ UNCHANGED disk

NoChange == UNCHANGED <<tree, disk, log, dirty>>

-----------------------------------------------------------------------------
(* What is durable.                                                        *)
(*   journal:     changes reach the disk in the order they were made       *)
(*                (ext4, xfs: metadata go through one journal);            *)
(*   directories: the changes of one directory do, those of different      *)
(*                directories independently of each other (what POSIX      *)
(*                promises of fsync).                                      *)
Touched(change) ==
  IF Filesystem = "journal" THEN {<< >>} ELSE {Front(p) : p \in DOMAIN change.new \cup change.gone}

DirKey(dir) == IF Filesystem = "journal" THEN << >> ELSE dir

(* The parts of the log that may reach the disk before the rest does. *)
Survivals ==
  IF Filesystem = "journal"
  THEN {1..n : n \in 0..Len(log)}
  ELSE {kept \in SUBSET DOMAIN log :
          \A i \in kept, j \in DOMAIN log :
            j < i /\ Touched(log[i]) \cap Touched(log[j]) # {} => j \in kept}

Only(kept) == [n \in DOMAIN log |-> IF n \in kept THEN log[n] ELSE Unchanged]

(* Mutant: fsync_dir does nothing. *)
fsync_dir_not(dir) == UNCHANGED <<disk, log>>

Covers(kept, dir) == \A n \in DOMAIN log : DirKey(dir) \in Touched(log[n]) => n \in kept

(* The changes of dir reach the disk, with all they depend on.             *)
fsync_dir(dir) ==
  \E kept \in Survivals :
    /\ Covers(kept, dir)
    /\ \A more \in Survivals : Covers(more, dir) => kept \subseteq more
    /\ disk' = Applied(disk, Only(kept))
    /\ log' = IF kept = DOMAIN log THEN << >> ELSE Only(DOMAIN log \ kept)

(* An entry is found only if all directories above it are. *)
Visible(t) ==
  LET paths   == DOMAIN t
      orphans == {path \in paths : Len(path) > 1 /\ Front(path) \notin paths}
  IN IF orphans = {} THEN t
     ELSE Restrict(t, {path \in paths : \A orphan \in orphans : ~IsPrefix(orphan, path)})

-----------------------------------------------------------------------------
(* Steps of the journal that change no entry. *)

Quiet(step) == dirty = NoDir /\ NoChange /\ step /\ UNCHANGED acked

(* Requests, sweeps and errors that are raised. *)
Think ==
  \/ \E p \in Procs : Quiet(J!Boot(p))
  \/ \E t \in Threads : Quiet(J!Acquire(t))
  \/ \E a \in J!Actors :
       \/ Quiet(J!Sweep(a)) \/ Quiet(J!ReturnDry(a)) \/ Quiet(J!Raise(a))
       \/ Quiet(J!Commit(a)) \/ Quiet(J!CheckStaged(a)) \/ Quiet(J!SkipStep(a))
       \/ Quiet(J!ExecuteDone(a))

-----------------------------------------------------------------------------
(* Steps that do. *)

(* ensure_layout: the run directory and the roots in it. *)
Layout(r) ==
  LET roots == {RunDir(r) \o <<RelPath[f][1]>> : f \in {g \in Files : Len(RelPath[g]) > 1}}
      missing == SetToSeq(roots \ DOMAIN tree)
  IN ensure_dir(RunDir(r)) \o [n \in DOMAIN missing |-> Made(missing[n], Directory)]

BeginRun(a, r) ==
  /\ dirty = NoDir
  /\ Len(log) <= MaxPending
  /\ Change(Layout(r), NoDir)
  /\ J!BeginRun(a, r)
  /\ UNCHANGED acked

StageFile(a, f, c) ==
  /\ dirty = NoDir /\ pc[a] = "stage"
  /\ Change(write_bytes_atomic(StagedPath(run[a], f), c), Front(StagedPath(run[a], f)))
  /\ J!StageFile(a, f, c)
  /\ UNCHANGED acked

WritePlan(a) ==
  /\ dirty = NoDir /\ pc[a] = "plan"
  /\ Change(write_bytes_atomic(PlanPath(run[a]), steps[a]), RunDir(run[a]))
  /\ J!WritePlan(a)
  /\ UNCHANGED acked

MarkReady(a) ==
  /\ dirty = NoDir /\ pc[a] = "ready"
  /\ Change(write_bytes_atomic(ReadyPath(run[a]), << >>), RunDir(run[a]))
  /\ J!MarkReady(a)
  /\ acked' = FALSE

Replace(a) ==
  /\ dirty = NoDir /\ pc[a] = "replace"
  /\ LET f == Head(steps[a])
     IN /\ StagedPath(run[a], f) \in DOMAIN tree
        /\ Change(atomic_rename(StagedPath(run[a], f), LivePath(f)), Front(LivePath(f)))
  /\ J!Replace(a)
  /\ UNCHANGED acked

Fsync ==
  /\ dirty # NoDir
  /\ fsync_dir(dirty)
  /\ dirty' = NoDir
  /\ UNCHANGED <<journal, tree, acked>>

(* Mutant: an entry goes before those below it. *)
UnlinkAny(path) ==
  /\ dirty = NoDir
  /\ path \in DOMAIN tree
  /\ Change(<<Gone(path)>>, NoDir)

(* rmtree removes an entry once nothing is below it, and fsyncs nothing. *)
Unlink(path) ==
  /\ dirty = NoDir
  /\ path \in DOMAIN tree /\ Entries(tree, path) = {}
  /\ Change(<<Gone(path)>>, NoDir)

RemoveEntry(a) ==
  /\ J!Removing(a)
  /\ UNCHANGED acked
  /\ \/ \E f \in Files : Unlink(StagedPath(run[a], f)) /\ J!RemoveStaged(a, f)
     \/ Unlink(PlanPath(run[a])) /\ J!RemovePlan(a)
     \/ Unlink(ReadyPath(run[a])) /\ J!RemoveReady(a)
     \/ \E path \in Entries(tree, RunDir(run[a])) :
          tree[path].dir /\ Unlink(path) /\ UNCHANGED journal

(* A run returns when its own directory is gone. *)
RemoveDir(a) ==
  /\ J!Removing(a)
  /\ Unlink(RunDir(run[a]))
  /\ J!RemoveDir(a)
  /\ acked' = (acked \/ own[a])

-----------------------------------------------------------------------------
(* Faults. *)

(* A process or a request ends; the operating system and its log go on. *)
Abort ==
  /\ dirty' = NoDir
  /\ UNCHANGED <<tree, disk, log, acked>>
  /\ \/ \E a \in J!Actors : J!OSError(a)
     \/ \E p \in Procs : J!Crash(p)

(* The operating system writes everything back by itself. *)
WriteBack ==
  /\ log # << >> /\ dirty = NoDir
  /\ disk' = tree
  /\ log' = << >>
  /\ UNCHANGED <<journal, tree, dirty, acked>>

(* All memory is gone, the processes' and the operating system's.  (With   *)
(* nothing in the log this is the crash of the process.)                   *)
PowerLoss ==
  /\ log # << >>
  /\ \E kept \in Survivals : tree' = Visible(Applied(disk, Only(kept)))
  /\ live' = LiveIn(tree')
  /\ dirs' = DirsIn(tree')
  /\ disk' = tree'
  /\ log' = << >>
  /\ dirty' = NoDir
  /\ lock' = Nobody
  /\ svc' = [p \in Procs |-> "down"]
  /\ pc' = [a \in J!Actors |-> "idle"]
  /\ own' = [a \in J!Actors |-> FALSE]
  /\ run' = [a \in J!Actors |-> NoRun]
  /\ todo' = [a \in J!Actors |-> {}]
  /\ steps' = [a \in J!Actors |-> << >>]
  /\ UNCHANGED acked

-----------------------------------------------------------------------------
Init ==
  /\ tree = << >> /\ disk = << >> /\ log = << >>
  /\ dirty = NoDir
  /\ acked = FALSE
  /\ J!Init

Next ==
  \/ Think
  \/ \E a \in J!Actors :
       \/ \E r \in RunIds : BeginRun(a, r)
       \/ \E f \in Files, c \in Contents : StageFile(a, f, c)
       \/ WritePlan(a) \/ MarkReady(a) \/ Replace(a)
       \/ RemoveEntry(a) \/ RemoveDir(a)
  \/ Fsync \/ WriteBack
  \/ Abort \/ PowerLoss

Spec == Init /\ [][Next]_vars

-----------------------------------------------------------------------------
(* Types and what the variables have to do with each other: the tree is    *)
(* the disk with the log on top, it has the directories of all its         *)
(* entries and holds what the journal thinks it does, and an fsync is due  *)
(* only while an actor works.                                              *)
TypeOK ==
  /\ J!TypeOK
  /\ tree = Applied(disk, log)
  /\ Visible(tree) = tree
  /\ live = LiveIn(tree) /\ dirs = DirsIn(tree)
  /\ dirty # NoDir => \E a \in J!Actors : pc[a] # "idle"
  /\ acked \in BOOLEAN

-----------------------------------------------------------------------------
(* What the outputs amount to if power is lost now and nothing of the log  *)
(* has reached the disk.                                                   *)
DurablyCommitted ==
  LET left == Visible(disk) IN J!Replayed(LiveIn(left), DirsIn(left))

D == INSTANCE DurableFiles
       WITH live <- J!Committed, offer <- J!Offered, stable <- DurablyCommitted

(* "If we crash after it, every prior rename necessarily completed"        *)
(* (commit.py), of power losses: whatever part of a run has reached the    *)
(* disk, the run is there as a whole or not at all.                        *)
DurableAtomic == D!Spec

(* "After a rename, fsync the parent directory so the directory entry      *)
(* change reaches disk. Without this, a crash ... can roll the rename      *)
(* back" (fs.py): once a run has returned and until the next one is        *)
(* sealed, no crash, sweep or power loss changes what the outputs are.     *)
Acknowledged == [][acked /\ acked' => J!Committed' = J!Committed]_vars
=============================================================================
