--------------------------- MODULE CommitJournal ---------------------------
(***************************************************************************)
(* The journal that makes an ingest run crash-consistent: RunStagingDir    *)
(* (pipeline/staging.py), Committer (pipeline/commit.py), the single-      *)
(* flight lock (pipeline/lock.py) and the order in which the orchestrator  *)
(* and the application's start-up call them.                               *)
(*                                                                         *)
(* What an output file holds is left to the caller: a run stages any       *)
(* contents.  IngestService instantiates this module with the real ones.   *)
(*                                                                         *)
(* An actor is a request thread of a service process, or the process       *)
(* itself while it boots and sweeps the journal.  Requests take the lock,  *)
(* the boot sweep does not.  A step is one system call, or several that    *)
(* no other actor can tell apart.  A process may crash between any two     *)
(* steps and any step may raise an OSError.                                *)
(***************************************************************************)
EXTENDS Naturals, Sequences, PartialFunctions

CONSTANTS Procs,          \* service processes sharing one state directory
          Threads,        \* request threads, all processes together
          ProcOf,         \* the process each thread belongs to
          RunIds,         \* names of run directories
          Files,          \* the output files: lake, share, events, checkpoint
          Contents,       \* what a file can hold
          CheckpointFile, \* ./state/checkpoint.json
          Nobody,         \* the lock is free
          NoRun,          \* an actor that works on no run directory
          NoPlan          \* commit_plan.json does not exist

Actors == Procs \cup Threads

ASSUME JournalAssumption ==
  /\ Procs \cap Threads = {}
  /\ ProcOf \in [Threads -> Procs]
  /\ Nobody \notin Actors
  /\ NoRun \notin RunIds
  /\ NoPlan \notin Seq(Files)
  /\ CheckpointFile \in Files

VARIABLES live,   \* the output files that exist, with their contents
          dirs,   \* the run directories under ./state/runs that exist
          lock,   \* holder of ./state/.ingest.lock
          svc,    \* [Procs -> {"down", "booting", "serving"}]
          pc,     \* what each actor does next
          own,    \* TRUE: run is the actor's own run, FALSE: one it resumes
          run,    \* the run directory each actor works on
          todo,   \* resume: listed run directories still to be visited
          steps   \* stage: the plan so far; commit: the renames still to do

disk   == <<live, dirs>>
memory == <<own, run, todo, steps>>
vars   == <<live, dirs, lock, svc, pc, own, run, todo, steps>>

-----------------------------------------------------------------------------
(* Run directories. *)

NewDir == [files |-> << >>, plan |-> NoPlan, ready |-> FALSE]

(* mkdir -p before every write re-creates a directory that has vanished. *)
DirOf(r) == IF r \in DOMAIN dirs THEN dirs[r] ELSE NewDir

IsReady(r) == r \in DOMAIN dirs /\ dirs[r].ready

HasPlan(r) == r \in DOMAIN dirs /\ dirs[r].plan # NoPlan

IsStaged(r, f) == r \in DOMAIN dirs /\ f \in DOMAIN dirs[r].files

SetDir(r, d) == dirs' = Put(dirs, r, d)

Goto(a, label) == pc' = [pc EXCEPT ![a] = label]

-----------------------------------------------------------------------------
(* Entering and leaving. *)

(* The application starts; before it serves it sweeps the journal. *)
Boot(p) ==
  /\ svc[p] = "down"
  /\ svc' = [svc EXCEPT ![p] = "booting"]
  /\ Goto(p, "scan")
  /\ UNCHANGED <<disk, lock, memory>>

(* Mutant: a request does not look whether the lock is held. *)
AcquireUnguarded(t) ==
  /\ svc[ProcOf[t]] = "serving"
  /\ pc[t] = "idle"
  /\ lock' = t
  /\ Goto(t, "scan")
  /\ UNCHANGED <<disk, svc, memory>>

(* A request takes the lock.  If it is held the caller gets a 409 and      *)
(* nothing changes, which is a stuttering step.                            *)
Acquire(t) ==
  /\ svc[ProcOf[t]] = "serving"
  /\ pc[t] = "idle"
  /\ lock = Nobody
  /\ lock' = t
  /\ Goto(t, "scan")
  /\ UNCHANGED <<disk, svc, memory>>

(* Mutant: the lock is not released on return. *)
LeaveLocked(a, status) ==
  /\ Goto(a, "idle")
  /\ own' = [own EXCEPT ![a] = FALSE]
  /\ run' = [run EXCEPT ![a] = NoRun]
  /\ todo' = [todo EXCEPT ![a] = {}]
  /\ steps' = [steps EXCEPT ![a] = << >>]
  /\ IF a \in Threads
     THEN UNCHANGED <<lock, svc>>
     ELSE svc' = [svc EXCEPT ![a] = status] /\ UNCHANGED lock

(* An actor returns or raises: its memory is gone; a request thread        *)
(* releases the lock, a booting process changes status.                    *)
Leave(a, status) ==
  /\ Goto(a, "idle")
  /\ own' = [own EXCEPT ![a] = FALSE]
  /\ run' = [run EXCEPT ![a] = NoRun]
  /\ todo' = [todo EXCEPT ![a] = {}]
  /\ steps' = [steps EXCEPT ![a] = << >>]
  /\ IF a \in Threads
     THEN lock' = Nobody /\ UNCHANGED svc
     ELSE svc' = [svc EXCEPT ![a] = status] /\ UNCHANGED lock

-----------------------------------------------------------------------------
(* Committer.resume_pending. *)

(* Mutant: the sweep looks in the wrong place and finds nothing. *)
ScanNothing(a) ==
  /\ pc[a] = "scan"
  /\ Goto(a, "resume")
  /\ UNCHANGED <<disk, lock, svc, memory>>

(* The directory is listed once, before the loop. *)
Scan(a) ==
  /\ pc[a] = "scan"
  /\ todo' = [todo EXCEPT ![a] = DOMAIN dirs]
  /\ Goto(a, "resume")
  /\ UNCHANGED <<disk, lock, svc, own, run, steps>>

(* The next listed directory is READY: load its plan and replay it.  The   *)
(* visits are in the order of the hashes that name the directories, which  *)
(* is any order here.                                                      *)
ResumeReady(a, r) ==
  /\ pc[a] = "resume"
  /\ r \in todo[a]
  /\ IsReady(r) /\ HasPlan(r)
  /\ todo' = [todo EXCEPT ![a] = @ \ {r}]
  /\ run' = [run EXCEPT ![a] = r]
  /\ steps' = [steps EXCEPT ![a] = dirs[r].plan]
  /\ Goto(a, "execute")
  /\ UNCHANGED <<disk, lock, svc, own>>

(* Mutant: the sweep discards without looking for the READY marker. *)
ResumeDiscardAny(a, r) ==
  /\ pc[a] = "resume"
  /\ r \in todo[a]
  /\ todo' = [todo EXCEPT ![a] = @ \ {r}]
  /\ run' = [run EXCEPT ![a] = r]
  /\ Goto(a, "discard")
  /\ UNCHANGED <<disk, lock, svc, own, steps>>

(* The next listed directory is not READY: it will be deleted. *)
ResumeDiscard(a, r) ==
  /\ pc[a] = "resume"
  /\ r \in todo[a]
  /\ ~IsReady(r)
  /\ todo' = [todo EXCEPT ![a] = @ \ {r}]
  /\ run' = [run EXCEPT ![a] = r]
  /\ Goto(a, "discard")
  /\ UNCHANGED <<disk, lock, svc, own, steps>>

(* Mutant: the sweep stops before it has visited every directory. *)
ResumeDoneEarly(a) ==
  /\ pc[a] = "resume"
  /\ \/ a \in Procs /\ Leave(a, "serving") /\ UNCHANGED disk
     \/ a \in Threads /\ Goto(a, "prepare") /\ UNCHANGED <<disk, lock, svc, memory>>

(* The sweep is over: a boot starts serving, a request prepares its run. *)
ResumeDone(a) ==
  /\ pc[a] = "resume"
  /\ todo[a] = {}
  /\ \/ a \in Procs /\ Leave(a, "serving") /\ UNCHANGED disk
     \/ a \in Threads /\ Goto(a, "prepare") /\ UNCHANGED <<disk, lock, svc, memory>>

-----------------------------------------------------------------------------
(* Staging a run. *)

(* A dry run returns here, before anything is staged; a request whose      *)
(* source query or checkpoint load fails raises here, to the same effect.  *)
ReturnDry(a) ==
  /\ pc[a] = "prepare"
  /\ Leave(a, "serving")
  /\ UNCHANGED disk

(* Mutant: the run keeps the directory the sweep worked on. *)
BeginRunUnnamed(a, r) ==
  /\ pc[a] = "prepare"
  /\ SetDir(r, DirOf(r))
  /\ own' = [own EXCEPT ![a] = TRUE]
  /\ steps' = [steps EXCEPT ![a] = << >>]
  /\ Goto(a, "stage")
  /\ UNCHANGED <<live, lock, svc, run, todo>>

BeginRun(a, r) ==
  /\ pc[a] = "prepare"
  /\ SetDir(r, DirOf(r))
  /\ own' = [own EXCEPT ![a] = TRUE]
  /\ run' = [run EXCEPT ![a] = r]
  /\ steps' = [steps EXCEPT ![a] = << >>]
  /\ Goto(a, "stage")
  /\ UNCHANGED <<live, lock, svc, todo>>

(* Mutant: the renames are noted in reverse, the checkpoint first. *)
StageFileReversed(a, f, c) ==
  /\ pc[a] = "stage"
  /\ f \notin Range(steps[a])
  /\ SetDir(run[a], [DirOf(run[a]) EXCEPT !.files = Put(@, f, c)])
  /\ steps' = [steps EXCEPT ![a] = <<f>> \o @]
  /\ Goto(a, IF f = CheckpointFile THEN "plan" ELSE "stage")
  /\ UNCHANGED <<live, lock, svc, own, run, todo>>

(* One output file is written and its rename is noted; the checkpoint is   *)
(* the last one.                                                           *)
StageFile(a, f, c) ==
  /\ pc[a] = "stage"
  /\ f \notin Range(steps[a])
  /\ SetDir(run[a], [DirOf(run[a]) EXCEPT !.files = Put(@, f, c)])
  /\ steps' = [steps EXCEPT ![a] = Append(@, f)]
  /\ Goto(a, IF f = CheckpointFile THEN "plan" ELSE "stage")
  /\ UNCHANGED <<live, lock, svc, own, run, todo>>

(* Mutant: the plan misses the first file. *)
WritePlanShort(a) ==
  /\ pc[a] = "plan"
  /\ SetDir(run[a], [DirOf(run[a]) EXCEPT !.plan = Tail(steps[a])])
  /\ Goto(a, "ready")
  /\ UNCHANGED <<live, lock, svc, memory>>

WritePlan(a) ==
  /\ pc[a] = "plan"
  /\ SetDir(run[a], [DirOf(run[a]) EXCEPT !.plan = steps[a]])
  /\ Goto(a, "ready")
  /\ UNCHANGED <<live, lock, svc, memory>>

MarkReady(a) ==
  /\ pc[a] = "ready"
  /\ SetDir(run[a], [DirOf(run[a]) EXCEPT !.ready = TRUE])
  /\ Goto(a, "commit")
  /\ UNCHANGED <<live, lock, svc, memory>>

-----------------------------------------------------------------------------
(* Executing a plan. *)

(* Committer.commit checks READY and reads the plan back from the disk. *)
Commit(a) ==
  /\ pc[a] = "commit"
  /\ IsReady(run[a]) /\ HasPlan(run[a])
  /\ steps' = [steps EXCEPT ![a] = dirs[run[a]].plan]
  /\ Goto(a, "execute")
  /\ UNCHANGED <<disk, lock, svc, own, run, todo>>

(* The staged file is there: go on to rename it. *)
CheckStaged(a) ==
  /\ pc[a] = "execute"
  /\ steps[a] # << >>
  /\ IsStaged(run[a], Head(steps[a]))
  /\ Goto(a, "replace")
  /\ UNCHANGED <<disk, lock, svc, memory>>

(* Mutant: a step is skipped although its file is still staged. *)
SkipStepAny(a) ==
  /\ pc[a] = "execute"
  /\ steps[a] # << >>
  /\ steps' = [steps EXCEPT ![a] = Tail(@)]
  /\ UNCHANGED <<disk, lock, svc, pc, own, run, todo>>

(* It is gone: somebody renamed it before, skip the step. *)
SkipStep(a) ==
  /\ pc[a] = "execute"
  /\ steps[a] # << >>
  /\ ~IsStaged(run[a], Head(steps[a]))
  /\ steps' = [steps EXCEPT ![a] = Tail(@)]
  /\ UNCHANGED <<disk, lock, svc, pc, own, run, todo>>

(* os.replace moves the staged file over the live one. *)
Replace(a) ==
  LET r == run[a]
      f == Head(steps[a])
  IN /\ pc[a] = "replace"
     /\ IsStaged(r, f)
     /\ live' = Put(live, f, dirs[r].files[f])
     /\ SetDir(r, [dirs[r] EXCEPT !.files = Drop(@, f)])
     /\ steps' = [steps EXCEPT ![a] = Tail(@)]
     /\ Goto(a, "execute")
     /\ UNCHANGED <<lock, svc, own, run, todo>>

ExecuteDone(a) ==
  /\ pc[a] = "execute"
  /\ steps[a] = << >>
  /\ Goto(a, "clean")
  /\ UNCHANGED <<disk, lock, svc, memory>>

-----------------------------------------------------------------------------
(* shutil.rmtree, after a commit ("clean") or of an abandoned directory    *)
(* ("discard").  The entries go one at a time, in the order in which the   *)
(* file system lists them, which is any order here.                        *)

Removing(a) == pc[a] \in {"clean", "discard"} /\ run[a] \in DOMAIN dirs

RemoveStaged(a, f) ==
  /\ Removing(a)
  /\ f \in DOMAIN dirs[run[a]].files
  /\ SetDir(run[a], [dirs[run[a]] EXCEPT !.files = Drop(@, f)])
  /\ UNCHANGED <<live, lock, svc, pc, memory>>

RemovePlan(a) ==
  /\ Removing(a)
  /\ HasPlan(run[a])
  /\ SetDir(run[a], [dirs[run[a]] EXCEPT !.plan = NoPlan])
  /\ UNCHANGED <<live, lock, svc, pc, memory>>

RemoveReady(a) ==
  /\ Removing(a)
  /\ IsReady(run[a])
  /\ SetDir(run[a], [dirs[run[a]] EXCEPT !.ready = FALSE])
  /\ UNCHANGED <<live, lock, svc, pc, memory>>

(* The tree is gone: a resume visits the next directory, a run returns. *)
Removed(a) ==
  \/ own[a] /\ Leave(a, "serving")
  \/ ~own[a] /\ Goto(a, "resume") /\ UNCHANGED <<lock, svc, memory>>

RemoveDir(a) ==
  /\ Removing(a)
  /\ dirs[run[a]] = NewDir
  /\ dirs' = Drop(dirs, run[a])
  /\ UNCHANGED live
  /\ Removed(a)

(* cleanup() tolerates a directory that is gone already. *)
CleanupMissing(a) ==
  /\ pc[a] = "clean"
  /\ run[a] \notin DOMAIN dirs
  /\ UNCHANGED disk
  /\ Removed(a)

-----------------------------------------------------------------------------
(* Errors. *)

(* The places where the code cannot go on: a READY directory without a     *)
(* plan, a directory to discard or a staged file that is gone although it  *)
(* was just seen, a run that is to be committed and is not READY.          *)
Stuck(a) ==
  \/ pc[a] = "resume" /\ \E r \in todo[a] : IsReady(r) /\ ~HasPlan(r)
  \/ pc[a] = "discard" /\ run[a] \notin DOMAIN dirs
  \/ pc[a] = "replace" /\ ~IsStaged(run[a], Head(steps[a]))
  \/ pc[a] = "commit" /\ ~(IsReady(run[a]) /\ HasPlan(run[a]))

(* The exception leaves the actor; a boot that raises aborts the start.    *)
Raise(a) ==
  /\ Stuck(a)
  /\ Leave(a, "down")
  /\ UNCHANGED disk

(* Any other system call may fail. *)
OSError(a) ==
  /\ pc[a] \notin {"idle", "prepare"}
  /\ ~Stuck(a)
  /\ Leave(a, "down")
  /\ UNCHANGED disk

(* The process dies: its memory is lost, the kernel releases its lock.     *)
Killed(p) == {p} \cup {t \in Threads : ProcOf[t] = p}

Crash(p) ==
  /\ svc[p] # "down"
  /\ svc' = [svc EXCEPT ![p] = "down"]
  /\ lock' = IF lock \in Killed(p) THEN Nobody ELSE lock
  /\ pc' = [a \in Actors |-> IF a \in Killed(p) THEN "idle" ELSE pc[a]]
  /\ own' = [a \in Actors |-> IF a \in Killed(p) THEN FALSE ELSE own[a]]
  /\ run' = [a \in Actors |-> IF a \in Killed(p) THEN NoRun ELSE run[a]]
  /\ todo' = [a \in Actors |-> IF a \in Killed(p) THEN {} ELSE todo[a]]
  /\ steps' = [a \in Actors |-> IF a \in Killed(p) THEN << >> ELSE steps[a]]
  /\ UNCHANGED disk

-----------------------------------------------------------------------------
(* The journal on its own: a run stages any contents under any name. *)

Init ==
  /\ live = << >>
  /\ dirs = << >>
  /\ lock = Nobody
  /\ svc = [p \in Procs |-> "down"]
  /\ pc = [a \in Actors |-> "idle"]
  /\ own = [a \in Actors |-> FALSE]
  /\ run = [a \in Actors |-> NoRun]
  /\ todo = [a \in Actors |-> {}]
  /\ steps = [a \in Actors |-> << >>]

(* What an actor does between entering and leaving, the choice of its      *)
(* run's name and contents excepted.                                       *)
Sweep(a) ==
  \/ Scan(a)
  \/ \E r \in todo[a] : ResumeReady(a, r) \/ ResumeDiscard(a, r)
  \/ ResumeDone(a)

Execute(a) ==
  \/ WritePlan(a) \/ MarkReady(a) \/ Commit(a)
  \/ CheckStaged(a) \/ SkipStep(a) \/ Replace(a) \/ ExecuteDone(a)

Remove(a) ==
  \/ Removing(a) /\ \E f \in DOMAIN dirs[run[a]].files : RemoveStaged(a, f)
  \/ RemovePlan(a) \/ RemoveReady(a) \/ RemoveDir(a) \/ CleanupMissing(a)

Work(a) == Sweep(a) \/ Execute(a) \/ Remove(a) \/ Raise(a)

Stage(a) ==
  \/ ReturnDry(a)
  \/ \E r \in RunIds : BeginRun(a, r)
  \/ \E f \in Files, c \in Contents : StageFile(a, f, c)

Fault ==
  \/ \E a \in Actors : OSError(a)
  \/ \E p \in Procs : Crash(p)

Next ==
  \/ \E p \in Procs : Boot(p)
  \/ \E t \in Threads : Acquire(t)
  \/ \E a \in Actors : Work(a) \/ Stage(a)
  \/ Fault

Spec == Init /\ [][Next]_vars

(* A process that is down is started again, an ingest is requested again,  *)
(* and an actor that can go on does.  Faults are never forced.             *)
Fairness ==
  /\ \A p \in Procs : WF_vars(Boot(p))
  /\ WF_vars(\E t \in Threads : Acquire(t))
  /\ \A a \in Actors : WF_vars(Work(a) \/ Stage(a))

FairSpec == Spec /\ Fairness

-----------------------------------------------------------------------------
(* Types. *)

RunDirs == [files : Partial(Files, Contents),
            plan  : Seq(Files) \cup {NoPlan},
            ready : BOOLEAN]

Labels == {"idle", "scan", "resume", "discard", "prepare", "stage", "plan",
           "ready", "commit", "execute", "replace", "clean"}

(* Every variable has the shape its declaration says; whoever is past the  *)
(* sweep works on a run directory, and a rename is the next of some steps. *)
TypeOK ==
  /\ live \in Partial(Files, Contents)
  /\ DOMAIN dirs \subseteq RunIds
  /\ dirs \in [DOMAIN dirs -> RunDirs]
  /\ lock \in Threads \cup {Nobody}
  /\ svc \in [Procs -> {"down", "booting", "serving"}]
  /\ pc \in [Actors -> Labels]
  /\ own \in [Actors -> BOOLEAN]
  /\ run \in [Actors -> RunIds \cup {NoRun}]
  /\ todo \in [Actors -> SUBSET RunIds]
  /\ steps \in [Actors -> Seq(Files)]
  /\ \A a \in Actors :
       pc[a] \notin {"idle", "scan", "resume", "prepare"} => run[a] \in RunIds
  /\ \A a \in Actors : pc[a] = "replace" => steps[a] # << >>

-----------------------------------------------------------------------------
(* The lock, for any number of processes.                                  *)

(* A second ingest, of the same or of another process, never runs beside   *)
(* the first: it gets a 409 (lock.py), whoever crashed before.             *)
SingleFlight ==
  \A t, u \in Threads : pc[t] # "idle" /\ pc[u] # "idle" => t = u

-----------------------------------------------------------------------------
(* Safety of one service process: "Multi-instance deployment is out of     *)
(* scope" (README).                                                        *)

SingleInstance == \A p, q \in Procs : p = q

Staged(r) == IF r \in DOMAIN dirs THEN DOMAIN dirs[r].files ELSE {}

(* The sweep at the head of every request leaves ./state/runs empty        *)
(* (orchestrator.py, "After this call, state/runs/ is empty"), so that     *)
(* there is never more than one run to recover and their order is moot.    *)
OnePendingRun ==
  /\ \A r, s \in DOMAIN dirs : r = s
  /\ \A a \in Actors : pc[a] = "prepare" => dirs = << >>

(* Whatever point a crash or an error leaves it at, a READY directory that *)
(* still holds staged files has a plan that names each of them, and still  *)
(* holds the checkpoint: replaying it completes the run.                   *)
ReadyIsReplayable ==
  \A r \in DOMAIN dirs :
    dirs[r].ready /\ Staged(r) # {} =>
      /\ dirs[r].plan # NoPlan
      /\ Staged(r) \subseteq Range(dirs[r].plan)
      /\ CheckpointFile \in Staged(r)

(* The output files once every READY run is replayed: where a READY        *)
(* directory holds a file, what it holds, otherwise what is live.          *)
Replayed(files, ds) ==
  LET pending == {r \in DOMAIN ds : ds[r].ready}
      Holders(f) == {r \in pending : f \in DOMAIN ds[r].files}
  IN [f \in DOMAIN files \cup UNION {DOMAIN ds[r].files : r \in pending} |->
        IF Holders(f) = {} THEN files[f] ELSE ds[CHOOSE r \in Holders(f) : TRUE].files[f]]

Committed == Replayed(live, dirs)

CheckpointReplaced ==
  /\ CheckpointFile \in DOMAIN live'
  /\ CheckpointFile \in DOMAIN live => live[CheckpointFile] # live'[CheckpointFile]

(* "The checkpoint is the last rename. ... If we crash after it, every     *)
(* prior rename necessarily completed" (commit.py): the step that replaces *)
(* the live checkpoint leaves no file of a READY run still to be renamed.  *)
CheckpointLast == [][CheckpointReplaced => live' = Committed']_vars

(* The files of a run that has a plan and is not READY. *)
OfferedBy(ds) ==
  LET planned == {r \in DOMAIN ds : ds[r].plan # NoPlan /\ ~ds[r].ready}
  IN IF planned = {} THEN << >> ELSE ds[CHOOSE r \in planned : TRUE].files

Offered == OfferedBy(dirs)

(* A run's fate is sealed when READY is written, and then it is all of it  *)
(* or nothing: at that step the outputs-to-be take in every file the run   *)
(* has staged, and nothing else ever changes them.  Every rename, crash,   *)
(* error and sweep leaves them as they are.                                *)
A == INSTANCE AtomicFiles WITH live <- Committed, offer <- Offered

AtomicCommit == A!Spec

-----------------------------------------------------------------------------
(* Liveness. *)

(* What an actor would not have done by itself.  A boot that raises at     *)
(* what it finds changes as much as one that is killed, and is no fault.   *)
Interruption == Fault /\ ~\E a \in Actors : Work(a) \/ Stage(a)

FaultsKeepComing == []<><<Interruption>>_vars

(* No request keeps the lock: it returns, raises or is killed, whatever a   *)
(* sweep of another process does to its directory meanwhile.               *)
LockReleased == \A t \in Threads : lock = t ~> lock # t

(* Every file of a READY run is eventually renamed with what it holds,     *)
(* however often the run is interrupted, unless the interruptions never    *)
(* end.  (For one process: the unlocked sweep of another may delete the    *)
(* file, or the plan alone.)                                               *)
ReadyRunsCommit ==
  FaultsKeepComing \/
    \A r \in RunIds, f \in Files, c \in Contents :
      (IsReady(r) /\ f \in Staged(r) /\ dirs[r].files[f] = c)
        ~> (f \notin Staged(r) /\ f \in DOMAIN live /\ live[f] = c)

(* "Crashes between any two steps are recoverable by resume_pending"       *)
(* (commit.py): every run directory is eventually gone.                    *)
JournalDrains ==
  FaultsKeepComing \/ \A r \in RunIds : r \in DOMAIN dirs ~> r \notin DOMAIN dirs

-----------------------------------------------------------------------------
(* The inductive invariant of one service process. *)

Active(a) == pc[a] # "idle"

(* A working thread is the one that holds the lock, and its process serves; *)
(* a process sweeps exactly while it boots, and does nothing but sweep.     *)
LockInv ==
  /\ \A t \in Threads : Active(t) <=> lock = t
  /\ \A t \in Threads : Active(t) => svc[ProcOf[t]] = "serving"
  /\ \A p \in Procs : Active(p) <=> svc[p] = "booting"
  /\ \A p \in Procs : pc[p] \notin {"prepare", "stage", "plan", "ready", "commit"}

(* Nothing comes after the checkpoint in a list of files. *)
CheckpointAtEnd(s) == \A i \in 1..Len(s) : s[i] = CheckpointFile => i = Len(s)

(* What an actor knows of the directory it works on: it is the only one,   *)
(* and its files are the ones staged, or still to be renamed.              *)
StageInv(a) ==
  /\ DOMAIN dirs = {run[a]}
  /\ ~dirs[run[a]].ready
  /\ Staged(run[a]) = Range(steps[a])
  /\ CheckpointAtEnd(steps[a])
  /\ CheckpointFile \in Range(steps[a]) <=> pc[a] # "stage"
  /\ pc[a] = "ready" => dirs[run[a]].plan = steps[a]

ExecuteInv(a) ==
  /\ DOMAIN dirs = {run[a]}
  /\ dirs[run[a]].ready /\ dirs[run[a]].plan # NoPlan
  /\ Staged(run[a]) \subseteq Range(steps[a])
  /\ CheckpointAtEnd(steps[a])
  /\ todo[a] = {}

ActorInv(a) ==
  /\ pc[a] = "resume" => todo[a] = DOMAIN dirs
  /\ pc[a] = "prepare" => DOMAIN dirs = {} /\ todo[a] = {}
  /\ pc[a] \in {"stage", "plan", "ready"} => StageInv(a) /\ todo[a] = {}
  /\ pc[a] = "commit" => DOMAIN dirs = {run[a]} /\ IsReady(run[a]) /\ HasPlan(run[a])
                         /\ todo[a] = {}
  /\ pc[a] \in {"execute", "replace"} => ExecuteInv(a)
  /\ pc[a] = "replace" => Head(steps[a]) \in Staged(run[a])
  /\ pc[a] = "clean" => DOMAIN dirs = {run[a]} /\ Staged(run[a]) = {} /\ todo[a] = {}
  /\ pc[a] = "discard" => DOMAIN dirs = {run[a]} /\ ~IsReady(run[a]) /\ todo[a] = {}

(* At most one run directory, and what a READY one holds can be replayed   *)
(* with the checkpoint last.                                               *)
DirsInv ==
  /\ \A r, s \in DOMAIN dirs : r = s
  /\ \A r \in DOMAIN dirs : dirs[r].plan # NoPlan => CheckpointAtEnd(dirs[r].plan)
  /\ ReadyIsReplayable

JournalInv ==
  /\ LockInv
  /\ \A a \in Actors : ActorInv(a)
  /\ DirsInv
=============================================================================
