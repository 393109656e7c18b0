------------------------ MODULE ResetServiceProofs ------------------------
(***************************************************************************)
(* What a reset keeps and restores, as theorems about ResetSpec with one   *)
(* process.                                                                *)
(*                                                                         *)
(* A reset that is interrupted may leave a READY run directory without     *)
(* some of its entries, or a lake without its checkpoint; what the next    *)
(* sweeps and requests then write is not what the service's own invariant  *)
(* (Inv) says.  What is so all the same is who is at work and what whoever *)
(* is not at work remembers (ControlInv).  When nobody is at work, what is *)
(* on the disk has its type and no run directory is READY, Inv holds again *)
(* (AtRest): that is so when a reset is complete, and when one that is     *)
(* interrupted leaves nothing to recover.                                  *)
(***************************************************************************)
EXTENDS ResetService, IngestServiceProofs

-----------------------------------------------------------------------------
(* Who is at work, whatever is on the disk. *)

Everybody(label) == \A a \in J!Actors : pc[a] = label

(* f has a value for every actor. *)
PerActor(f) == f = [a \in J!Actors |-> f[a]]

(* An actor that is not at work remembers nothing. *)
Blank(a) == own[a] = FALSE /\ run[a] = NoRun /\ todo[a] = {} /\ steps[a] = << >>

Remembers ==
  /\ PerActor(own) /\ PerActor(run) /\ PerActor(todo) /\ PerActor(steps)
  /\ \A a \in J!Actors : pc[a] = "idle" => Blank(a)

Requests ==
  /\ DOMAIN req = Threads
  /\ \A t \in Threads : pc[t] = "idle" => req[t] = NewRequest

Locked ==
  /\ lock \in Threads \cup {Nobody}
  /\ svc \in [Procs -> {"down", "booting", "serving"}]
  /\ pc \in [J!Actors -> J!Labels]
  /\ J!LockInv

ADirectory(d) == d = [x \in DOMAIN d |-> d[x]]

ControlInv ==
  /\ Locked
  /\ Remembers
  /\ Requests
  /\ source \in SourceTables
  /\ ADirectory(live) /\ ADirectory(dirs)

-----------------------------------------------------------------------------
(* Each step moves one actor or kills a process. *)

(* g differs from f at a only. *)
ChangesAt(f, g, a) == g = [b \in J!Actors |-> IF b = a THEN g[a] ELSE f[b]]

(* An actor remembers something else, the others what they did. *)
OneRemembers(a) ==
  /\ ChangesAt(own, own', a) /\ ChangesAt(run, run', a)
  /\ ChangesAt(todo, todo', a) /\ ChangesAt(steps, steps', a)

(* Only threads prepare, stage and commit. *)
MayBe(a, label) ==
  /\ label \in J!Labels \ {"idle"}
  /\ a \in Procs => label \notin {"prepare", "stage", "plan", "ready", "commit"}

(* An actor that is at work goes on. *)
Works(a) ==
  /\ pc[a] # "idle"
  /\ \E label : MayBe(a, label) /\ J!Goto(a, label)
  /\ OneRemembers(a)
  /\ UNCHANGED <<lock, svc>>

(* An actor that is at work leaves. *)
Leaves(a) == pc[a] # "idle" /\ \E status \in {"down", "serving"} : J!Leave(a, status)

(* A change of one value of a function. *)
LEMMA ChangingOne ==
  ASSUME NEW f, PerActor(f), NEW a \in J!Actors
  PROVE  /\ ChangesAt(f, f, a)
         /\ \A v : ChangesAt(f, [f EXCEPT ![a] = v], a)
<1>1. DOMAIN f = J!Actors
  BY DEF PerActor
<1>2. ASSUME NEW g, \A b \in J!Actors : b # a => g[b] = f[b], g = [b \in J!Actors |-> g[b]]
      PROVE  ChangesAt(f, g, a)
  BY <1>2 DEF ChangesAt
<1>3. ChangesAt(f, f, a)
  BY <1>2 DEF PerActor
<1>4. ASSUME NEW v
      PROVE  ChangesAt(f, [f EXCEPT ![a] = v], a)
  <2>1. PICK g : g = [f EXCEPT ![a] = v]
    OBVIOUS
  <2>2. g = [b \in J!Actors |-> IF b = a THEN v ELSE f[b]]
    BY <1>1, <2>1
  <2>3. ChangesAt(f, g, a)
    BY <1>2, <2>2
  <2> QED
    BY <2>1, <2>3
<1> QED
  BY <1>3, <1>4

(* A function that has changed at one actor still has a value for all.     *)
LEMMA ChangedOne ==
  ASSUME NEW f, NEW g, NEW a, ChangesAt(f, g, a)
  PROVE  PerActor(g) /\ \A b \in J!Actors : b # a => g[b] = f[b]
<1>1. PICK h : h = [b \in J!Actors |-> IF b = a THEN g[a] ELSE f[b]]
  OBVIOUS
<1>2. g = h
  BY <1>1 DEF ChangesAt
<1>3. PerActor(h) /\ \A b \in J!Actors : b # a => h[b] = f[b]
  BY <1>1 DEF PerActor
<1> QED
  BY <1>2, <1>3

(* Going on within the labels. *)
LEMMA StillAtWork ==
  ASSUME Locked, NEW a \in J!Actors, pc[a] # "idle", UNCHANGED pc
  PROVE  \E label : MayBe(a, label) /\ J!Goto(a, label)
<1>1. pc' = [pc EXCEPT ![a] = pc[a]] /\ pc[a] \in J!Labels
  BY DEF Locked
<1>2. MayBe(a, pc[a])
  BY <1>1 DEF MayBe, Locked, J!LockInv
<1> QED
  BY <1>1, <1>2 DEF J!Goto

(* The sweep's steps. *)
LEMMA SweepingMoves ==
  ASSUME Locked, Remembers, NEW a \in J!Actors, J!Sweep(a)
  PROVE  Works(a) \/ Leaves(a)
<1>1. \A f \in {own, run, todo, steps} : PerActor(f)
  BY DEF Remembers
<1>2. CASE J!Scan(a)
  <2>1. OneRemembers(a)
    BY <1>1, <1>2, ChangingOne DEF J!Scan, OneRemembers
  <2> QED
    BY <1>2, <2>1 DEF J!Scan, Works, MayBe, J!Labels
<1>3. ASSUME NEW r, J!ResumeReady(a, r) \/ J!ResumeDiscard(a, r)
      PROVE  Works(a)
  <2>1. OneRemembers(a)
    BY <1>1, <1>3, ChangingOne DEF J!ResumeReady, J!ResumeDiscard, OneRemembers
  <2> QED
    BY <1>3, <2>1 DEF J!ResumeReady, J!ResumeDiscard, Works, MayBe, J!Labels
<1>4. CASE J!ResumeDone(a)
  <2>1. CASE a \in Procs /\ J!Leave(a, "serving")
    BY <1>4, <2>1 DEF J!ResumeDone, Leaves
  <2>2. CASE a \in Threads /\ J!Goto(a, "prepare") /\ UNCHANGED <<lock, svc, own, run, todo, steps>>
    <3>1. OneRemembers(a)
      BY <1>1, <2>2, ChangingOne DEF OneRemembers
    <3>2. a \notin Procs
      BY <2>2, JournalConstants DEF J!JournalAssumption
    <3> QED
      BY <1>4, <2>2, <3>1, <3>2 DEF J!ResumeDone, Works, MayBe, J!Labels
  <2> QED
    BY <1>4, <2>1, <2>2 DEF J!ResumeDone, J!memory
<1> QED
  BY <1>2, <1>3, <1>4 DEF J!Sweep

(* Sealing and renaming. *)
LEMMA ExecutingMoves ==
  ASSUME Locked, Remembers, NEW a \in J!Actors, J!Execute(a)
  PROVE  Works(a)
<1>1. \A f \in {own, run, todo, steps} : PerActor(f)
  BY DEF Remembers
<1>2. OneRemembers(a)
  BY <1>1, ChangingOne
  DEF OneRemembers, J!Execute, J!WritePlan, J!MarkReady, J!Commit, J!CheckStaged, J!SkipStep, J!Replace,
      J!ExecuteDone, J!memory
<1>3. UNCHANGED <<lock, svc>> /\ pc[a] # "idle"
  BY DEF J!Execute, J!WritePlan, J!MarkReady, J!Commit, J!CheckStaged, J!SkipStep, J!Replace,
         J!ExecuteDone
<1>4. \E label : MayBe(a, label) /\ J!Goto(a, label)
  <2>1. CASE J!WritePlan(a) \/ J!MarkReady(a)
    <3>1. a \notin Procs
      BY <2>1 DEF J!WritePlan, J!MarkReady, Locked, J!LockInv
    <3> QED
      BY <2>1, <3>1 DEF J!WritePlan, J!MarkReady, MayBe, J!Labels
  <2>2. CASE J!Commit(a) \/ J!CheckStaged(a) \/ J!Replace(a) \/ J!ExecuteDone(a)
    BY <2>2 DEF J!Commit, J!CheckStaged, J!Replace, J!ExecuteDone, MayBe, J!Labels
  <2>3. CASE J!SkipStep(a)
    BY <1>3, <2>3, StillAtWork DEF J!SkipStep
  <2> QED
    BY <2>1, <2>2, <2>3 DEF J!Execute
<1> QED
  BY <1>2, <1>3, <1>4 DEF Works

(* Removing a directory. *)
LEMMA RemovingMoves ==
  ASSUME Locked, Remembers, NEW a \in J!Actors, J!Remove(a)
  PROVE  Works(a) \/ Leaves(a)
<1>1. \A f \in {own, run, todo, steps} : PerActor(f)
  BY DEF Remembers
<1>2. CASE \/ \E f \in DOMAIN dirs[run[a]].files : J!RemoveStaged(a, f)
           \/ J!RemovePlan(a) \/ J!RemoveReady(a)
  <2>1. UNCHANGED <<lock, svc, pc, own, run, todo, steps>> /\ pc[a] # "idle"
    BY <1>2 DEF J!RemoveStaged, J!RemovePlan, J!RemoveReady, J!Removing, J!memory
  <2>2. OneRemembers(a)
    BY <1>1, <2>1, ChangingOne DEF OneRemembers
  <2> QED
    BY <2>1, <2>2, StillAtWork DEF Works
<1>3. CASE J!RemoveDir(a) \/ J!CleanupMissing(a)
  <2>1. pc[a] # "idle" /\ J!Removed(a)
    BY <1>3 DEF J!RemoveDir, J!CleanupMissing, J!Removing
  <2>2. CASE J!Leave(a, "serving")
    BY <2>1, <2>2 DEF Leaves
  <2>3. CASE J!Goto(a, "resume") /\ UNCHANGED <<lock, svc, own, run, todo, steps>>
    <3>1. OneRemembers(a)
      BY <1>1, <2>3, ChangingOne DEF OneRemembers
    <3> QED
      BY <2>1, <2>3, <3>1 DEF Works, MayBe, J!Labels
  <2> QED
    BY <2>1, <2>2, <2>3 DEF J!Removed, J!memory
<1> QED
  BY <1>2, <1>3 DEF J!Remove

(* Staging. *)
LEMMA StagingMoves ==
  ASSUME Locked, Remembers, NEW a \in Threads,
         \/ J!ReturnDry(a)
         \/ \E r : J!BeginRun(a, r)
         \/ \E f, c : J!StageFile(a, f, c)
  PROVE  Works(a) \/ Leaves(a)
<1>1. /\ \A f \in {own, run, todo, steps} : PerActor(f)
      /\ a \in J!Actors /\ a \notin Procs
  BY JournalConstants DEF Remembers, J!Actors, J!JournalAssumption
<1>2. CASE J!ReturnDry(a)
  BY <1>2 DEF J!ReturnDry, Leaves
<1>3. CASE \/ \E r : J!BeginRun(a, r)
           \/ \E f, c : J!StageFile(a, f, c)
  <2>1. OneRemembers(a)
    <3>1. ASSUME NEW r, J!BeginRun(a, r)
          PROVE  OneRemembers(a)
      BY <1>1, <3>1, ChangingOne DEF J!BeginRun, OneRemembers
    <3>2. ASSUME NEW f, NEW c, J!StageFile(a, f, c)
          PROVE  OneRemembers(a)
      <4>1. steps' = [steps EXCEPT ![a] = Append(@, f)] /\ UNCHANGED <<own, run, todo>>
        BY <3>2 DEF J!StageFile
      <4> QED
        BY <1>1, <4>1, ChangingOne DEF OneRemembers
    <3> QED
      BY <1>3, <3>1, <3>2
  <2>2. /\ J!Goto(a, "stage") \/ J!Goto(a, "plan")
        /\ pc[a] # "idle" /\ UNCHANGED <<lock, svc>>
    BY <1>3 DEF J!BeginRun, J!StageFile
  <2> QED
    BY <1>1, <2>1, <2>2 DEF Works, MayBe, J!Labels
<1> QED
  BY <1>2, <1>3

-----------------------------------------------------------------------------
(* What the lock and the memories are after each of these.                 *)

(* Going on. *)
LEMMA WorkingControl ==
  ASSUME Locked, Remembers, NEW a \in J!Actors, Works(a)
  PROVE  Locked' /\ Remembers'
<1>1. PICK label : MayBe(a, label) /\ J!Goto(a, label)
  BY DEF Works
<1>2. Locked'
  BY <1>1 DEF Works, Locked, J!LockInv, J!Active, J!Goto, J!Actors, MayBe
<1>3. pc' = [pc EXCEPT ![a] = label] /\ pc \in [J!Actors -> J!Labels] /\ label # "idle"
  BY <1>1 DEF J!Goto, Locked, MayBe
<1>4. PerActor(own') /\ PerActor(run') /\ PerActor(todo') /\ PerActor(steps')
  BY ChangedOne DEF Works, OneRemembers
<1>5. ASSUME NEW b \in J!Actors, pc'[b] = "idle"
      PROVE  Blank(b)'
  <2>1. b # a /\ pc[b] = "idle"
    BY <1>3, <1>5
  <2>2. own'[b] = own[b] /\ run'[b] = run[b] /\ todo'[b] = todo[b] /\ steps'[b] = steps[b]
    BY <2>1, ChangedOne DEF Works, OneRemembers
  <2> QED
    BY <2>1, <2>2 DEF Remembers, Blank
<1> QED
  BY <1>2, <1>4, <1>5 DEF Remembers

(* Leaving. *)
LEMMA LeavingControl ==
  ASSUME Locked, Remembers, NEW a \in J!Actors, Leaves(a)
  PROVE  Locked' /\ Remembers'
<1>1. PICK status \in {"down", "serving"} : J!Leave(a, status)
  BY DEF Leaves
<1>2. Locked'
  <2>1. CASE a \in Threads
    BY <1>1, <2>1, JournalConstants
    DEF Leaves, J!Leave, J!Goto, J!Labels, Locked, J!LockInv, J!Active, J!Actors, J!JournalAssumption
  <2>2. CASE a \notin Threads
    <3>1. a \in Procs
      BY <2>2 DEF J!Actors
    <3> QED
      BY <1>1, <2>2, <3>1, JournalConstants
      DEF Leaves, J!Leave, J!Goto, J!Labels, Locked, J!LockInv, J!Active, J!Actors, J!JournalAssumption
  <2> QED
    BY <2>1, <2>2
<1>3. /\ own' = [own EXCEPT ![a] = FALSE] /\ run' = [run EXCEPT ![a] = NoRun]
      /\ todo' = [todo EXCEPT ![a] = {}] /\ steps' = [steps EXCEPT ![a] = << >>]
      /\ pc' = [pc EXCEPT ![a] = "idle"]
  BY <1>1 DEF J!Leave, J!Goto
<1>4. OneRemembers(a)
  BY <1>3, ChangingOne DEF OneRemembers, Remembers
<1>5. DOMAIN own = J!Actors /\ DOMAIN run = J!Actors /\ DOMAIN todo = J!Actors /\ DOMAIN steps = J!Actors
  BY DEF Remembers, PerActor
<1>6. Blank(a)'
  BY <1>3, <1>5 DEF Blank
<1>7. ASSUME NEW b \in J!Actors, b # a, pc'[b] = "idle"
      PROVE  Blank(b)'
  <2>1. pc[b] = "idle"
    BY <1>3, <1>7 DEF Locked
  <2>2. own'[b] = own[b] /\ run'[b] = run[b] /\ todo'[b] = todo[b] /\ steps'[b] = steps[b]
    BY <1>4, <1>7, ChangedOne DEF OneRemembers
  <2> QED
    BY <2>1, <2>2 DEF Remembers, Blank
<1>8. PerActor(own') /\ PerActor(run') /\ PerActor(todo') /\ PerActor(steps')
  BY <1>4, ChangedOne DEF OneRemembers
<1> QED
  BY <1>2, <1>6, <1>7, <1>8 DEF Remembers

(* Starting and taking the lock. *)
LEMMA ComingControl ==
  ASSUME Locked, Remembers,
         (\E p \in Procs : J!Boot(p)) \/ (\E t \in Threads : J!Acquire(t))
  PROVE  Locked' /\ Remembers'
<1>1. ASSUME NEW p \in Procs, J!Boot(p)
      PROVE  Locked' /\ Remembers'
  <2>1. Locked'
    BY <1>1, JournalConstants
    DEF J!Boot, J!Goto, J!Labels, Locked, J!LockInv, J!Active, J!Actors, J!JournalAssumption
  <2>2. UNCHANGED <<own, run, todo, steps>> /\ \A b \in J!Actors : pc'[b] = "idle" => pc[b] = "idle"
    BY <1>1 DEF J!Boot, J!Goto, J!memory, Locked, J!Actors
  <2> QED
    BY <2>1, <2>2 DEF Remembers, Blank
<1>2. ASSUME NEW t \in Threads, J!Acquire(t)
      PROVE  Locked' /\ Remembers'
  <2>1. Locked'
    BY <1>2, JournalConstants
    DEF J!Acquire, J!Goto, J!Labels, Locked, J!LockInv, J!Active, J!Actors, J!JournalAssumption
  <2>2. UNCHANGED <<own, run, todo, steps>> /\ \A b \in J!Actors : pc'[b] = "idle" => pc[b] = "idle"
    BY <1>2 DEF J!Acquire, J!Goto, J!memory, Locked, J!Actors
  <2> QED
    BY <2>1, <2>2 DEF Remembers, Blank
<1> QED
  BY <1>1, <1>2

(* Dying. *)
LEMMA CrashingControl ==
  ASSUME Locked, Remembers, NEW p \in Procs, J!Crash(p)
  PROVE  Locked' /\ Remembers'
<1>1. /\ pc' = [a \in J!Actors |-> IF a \in J!Killed(p) THEN "idle" ELSE pc[a]]
      /\ lock' = IF lock \in J!Killed(p) THEN Nobody ELSE lock
      /\ svc' = [svc EXCEPT ![p] = "down"]
  BY DEF J!Crash
<1>2. \A t \in Threads : t \in J!Killed(p) <=> ProcOf[t] = p
  BY JournalConstants DEF J!JournalAssumption, J!Killed
<1>3. \A q \in Procs : q \in J!Killed(p) <=> q = p
  BY JournalConstants DEF J!JournalAssumption, J!Killed
<1>4. Locked'
  <2>1. \A t \in Threads : J!Active(t)' <=> lock' = t
    BY <1>1, JournalConstants DEF J!JournalAssumption, J!LockInv, J!Active, J!Actors, Locked
  <2>2. \A t \in Threads : J!Active(t)' => svc'[ProcOf[t]] = "serving"
    BY <1>1, <1>2, JournalConstants DEF J!JournalAssumption, J!LockInv, J!Active, J!Actors, Locked
  <2>3. \A q \in Procs : J!Active(q)' <=> svc'[q] = "booting"
    BY <1>1, <1>3 DEF J!LockInv, J!Active, J!Actors, Locked
  <2>4. \A q \in Procs : pc'[q] \notin {"prepare", "stage", "plan", "ready", "commit"}
    BY <1>1 DEF J!LockInv, J!Actors, Locked
  <2>5. /\ lock' \in Threads \cup {Nobody} /\ pc' \in [J!Actors -> J!Labels]
        /\ svc' \in [Procs -> {"down", "booting", "serving"}]
    BY <1>1 DEF Locked, J!Labels
  <2> QED
    BY <2>1, <2>2, <2>3, <2>4, <2>5 DEF J!LockInv, Locked
<1>5. /\ own' = [a \in J!Actors |-> IF a \in J!Killed(p) THEN FALSE ELSE own[a]]
      /\ run' = [a \in J!Actors |-> IF a \in J!Killed(p) THEN NoRun ELSE run[a]]
      /\ todo' = [a \in J!Actors |-> IF a \in J!Killed(p) THEN {} ELSE todo[a]]
      /\ steps' = [a \in J!Actors |-> IF a \in J!Killed(p) THEN << >> ELSE steps[a]]
  BY DEF J!Crash
<1>6. PerActor(own') /\ PerActor(run') /\ PerActor(todo') /\ PerActor(steps')
  BY <1>5 DEF PerActor
<1>7. \A a \in J!Actors : pc'[a] = "idle" => Blank(a)'
  BY <1>1, <1>5 DEF Remembers, Blank
<1> QED
  BY <1>4, <1>6, <1>7 DEF Remembers

(* Every step of the service. *)
LEMMA ActorsStep ==
  ASSUME Locked, Remembers, [Next]_vars
  PROVE  Locked' /\ Remembers'
<1>1. ASSUME NEW a \in J!Actors, Works(a) \/ Leaves(a)
      PROVE  Locked' /\ Remembers'
  BY <1>1, WorkingControl, LeavingControl
<1>2. ASSUME NEW a \in J!Actors, J!Work(a)
      PROVE  Locked' /\ Remembers'
  <2>1. CASE J!Raise(a)
    <3>1. Leaves(a)
      BY <2>1 DEF J!Raise, J!Stuck, Leaves
    <3> QED
      BY <1>1, <3>1
  <2> QED
    BY <1>1, <1>2, <2>1, SweepingMoves, ExecutingMoves, RemovingMoves DEF J!Work
<1>3. ASSUME NEW t \in Threads, Ingest(t) \/ SourceFails(t)
      PROVE  Locked' /\ Remembers'
  <2>1. t \in J!Actors
    BY DEF J!Actors
  <2>2. CASE LoadCheckpoint(t) \/ FetchDelta(t)
    <3>1. UNCHANGED <<lock, svc, pc, own, run, todo, steps>>
      BY <2>2 DEF LoadCheckpoint, FetchDelta
    <3> QED
      BY <3>1 DEF Locked, J!LockInv, J!Active, Remembers, PerActor, Blank
  <2>3. CASE ReturnDry(t) \/ BeginRun(t) \/ StageNext(t) \/ SourceFails(t)
    <3>1. \/ J!ReturnDry(t)
          \/ \E r : J!BeginRun(t, r)
          \/ \E f, c : J!StageFile(t, f, c)
      BY <2>3 DEF ReturnDry, BeginRun, StageNext, SourceFails
    <3> QED
      BY <1>1, <2>1, <3>1, StagingMoves
  <2> QED
    BY <1>3, <2>2, <2>3 DEF Ingest
<1>4. ASSUME NEW a \in J!Actors, J!OSError(a)
      PROVE  Locked' /\ Remembers'
  <2>1. Leaves(a)
    BY <1>4 DEF J!OSError, Leaves
  <2> QED
    BY <1>1, <2>1
<1>5. CASE SourceChanges \/ UNCHANGED vars
  <2>1. UNCHANGED <<lock, svc, pc, own, run, todo, steps>>
    BY <1>5 DEF SourceChanges, Transaction, vars
  <2> QED
    BY <2>1 DEF Locked, J!LockInv, J!Active, Remembers, PerActor, Blank
<1>6. ASSUME NEW p \in Procs, Boot(p) \/ J!Crash(p)
      PROVE  Locked' /\ Remembers'
  BY <1>6, ComingControl, CrashingControl DEF Boot
<1>7. ASSUME NEW t \in Threads, NEW dry \in BOOLEAN, Request(t, dry)
      PROVE  Locked' /\ Remembers'
  BY <1>7, ComingControl DEF Request
<1> QED
  BY <1>2, <1>3, <1>4, <1>5, <1>6, <1>7 DEF Next, Work, Fault, J!Fault

(* What a request has read goes with it. *)
LEMMA RequestsStep ==
  ASSUME Locked, Requests, [Next]_vars
  PROVE  Requests'
<1>1. CASE KeepRequests
  <2>1. req' = [t \in Threads |-> IF pc'[t] = "idle" THEN NewRequest ELSE req[t]]
    BY <1>1 DEF KeepRequests
  <2> QED
    BY <2>1 DEF Requests
<1>2. CASE UNCHANGED <<req, pc>>
  BY <1>2 DEF Requests
<1>3. ASSUME NEW t \in Threads, NEW r, req' = [req EXCEPT ![t] = r], pc'[t] # "idle",
             \A u \in Threads : u # t => pc'[u] = pc[u]
      PROVE  Requests'
  <2>1. DOMAIN req' = Threads
    BY <1>3 DEF Requests
  <2>2. ASSUME NEW u \in Threads, pc'[u] = "idle"
        PROVE  req'[u] = NewRequest
    <3>1. u # t /\ pc[u] = "idle"
      BY <1>3, <2>2
    <3>2. req'[u] = req[u]
      BY <1>3, <3>1 DEF Requests
    <3> QED
      BY <3>1, <3>2 DEF Requests
  <2> QED
    BY <2>1, <2>2 DEF Requests
<1>4. ASSUME NEW p \in Procs, Boot(p)
      PROVE  Requests'
  <2>1. req' = req /\ pc' = [pc EXCEPT ![p] = "scan"] /\ p \notin Threads
    BY <1>4, JournalConstants DEF Boot, J!Boot, J!Goto, J!JournalAssumption
  <2>2. \A t \in Threads : pc'[t] = pc[t]
    BY <2>1
  <2> QED
    BY <2>1, <2>2 DEF Requests
<1>5. ASSUME NEW t \in Threads, NEW dry \in BOOLEAN, Request(t, dry)
      PROVE  Requests'
  <2>1. /\ req' = [req EXCEPT ![t] = [NewRequest EXCEPT !.dry = dry]]
        /\ pc' = [pc EXCEPT ![t] = "scan"] /\ pc \in [J!Actors -> J!Labels] /\ t \in J!Actors
    BY <1>5 DEF Request, J!Acquire, J!Goto, Locked, J!Actors
  <2>2. pc'[t] # "idle" /\ \A u \in Threads : u # t => pc'[u] = pc[u]
    BY <2>1 DEF J!Actors
  <2> QED
    BY <1>3, <2>1, <2>2
<1>6. ASSUME NEW t \in Threads, LoadCheckpoint(t)
      PROVE  Requests'
  <2>1. /\ req' = [req EXCEPT ![t] = [req[t] EXCEPT !.before = LiveCheckpoint]]
        /\ pc' = pc /\ pc[t] = "prepare"
    BY <1>6 DEF LoadCheckpoint
  <2> QED
    BY <1>3, <2>1
<1>7. ASSUME NEW t \in Threads, FetchDelta(t)
      PROVE  Requests'
  <2>1. pc' = pc /\ pc[t] = "prepare" /\ \E r : req' = [req EXCEPT ![t] = r]
    BY <1>7 DEF FetchDelta
  <2> QED
    BY <1>3, <2>1
<1>8. ASSUME NEW t \in Threads, BeginRun(t) \/ StageNext(t)
      PROVE  Requests'
  <2>1. req' = req /\ pc[t] # "idle" /\ \E label \in {"stage", "plan"} : pc' = [pc EXCEPT ![t] = label]
    BY <1>8 DEF BeginRun, StageNext, J!BeginRun, J!StageFile, J!Goto
  <2>2. \A u \in Threads : pc'[u] = "idle" => pc[u] = "idle"
    BY <2>1 DEF Locked, J!Actors
  <2> QED
    BY <2>1, <2>2 DEF Requests
<1>9. CASE SourceChanges \/ UNCHANGED vars
  BY <1>2, <1>9 DEF SourceChanges, Transaction, vars
<1> QED
  BY <1>1, <1>4, <1>5, <1>6, <1>7, <1>8, <1>9 DEF Next, Work, Fault, Ingest, ReturnDry, SourceFails

(* A directory stays one. *)
LEMMA DirectoriesStep ==
  ASSUME ADirectory(live), ADirectory(dirs), [Next]_vars
  PROVE  ADirectory(live') /\ ADirectory(dirs')
<1>1. ASSUME NEW f, NEW x, NEW y
      PROVE  ADirectory(J!Put(f, x, y)) /\ ADirectory(J!Drop(f, x))
  BY DEF ADirectory, J!Put, J!Drop, J!Restrict
<1>2. ASSUME NEW r, NEW d, J!SetDir(r, d)
      PROVE  ADirectory(dirs')
  BY <1>1, <1>2 DEF J!SetDir
<1>3. ASSUME NEW a \in J!Actors, J!Work(a)
      PROVE  ADirectory(live') /\ ADirectory(dirs')
  <2>1. CASE J!Sweep(a) \/ J!Raise(a)
    BY <2>1 DEF J!Sweep, J!Scan, J!ResumeReady, J!ResumeDiscard, J!ResumeDone, J!Raise, J!disk
  <2>2. CASE J!Execute(a)
    <3>1. CASE J!WritePlan(a) \/ J!MarkReady(a)
      BY <1>2, <3>1 DEF J!WritePlan, J!MarkReady
    <3>2. CASE J!Replace(a)
      BY <1>1, <1>2, <3>2 DEF J!Replace
    <3> QED
      BY <2>2, <3>1, <3>2 DEF J!Execute, J!Commit, J!CheckStaged, J!SkipStep, J!ExecuteDone, J!disk
  <2>3. CASE J!Remove(a)
    <3>1. CASE J!RemoveDir(a)
      BY <1>1, <3>1 DEF J!RemoveDir
    <3>2. CASE \E f : J!RemoveStaged(a, f)
      BY <1>2, <3>2 DEF J!RemoveStaged
    <3>3. CASE J!RemovePlan(a) \/ J!RemoveReady(a)
      BY <1>2, <3>3 DEF J!RemovePlan, J!RemoveReady
    <3> QED
      BY <2>3, <3>1, <3>2, <3>3 DEF J!Remove, J!CleanupMissing, J!disk
  <2> QED
    BY <1>3, <2>1, <2>2, <2>3 DEF J!Work
<1>4. ASSUME NEW t \in Threads, Ingest(t)
      PROVE  ADirectory(live') /\ ADirectory(dirs')
  <2>1. CASE BeginRun(t)
    BY <1>2, <2>1 DEF BeginRun, J!BeginRun
  <2>2. CASE StageNext(t)
    BY <1>2, <2>2 DEF StageNext, J!StageFile
  <2> QED
    BY <1>4, <2>1, <2>2 DEF Ingest, LoadCheckpoint, FetchDelta, ReturnDry, J!ReturnDry, J!disk
<1>5. CASE UNCHANGED <<live, dirs>>
  BY <1>5
<1> QED
  BY <1>3, <1>4, <1>5
  DEF Next, vars, SourceChanges, Transaction, Boot, J!Boot, Request, J!Acquire, Work, Fault, J!Fault,
      J!OSError, J!Crash, SourceFails, J!ReturnDry, J!disk

(* Who is at work and what they remember is known after every step. *)
LEMMA ControlStep ==
  ASSUME ControlInv, [Next]_vars
  PROVE  ControlInv'
<1>1. Locked' /\ Remembers'
  BY ActorsStep DEF ControlInv
<1>2. Requests'
  BY RequestsStep DEF ControlInv
<1>3. source' \in SourceTables
  BY SourceTypedStep DEF ControlInv
<1>4. ADirectory(live') /\ ADirectory(dirs')
  BY DirectoriesStep DEF ControlInv
<1> QED
  BY <1>1, <1>2, <1>3, <1>4 DEF ControlInv, ADirectory

(* At first nobody is at work. *)
LEMMA ControlInit ==
  ASSUME Init
  PROVE  ControlInv
<1>1. /\ live = << >> /\ dirs = << >> /\ lock = Nobody
      /\ svc = [p \in Procs |-> "down"] /\ pc = [a \in J!Actors |-> "idle"]
      /\ own = [a \in J!Actors |-> FALSE] /\ run = [a \in J!Actors |-> NoRun]
      /\ todo = [a \in J!Actors |-> {}] /\ steps = [a \in J!Actors |-> << >>]
      /\ source = [t \in Tables |-> << >>] /\ req = [t \in Threads |-> NewRequest]
  BY DEF Init, J!Init
<1>2. Locked
  BY <1>1, JournalConstants DEF Locked, J!LockInv, J!Active, J!Actors, J!Labels, J!JournalAssumption
<1>3. Remembers
  BY <1>1 DEF Remembers, PerActor, Blank
<1>4. source \in SourceTables
  BY <1>1, EmptyPartial DEF SourceTables
<1> QED
  BY <1>1, <1>2, <1>3, <1>4 DEF ControlInv, Requests, ADirectory

-----------------------------------------------------------------------------
(* What is on the disk when nobody is at work. *)

(* Every file and directory has its type, whether or not its content fits  *)
(* the others': rm may be in the middle of it.                             *)
Tidy ==
  /\ live \in Partial(Files, Contents)
  /\ \A f \in DOMAIN live : LiveFits(f)
  /\ DOMAIN dirs \subseteq RunIds
  /\ dirs \in [DOMAIN dirs -> J!RunDirs]
  /\ \A r, s \in DOMAIN dirs : r = s
  /\ \A r \in DOMAIN dirs : dirs[r].plan # NoPlan => J!CheckpointAtEnd(dirs[r].plan)

NothingReady == \A r \in DOMAIN dirs : ~dirs[r].ready

(* The invariant says so. *)
LEMMA InvIsTidy ==
  ASSUME Inv
  PROVE  Tidy
<1>1. live \in Partial(Files, Contents)
  BY DEF Inv, J!TypeOK, J!Partial, Partial
<1> QED
  BY <1>1 DEF Inv, J!TypeOK, J!JournalInv, J!DirsInv, FilesInv, Tidy

(* With nothing to recover and nobody at work the invariant holds.         *)
LEMMA AtRest ==
  ASSUME ControlInv, Everybody("idle"), Tidy, NothingReady
  PROVE  Inv
<1>1. \A a \in J!Actors : pc[a] = "idle" /\ own[a] = FALSE /\ run[a] = NoRun /\ todo[a] = {} /\ steps[a] = << >>
  BY DEF ControlInv, Remembers, Blank, Everybody
<1>2. J!TypeOK
  <2>1. /\ own = [a \in J!Actors |-> own[a]] /\ run = [a \in J!Actors |-> run[a]]
        /\ todo = [a \in J!Actors |-> todo[a]] /\ steps = [a \in J!Actors |-> steps[a]]
    BY DEF ControlInv, Remembers, PerActor
  <2>2. /\ own \in [J!Actors -> BOOLEAN] /\ run \in [J!Actors -> RunIds \cup {NoRun}]
        /\ todo \in [J!Actors -> SUBSET RunIds] /\ steps \in [J!Actors -> Seq(Files)]
    <3>1. ASSUME NEW f, f = [a \in J!Actors |-> f[a]], NEW S, \A a \in J!Actors : f[a] \in S
          PROVE  f \in [J!Actors -> S]
      BY <3>1
    <3>2. << >> \in Seq(Files)
      OBVIOUS
    <3>3. own \in [J!Actors -> BOOLEAN]
      BY <1>1, <2>1, <3>1
    <3>4. run \in [J!Actors -> RunIds \cup {NoRun}]
      BY <1>1, <2>1, <3>1
    <3>5. todo \in [J!Actors -> SUBSET RunIds]
      BY <1>1, <2>1, <3>1
    <3>6. steps \in [J!Actors -> Seq(Files)]
      BY <1>1, <2>1, <3>1, <3>2
    <3> QED
      BY <3>3, <3>4, <3>5, <3>6
  <2>3. live \in J!Partial(Files, Contents)
    BY DEF Tidy, J!Partial, Partial
  <2> QED
    BY <1>1, <2>2, <2>3 DEF J!TypeOK, ControlInv, Locked, Tidy
<1>3. J!JournalInv
  <2>1. \A a \in J!Actors : J!ActorInv(a)
    BY <1>1 DEF J!ActorInv
  <2>2. J!DirsInv
    BY DEF J!DirsInv, J!ReadyIsReplayable, Tidy, NothingReady
  <2> QED
    BY <2>1, <2>2 DEF J!JournalInv, ControlInv, Locked
<1>4. \A t \in Threads : ThreadTyped(t) /\ RequestInv(t)
  <2>1. ASSUME NEW t \in Threads
        PROVE  ThreadTyped(t) /\ RequestInv(t)
    <3>1. pc[t] = "idle" /\ ~own[t]
      BY <1>1 DEF J!Actors
    <3>2. req[t] = [NewRequest EXCEPT !.dry = FALSE]
      BY <3>1, NewRequestFields DEF ControlInv, Requests
    <3> QED
      BY <3>1, <3>2, FirstRequest
  <2> QED
    BY <2>1
<1>5. TypeOK
  BY <1>4, TypeByThread DEF ControlInv, Requests
<1>6. \A r \in DOMAIN dirs : ~InUse(r)
  BY <1>1 DEF InUse, NothingReady, J!Actors
<1>7. OrderInv
  BY <1>1, <1>6 DEF OrderInv, Staging
<1> QED
  BY <1>2, <1>3, <1>4, <1>5, <1>6, <1>7 DEF Inv, FilesInv, Tidy

(* While nobody is at work the files stay as they are. *)
LEMMA NobodyWrites ==
  ASSUME Everybody("idle"), [Next]_vars
  PROVE  UNCHANGED <<live, dirs>>
<1>1. ASSUME NEW a \in J!Actors, Work(a)
      PROVE  FALSE
  <2>1. pc[a] = "idle"
    BY DEF Everybody
  <2>2. ~J!Sweep(a)
    BY <2>1 DEF J!Sweep, J!Scan, J!ResumeReady, J!ResumeDiscard, J!ResumeDone
  <2>3. ~J!Execute(a)
    BY <2>1 DEF J!Execute, J!WritePlan, J!MarkReady, J!Commit, J!CheckStaged, J!SkipStep, J!Replace, J!ExecuteDone
  <2>4. ~J!Remove(a)
    BY <2>1
    DEF J!Remove, J!Removing, J!RemoveStaged, J!RemovePlan, J!RemoveReady, J!RemoveDir, J!CleanupMissing
  <2>5. ~J!Raise(a)
    BY <2>1 DEF J!Raise, J!Stuck
  <2> QED
    BY <1>1, <2>2, <2>3, <2>4, <2>5 DEF Work, J!Work
<1>2. ASSUME NEW t \in Threads, Ingest(t)
      PROVE  FALSE
  <2>1. pc[t] = "idle"
    BY DEF Everybody, J!Actors
  <2> QED
    BY <1>2, <2>1
    DEF Ingest, LoadCheckpoint, FetchDelta, ReturnDry, J!ReturnDry, BeginRun, J!BeginRun, StageNext
<1> QED
  BY <1>1, <1>2
  DEF Next, vars, SourceChanges, Transaction, Boot, J!Boot, Request, J!Acquire, Fault, J!Fault,
      J!OSError, J!Crash, SourceFails, J!ReturnDry, J!disk

-----------------------------------------------------------------------------
(* What rm does. *)

(* An output file goes. *)
LEMMA RemovingAFile ==
  ASSUME ControlInv, NEW f, RemoveFile(f)
  PROVE  /\ ControlInv' /\ (Tidy => Tidy')
         /\ DOMAIN live' = DOMAIN live \ {f} /\ \A g \in DOMAIN live' : live'[g] = live[g]
         /\ f \in DOMAIN live /\ removing < 4 /\ ArgumentOf(f) = Arguments[removing + 1]
         /\ UNCHANGED <<dirs, pc, source, req, removing, torn, left>>
<1>1. /\ live' = Drop(live, f) /\ f \in DOMAIN live
      /\ removing < Len(Arguments) /\ ArgumentOf(f) = Arguments[removing + 1]
      /\ UNCHANGED <<dirs, lock, svc, pc, own, run, todo, steps, source, req, removing, torn, left>>
  BY DEF RemoveFile, At
<1>2. DOMAIN live' = DOMAIN live \ {f} /\ ADirectory(live') /\ \A g \in DOMAIN live' : live'[g] = live[g]
  BY <1>1 DEF Drop, Restrict, ADirectory
<1>3. ControlInv'
  BY <1>1, <1>2
  DEF ControlInv, Locked, J!LockInv, J!Active, Remembers, PerActor, Blank, Requests, ADirectory
<1>4. ASSUME Tidy
      PROVE  Tidy'
  <2>1. live' \in Partial(Files, Contents) /\ DOMAIN live \subseteq Files
    BY <1>1, <1>4, DroppingType, PartialIsFunction DEF Tidy
  <2>2. \A g \in DOMAIN live' : LiveFits(g)'
    BY <1>2, <1>4, <2>1, StillLive DEF Tidy
  <2> QED
    BY <1>1, <1>4, <2>1, <2>2 DEF Tidy
<1>5. Len(Arguments) = 4
  BY DEF Arguments
<1> QED
  BY <1>1, <1>2, <1>3, <1>4, <1>5

(* A directory without an entry is one.                                    *)
LEMMA WithoutType ==
  ASSUME NEW d \in J!RunDirs, NEW e \in Without(d)
  PROVE  e \in J!RunDirs /\ e.plan \in {d.plan, NoPlan}
<1>1. d.files \in J!Partial(Files, Contents) /\ d.plan \in Seq(Files) \cup {NoPlan} /\ d.ready \in BOOLEAN
  BY DEF J!RunDirs
<1>2. ASSUME NEW f, e = [d EXCEPT !.files = Drop(@, f)]
      PROVE  e \in J!RunDirs /\ e.plan \in {d.plan, NoPlan}
  <2>1. Drop(d.files, f) \in J!Partial(Files, Contents)
    <3>1. d.files \in Partial(Files, Contents)
      BY <1>1 DEF J!Partial, Partial
    <3>2. Drop(d.files, f) \in Partial(Files, Contents)
      BY <3>1, DroppingType
    <3> QED
      BY <3>2 DEF J!Partial, Partial
  <2> QED
    BY <1>1, <1>2, <2>1 DEF J!RunDirs
<1>3. CASE e = [d EXCEPT !.plan = NoPlan]
  BY <1>1, <1>3 DEF J!RunDirs
<1>4. CASE e = [d EXCEPT !.ready = FALSE]
  BY <1>1, <1>4 DEF J!RunDirs
<1> QED
  BY <1>2, <1>3, <1>4 DEF Without

(* A run directory loses an entry, or goes. *)
LEMMA RemovingInRuns ==
  ASSUME ControlInv, removing \in Nat, NEW r, RemoveEntry(r) \/ RemoveRun(r)
  PROVE  /\ ControlInv' /\ (Tidy => Tidy') /\ removing = 0
         /\ UNCHANGED <<live, pc, source, req, removing, torn, left>>
<1>1. /\ r \in DOMAIN dirs /\ removing < Len(Arguments) /\ "state" = Arguments[removing + 1]
      /\ UNCHANGED <<live, lock, svc, pc, own, run, todo, steps, source, req, removing, torn, left>>
  BY DEF RemoveEntry, RemoveRun, At
<1>2. removing = 0
  <2>1. removing \in {0, 1, 2, 3}
    BY <1>1 DEF Arguments
  <2> QED
    BY <1>1, <2>1 DEF Arguments
<1>3. CASE RemoveEntry(r)
  <2>1. PICK e \in Without(dirs[r]) : dirs' = Put(dirs, r, e)
    BY <1>3 DEF RemoveEntry
  <2>4. DOMAIN dirs' = DOMAIN dirs /\ dirs'[r] = e /\ ADirectory(dirs')
    BY <1>1, <2>1 DEF Put, ADirectory
  <2>5. ASSUME Tidy
        PROVE  Tidy'
    <3>0. dirs[r] \in J!RunDirs /\ \A s \in DOMAIN dirs : s = r
      BY <1>1, <2>5 DEF Tidy
    <3>1. e \in J!RunDirs /\ e.plan \in {dirs[r].plan, NoPlan}
      BY <3>0, WithoutType
    <3>2. dirs' \in [DOMAIN dirs' -> J!RunDirs]
      BY <2>4, <3>0, <3>1 DEF ADirectory
    <3>3. \A s \in DOMAIN dirs' : dirs'[s].plan # NoPlan => J!CheckpointAtEnd(dirs'[s].plan)
      BY <2>4, <2>5, <3>0, <3>1 DEF Tidy
    <3>4. \A f \in DOMAIN live' : LiveFits(f)'
      BY <1>1, <2>5 DEF Tidy, LiveFits
    <3> QED
      BY <1>1, <2>4, <2>5, <3>2, <3>3, <3>4 DEF Tidy, J!CheckpointAtEnd
  <2>6. ControlInv'
    BY <1>1, <2>4
    DEF ControlInv, Locked, J!LockInv, J!Active, Remembers, PerActor, Blank, Requests, ADirectory
  <2> QED
    BY <1>1, <1>2, <2>5, <2>6
<1>4. CASE RemoveRun(r)
  <2>1. DOMAIN dirs' = DOMAIN dirs \ {r} /\ ADirectory(dirs')
    BY <1>1, <1>4 DEF RemoveRun, Drop, Restrict, ADirectory
  <2>2. ASSUME Tidy
        PROVE  Tidy'
    <3>1. DOMAIN dirs' = {}
      BY <1>1, <2>1, <2>2 DEF Tidy
    <3>2. dirs' \in [DOMAIN dirs' -> J!RunDirs]
      BY <2>1, <3>1 DEF ADirectory
    <3>3. \A f \in DOMAIN live' : LiveFits(f)'
      BY <1>1, <2>2 DEF Tidy, LiveFits
    <3> QED
      BY <1>1, <2>2, <3>1, <3>2, <3>3 DEF Tidy
  <2>3. ControlInv'
    BY <1>1, <2>1
    DEF ControlInv, Locked, J!LockInv, J!Active, Remembers, PerActor, Blank, Requests, ADirectory
  <2> QED
    BY <1>1, <1>2, <2>2, <2>3
<1> QED
  BY <1>3, <1>4

(* Once rm has begun with the output files there is no live checkpoint any *)
(* more: it is in the argument that goes first.                            *)
LEMMA CheckpointIsGone ==
  ASSUME ControlInv, Tidy, removing \in Nat,
         \A f \in DOMAIN live, n \in 1..removing : ArgumentOf(f) # Arguments[n],
         NEW f, RemoveFile(f)
  PROVE  LiveCheckpoint' = InitialCheckpoint
<1>1. /\ DOMAIN live' = DOMAIN live \ {f} /\ f \in DOMAIN live
      /\ removing < 4 /\ ArgumentOf(f) = Arguments[removing + 1]
      /\ DOMAIN live \subseteq Files
  BY RemovingAFile, PartialIsFunction DEF Tidy
<1>2. CASE removing = 0
  <2>1. ArgumentOf(f) = "state"
    BY <1>1, <1>2 DEF Arguments
  <2>2. f = CheckpointFile
    BY <1>1, <2>1, FileKinds DEF ArgumentOf
  <2> QED
    BY <1>1, <2>2 DEF LiveCheckpoint
<1>3. CASE removing > 0
  <2>1. 1 \in 1..removing
    BY <1>3
  <2>2. ArgumentOf(CheckpointFile) = "state" /\ Arguments[1] = "state"
    BY NameParts DEF ArgumentOf, Arguments
  <2>3. CheckpointFile \notin DOMAIN live
    BY <2>1, <2>2
  <2> QED
    BY <1>1, <2>3 DEF LiveCheckpoint
<1> QED
  BY <1>2, <1>3

-----------------------------------------------------------------------------
(* The invariant of resets. *)

(* The files that a whole reset restores. *)
Whole == LakeInv /\ Accounted(J!Committed) /\ LatestIn(J!Committed)

(* While a reset is under way nobody is at work, and nothing is left of    *)
(* the arguments that rm is done with.                                     *)
Resting ==
  /\ removing \in 0..Len(Arguments)
  /\ Everybody("idle")
  /\ removing > 0 => DOMAIN dirs = {}
  /\ \A f \in DOMAIN live, n \in 1..removing : ArgumentOf(f) # Arguments[n]

(* Unless an interrupted reset has left a READY run directory, the service *)
(* finds its invariant again when rm is over.                              *)
FoundAgain ==
  left = "none" => IF removing = NotResetting THEN Inv ELSE Tidy

ResetInv ==
  /\ ControlInv
  /\ torn \in Nat
  /\ torn = 0 => left = "none"
  /\ removing # NotResetting => Resting
  /\ FoundAgain
  /\ removing = NotResetting /\ torn = 0 => Whole

(* A step of the service keeps what a whole reset restores. *)
LEMMA WholeStep ==
  ASSUME J!SingleInstance, Inv, Whole, [Next]_vars
  PROVE  Whole'
<1>1. LakeInv' /\ Accounted(J!Committed') /\ LatestIn(J!Committed')
  BY LakeStep, AccountsStep, LatestStep DEF Whole
<1> QED
  BY <1>1 DEF Whole, Accounted, LakeKept, LatestIn

(* Without live files and run directories everything is whole. *)
LEMMA NothingIsWhole ==
  ASSUME DOMAIN live = {}, DOMAIN dirs = {}
  PROVE  Whole
<1>1. PICK files : files = J!Committed
  OBVIOUS
<1>2. DOMAIN files = {}
  BY <1>1, NothingCommitted
<1>3. Accounted(files) /\ LatestIn(files)
  BY <1>2, NothingIsAccounted DEF LatestIn
<1> QED
  BY <1>1, <1>3, NoLakeInOrder DEF Whole

(* When rm is done nothing is left, whatever it has found. *)
LEMMA NothingIsLeft ==
  ASSUME Resting, removing = Len(Arguments)
  PROVE  DOMAIN live = {} /\ DOMAIN dirs = {}
<1>1. removing = 4
  BY DEF Arguments
<1>2. \A f \in DOMAIN live : \A n \in {1, 2, 3, 4} : ArgumentOf(f) # Arguments[n]
  BY <1>1 DEF Resting
<1>3. \A f : \E n \in {1, 2, 3, 4} : ArgumentOf(f) = Arguments[n]
  BY DEF ArgumentOf, Arguments
<1> QED
  BY <1>1, <1>2, <1>3 DEF Resting

(* An empty disk is tidy. *)
LEMMA NothingIsTidy ==
  ASSUME ControlInv, DOMAIN live = {}, DOMAIN dirs = {}
  PROVE  Tidy /\ NothingReady
<1>1. live = [x \in {} |-> live[x]] /\ dirs = [x \in {} |-> dirs[x]]
  BY DEF ControlInv, ADirectory
<1>2. live \in [DOMAIN live -> Contents] /\ dirs \in [DOMAIN dirs -> J!RunDirs]
  BY <1>1
<1>3. live \in Partial(Files, Contents)
  BY <1>2, PartialIsFunction
<1> QED
  BY <1>2, <1>3 DEF Tidy, NothingReady

(* The service's steps. *)
LEMMA ServingIsKept ==
  ASSUME J!SingleInstance, ResetInv, [Next]_vars, removing # NotResetting => pc' = pc,
         UNCHANGED <<removing, torn, left>>
  PROVE  ResetInv'
<1>1. ControlInv'
  BY ControlStep DEF ResetInv
<1>2. CASE removing = NotResetting
  <2>1. left = "none" => Inv'
    BY <1>2, InvariantStep DEF ResetInv, FoundAgain
  <2>2. torn = 0 => Whole'
    BY <1>2, WholeStep DEF ResetInv, FoundAgain
  <2>3. FoundAgain'
    BY <1>2, <2>1 DEF FoundAgain
  <2> QED
    BY <1>1, <1>2, <2>2, <2>3 DEF ResetInv
<1>3. CASE removing # NotResetting
  <2>1. Resting /\ UNCHANGED <<live, dirs, pc>>
    BY <1>3, NobodyWrites DEF ResetInv, Resting
  <2>2. Resting'
    BY <2>1 DEF Resting, Everybody
  <2>3. Tidy => Tidy'
    BY <2>1 DEF Tidy, LiveFits
  <2>4. FoundAgain'
    BY <1>3, <2>3 DEF ResetInv, FoundAgain
  <2> QED
    BY <1>1, <1>3, <2>2, <2>4 DEF ResetInv
<1> QED
  BY <1>2, <1>3

(* rm begins: it may find any run directory. *)
LEMMA ResettingBegins ==
  ASSUME J!SingleInstance, ResetInv, BeginReset
  PROVE  ResetInv'
<1>1. /\ UNCHANGED vars /\ removing = NotResetting /\ removing' = 0 /\ UNCHANGED <<torn, left>>
      /\ UNCHANGED <<live, dirs, pc>> /\ Everybody("idle") /\ 0 # NotResetting
  BY DEF BeginReset, Everybody, vars, NotResetting
<1>2. ControlInv'
  BY <1>1, ControlStep DEF ResetInv
<1>3. Resting'
  BY <1>1 DEF Resting, Everybody, Arguments
<1>4. left = "none" => Tidy
  BY <1>1, InvIsTidy DEF ResetInv, FoundAgain
<1>5. Tidy => Tidy'
  BY <1>1 DEF Tidy, LiveFits
<1>6. FoundAgain'
  BY <1>1, <1>4, <1>5 DEF FoundAgain
<1> QED
  BY <1>1, <1>2, <1>3, <1>6 DEF ResetInv

(* rm goes on. *)
LEMMA ResettingGoesOn ==
  ASSUME J!SingleInstance, ResetInv,
         \/ \E f : RemoveFile(f)
         \/ \E r : RemoveEntry(r) \/ RemoveRun(r)
         \/ NextArgument
  PROVE  ResetInv'
<1>1. Len(Arguments) = 4 /\ NotResetting = 100
  BY DEF Arguments, NotResetting
<1>2. ASSUME removing < 4
      PROVE  Resting /\ removing # NotResetting /\ removing \in 0..3
  <2>1. removing # NotResetting
    BY <1>1, <1>2
  <2>2. Resting
    BY <2>1 DEF ResetInv
  <2> QED
    BY <1>1, <1>2, <2>1, <2>2 DEF Resting
<1>3. ASSUME NEW f, RemoveFile(f)
      PROVE  ResetInv'
  <2>1. /\ ControlInv' /\ (Tidy => Tidy') /\ removing < 4
        /\ DOMAIN live' \subseteq DOMAIN live /\ UNCHANGED <<dirs, pc, removing, torn, left>>
    BY <1>3, RemovingAFile DEF ResetInv
  <2>2. Resting'
    BY <1>2, <2>1 DEF Resting, Everybody
  <2>3. FoundAgain'
    BY <1>2, <2>1 DEF ResetInv, FoundAgain
  <2> QED
    BY <1>2, <2>1, <2>2, <2>3 DEF ResetInv
<1>4. ASSUME NEW r, RemoveEntry(r) \/ RemoveRun(r)
      PROVE  ResetInv'
  <2>1. removing < 4
    BY <1>1, <1>4 DEF RemoveEntry, RemoveRun, At
  <2>2. removing \in Nat /\ removing # NotResetting
    BY <1>2, <2>1
  <2>3. /\ ControlInv' /\ (Tidy => Tidy') /\ removing = 0
        /\ UNCHANGED <<live, pc, removing, torn, left>>
    BY <1>4, <2>2, RemovingInRuns DEF ResetInv
  <2>4. Resting'
    BY <1>2, <2>1, <2>3 DEF Resting, Everybody
  <2>5. FoundAgain'
    BY <2>2, <2>3 DEF ResetInv, FoundAgain
  <2> QED
    BY <2>2, <2>3, <2>4, <2>5 DEF ResetInv
<1>5. CASE NextArgument
  <2>1. /\ UNCHANGED vars /\ removing < 4 /\ removing' = removing + 1 /\ UNCHANGED <<torn, left>>
        /\ \A f \in DOMAIN live : ArgumentOf(f) # Arguments[removing + 1]
        /\ "state" = Arguments[removing + 1] => DOMAIN dirs = {}
    BY <1>1, <1>5 DEF NextArgument, At
  <2>2. Resting /\ removing \in 0..3 /\ removing # NotResetting
    BY <1>2, <2>1
  <2>3. removing' \in 0..4 /\ removing' # NotResetting /\ UNCHANGED <<live, dirs, pc>>
    BY <1>1, <2>1, <2>2 DEF vars
  <2>4. \A n \in 1..removing' : n \in 1..removing \/ n = removing + 1
    BY <2>1, <2>2
  <2>5. removing = 0 => "state" = Arguments[removing + 1]
    BY DEF Arguments
  <2>6. DOMAIN dirs = {}
    BY <2>1, <2>2, <2>5 DEF Resting
  <2>7. Resting'
    BY <1>1, <2>1, <2>2, <2>3, <2>4, <2>6 DEF Resting, Everybody
  <2>8. ControlInv'
    BY <2>1, ControlStep DEF ResetInv
  <2>9. Tidy => Tidy'
    BY <2>3 DEF Tidy, LiveFits
  <2>10. FoundAgain'
    BY <2>1, <2>2, <2>3, <2>9 DEF ResetInv, FoundAgain
  <2> QED
    BY <2>1, <2>3, <2>7, <2>8, <2>10 DEF ResetInv
<1> QED
  BY <1>3, <1>4, <1>5

(* rm ends, and nothing is left; or is interrupted, and the service finds  *)
(* its invariant again if no run directory is READY.                       *)
LEMMA ResettingEnds ==
  ASSUME J!SingleInstance, ResetInv, EndReset \/ InterruptReset
  PROVE  ResetInv'
<1>1. UNCHANGED vars /\ removing' = NotResetting
  BY DEF EndReset, InterruptReset
<1>2. ControlInv'
  BY <1>1, ControlStep DEF ResetInv
<1>3. removing <= 4 /\ 4 # NotResetting /\ ~(NotResetting <= 4)
  BY DEF EndReset, InterruptReset, Arguments, NotResetting
<1>4. removing # NotResetting /\ Resting
  BY <1>3 DEF ResetInv
<1>5. ASSUME Tidy, NothingReady
      PROVE  Inv /\ Inv'
  <2>1. Inv
    BY <1>4, <1>5, AtRest DEF ResetInv, Resting
  <2> QED
    BY <1>1, <2>1, InvariantStep
<1>6. CASE EndReset
  <2>1. torn' = 0 /\ left' = "none" /\ DOMAIN live = {} /\ DOMAIN dirs = {}
    BY <1>4, <1>6, NothingIsLeft DEF EndReset
  <2>2. Tidy /\ NothingReady /\ Whole
    BY <2>1, NothingIsTidy, NothingIsWhole DEF ResetInv
  <2>3. Inv /\ Inv'
    BY <1>5, <2>2
  <2>4. Whole'
    BY <1>1, <2>2, <2>3, WholeStep
  <2>5. FoundAgain'
    BY <1>1, <2>3 DEF FoundAgain
  <2> QED
    BY <1>1, <1>2, <2>1, <2>4, <2>5 DEF ResetInv
<1>7. CASE InterruptReset
  <2>1. torn \in Nat /\ torn' = torn + 1
    BY <1>7 DEF InterruptReset, ResetInv
  <2>2. left' = "none" => left = "none" /\ NothingReady
    BY <1>7 DEF InterruptReset, Remains, NothingReady
  <2>3. left' = "none" => Inv'
    BY <1>4, <1>5, <2>2 DEF ResetInv, FoundAgain
  <2>4. FoundAgain'
    BY <1>1, <2>3 DEF FoundAgain
  <2> QED
    BY <1>1, <1>2, <2>1, <2>4 DEF ResetInv
<1> QED
  BY <1>6, <1>7

(* Every step. *)
LEMMA ResetInvStep ==
  ASSUME J!SingleInstance, ResetInv, [ResetNext]_resetVars
  PROVE  ResetInv'
<1>1. CASE UNCHANGED resetVars
  <2>1. UNCHANGED vars /\ UNCHANGED <<pc, removing, torn, left>>
    BY <1>1 DEF resetVars, vars
  <2> QED
    BY <2>1, ServingIsKept
<1>2. CASE Serve
  BY <1>2, ServingIsKept DEF Serve
<1> QED
  BY <1>1, <1>2, ResettingBegins, ResettingGoesOn, ResettingEnds DEF ResetNext, Reset

(* Whatever the operator removes and wherever he interrupts it, unless a   *)
(* READY run directory is among what he leaves, what a request knows and   *)
(* what a run directory holds is what the service's invariant says; and it *)
(* is again, with the lake in order, accounted for and of the latest       *)
(* batches, once a reset is complete.                                      *)
THEOREM ResetInvariant ==
  ASSUME J!SingleInstance
  PROVE  ResetSpec => []ResetInv
<1>1. ResetInit => ResetInv
  <2> SUFFICES ASSUME ResetInit PROVE ResetInv
    OBVIOUS
  <2>1. Init /\ removing = NotResetting /\ torn = 0 /\ left = "none"
    BY DEF ResetInit
  <2>2. Inv /\ Whole /\ ControlInv
    BY <2>1, InvariantInit, NothingAtFirst, NothingIsWhole, ControlInit
  <2> QED
    BY <2>1, <2>2 DEF ResetInv, FoundAgain
<1> QED
  BY <1>1, ResetInvStep, PTL DEF ResetSpec

(* A reset that is complete restores what readers rely on, whatever        *)
(* interrupted ones have left before it: the lake is in order and free of  *)
(* duplicates, the share files are of the latest batch and the events      *)
(* account for the lake.                                                   *)
THEOREM CompleteResetsRestore ==
  ASSUME J!SingleInstance
  PROVE  ResetSpec => []ResetRestores
<1>1. ASSUME Inv, Whole
      PROVE  LakeOrdered /\ ShareIsLatestBatch /\ EventsAccountForLake
  BY <1>1, OrderedLake, LatestShares, AccountedIsEnough DEF Whole
<1>2. ResetInv => ResetRestores
  BY <1>1 DEF ResetInv, FoundAgain, ResetRestores
<1> QED
  BY <1>2, ResetInvariant, PTL

-----------------------------------------------------------------------------
(* The checkpoint and the source.                                          *)

NotAhead == MarksReached /\ CheckpointNeverAhead

(* Unless an interrupted reset has left a READY run directory, the         *)
(* checkpoint is not ahead, in the middle of one that is under way too.    *)
BehindInv ==
  left = "none" => IF removing = NotResetting THEN SourceInv ELSE NotAhead

(* ResetStaysBehind without the case of a READY run directory that was     *)
(* left as it was, whose batch is not one of the live checkpoint.          *)
StaysBehind == left = "none" => CheckpointNeverAhead

(* While only writers are at work no live checkpoint gets ahead. *)
LEMMA WritersAlone ==
  ASSUME WritersFollow, ControlInv, Tidy, NotAhead, [Next]_vars, live' = live
  PROVE  NotAhead'
<1>1. PICK w : w = LiveCheckpoint
  OBVIOUS
<1>2. LiveCheckpoint' = w
  BY <1>1 DEF LiveCheckpoint
<1>3. w \in Checkpoints
  <2>1. CASE CheckpointFile \in DOMAIN live
    <3>1. LiveFits(CheckpointFile)
      BY <2>1 DEF Tidy
    <3>2. live[CheckpointFile] \in Checkpoints
      BY <3>1, NameParts DEF LiveFits
    <3> QED
      BY <1>1, <2>1, <3>2 DEF LiveCheckpoint
  <2>2. CASE CheckpointFile \notin DOMAIN live
    BY <1>1, <2>2 DEF LiveCheckpoint, InitialCheckpoint, Checkpoints, EmptyWatermark, Row, Stamps
  <2> QED
    BY <2>1, <2>2
<1>4. ASSUME NEW t \in Tables
      PROVE  /\ Reached(source'[t], w[t])
             /\ \A row \in Rows(source'[t]) : Later(row, w[t]) \/ row \in InLake(live, t)
  <2>1. PICK old, new : old = source[t] /\ new = source'[t]
    OBVIOUS
  <2>2. old \in Partial(1..MaxPk, 1..MaxTime) /\ new \in Partial(1..MaxPk, 1..MaxTime)
        /\ Successor(old, new)
    BY <2>1, TablesGoOn DEF ControlInv, SourceTables
  <2>3. w[t] \in Stamps /\ Reached(old, w[t])
    BY <1>1, <1>3, <2>1 DEF NotAhead, MarksReached, Checkpoints
  <2>4. Reached(new, w[t])
    BY <2>2, <2>3, ReachedForEver, ServiceAssumption
  <2>5. \A row \in Rows(new) \ Rows(old) : Later(row, w[t])
    BY <2>2, <2>3, NewRowsPass
  <2>6. \A row \in Rows(old) : Later(row, w[t]) \/ row \in InLake(live, t)
    BY <1>1, <2>1 DEF NotAhead, CheckpointNeverAhead
  <2> QED
    BY <2>1, <2>4, <2>5, <2>6
<1> QED
  BY <1>2, <1>4 DEF NotAhead, MarksReached, CheckpointNeverAhead

(* Nothing is behind a watermark when there is none.                       *)
LEMMA RemovingLooksBack ==
  ASSUME ResetInv, left = "none", removing # NotResetting, NEW f, RemoveFile(f)
  PROVE  NotAhead'
<1>1. ControlInv /\ Tidy /\ Resting
  BY DEF ResetInv, FoundAgain
<1>2. removing \in Nat
  BY <1>1 DEF Resting, Arguments
<1>3. LiveCheckpoint' = InitialCheckpoint
  BY <1>1, <1>2, CheckpointIsGone DEF Resting
<1>4. source' = source
  BY DEF RemoveFile
<1>5. \A t \in Tables : LiveCheckpoint'[t] = EmptyWatermark
  BY <1>3 DEF InitialCheckpoint
<1>6. MarksReached'
  BY <1>4, <1>5 DEF MarksReached, Reached
<1>7. \A t \in Tables : \A row \in Rows(source[t]) : Later(row, EmptyWatermark)
  BY <1>1, TableRows DEF ControlInv, SourceTables
<1>8. CheckpointNeverAhead'
  BY <1>4, <1>5, <1>7 DEF CheckpointNeverAhead
<1> QED
  BY <1>6, <1>8 DEF NotAhead

(* With nothing to recover and nobody at work no batch has to follow.      *)
LEMMA NothingFollows ==
  ASSUME ControlInv, Everybody("idle"), NothingReady, NotAhead
  PROVE  SourceInv
<1>1. ASSUME NEW t \in Threads
      PROVE  LooksBack(t)
  <2>1. req[t] = NewRequest
    BY DEF ControlInv, Requests, Everybody, J!Actors
  <2> QED
    BY <2>1, NewRequestFields DEF LooksBack
<1>2. \A r \in DOMAIN dirs : ~InUse(r)
  BY DEF InUse, NothingReady, ControlInv, Remembers, Blank, Everybody, J!Actors
<1> QED
  BY <1>1, <1>2 DEF SourceInv, NotAhead

(* Every step. *)
LEMMA BehindStep ==
  ASSUME J!SingleInstance, WritersFollow, ResetInv, BehindInv, [ResetNext]_resetVars
  PROVE  BehindInv'
<1>1. ASSUME [Next]_vars, removing # NotResetting => pc' = pc, UNCHANGED <<removing, left>>
      PROVE  BehindInv'
  <2>1. SUFFICES ASSUME left = "none"
                 PROVE  IF removing = NotResetting THEN SourceInv' ELSE NotAhead'
    BY <1>1 DEF BehindInv
  <2>2. CASE removing = NotResetting
    BY <1>1, <2>1, <2>2, SourceInvStep DEF BehindInv, ResetInv, FoundAgain
  <2>3. CASE removing # NotResetting
    <3>1. ControlInv /\ Tidy /\ NotAhead /\ Everybody("idle")
      BY <2>1, <2>3 DEF BehindInv, ResetInv, FoundAgain, Resting
    <3>2. live' = live
      BY <1>1, <3>1, NobodyWrites
    <3>3. NotAhead'
      BY <1>1, <3>1, <3>2, WritersAlone
    <3> QED
      BY <2>3, <3>3
  <2> QED
    BY <2>2, <2>3
<1>2. CASE BeginReset
  <2>1. UNCHANGED vars /\ removing = NotResetting /\ removing' = 0 /\ left' = left
    BY <1>2 DEF BeginReset
  <2>2. left = "none" => NotAhead'
    <3>1. left = "none" => SourceInv'
      BY <2>1, SourceInvStep DEF BehindInv, ResetInv, FoundAgain
    <3> QED
      BY <3>1 DEF SourceInv, NotAhead
  <2> QED
    BY <2>1, <2>2 DEF BehindInv, NotResetting
<1>3. ASSUME NEW f, RemoveFile(f)
      PROVE  BehindInv'
  <2>1. removing < 4 /\ UNCHANGED <<removing, left>>
    BY <1>3, RemovingAFile DEF ResetInv
  <2>2. removing # NotResetting
    BY <2>1 DEF NotResetting
  <2> QED
    BY <1>3, <2>1, <2>2, RemovingLooksBack DEF BehindInv
<1>4. ASSUME UNCHANGED <<live, source, left>>, removing # NotResetting, removing' # NotResetting
      PROVE  BehindInv'
  <2>1. NotAhead => NotAhead'
    BY <1>4 DEF NotAhead, MarksReached, CheckpointNeverAhead, LiveCheckpoint
  <2> QED
    BY <1>4, <2>1 DEF BehindInv
<1>5. ASSUME NEW r, RemoveEntry(r) \/ RemoveRun(r)
      PROVE  BehindInv'
  <2>1. removing < 4 /\ UNCHANGED <<live, source, left, removing>>
    BY <1>5 DEF RemoveEntry, RemoveRun, At, Arguments
  <2> QED
    BY <1>4, <2>1 DEF NotResetting
<1>6. CASE NextArgument
  <2>1. removing < 4 /\ removing' = removing + 1 /\ UNCHANGED <<live, source, left>>
    BY <1>6 DEF NextArgument, Arguments, vars
  <2>2. removing # NotResetting
    BY <2>1 DEF NotResetting
  <2>3. removing \in 0..4
    BY <2>2 DEF ResetInv, Resting, Arguments
  <2> QED
    BY <1>4, <2>1, <2>2, <2>3 DEF NotResetting
<1>7. CASE EndReset \/ InterruptReset
  <2>1. /\ UNCHANGED vars /\ removing' = NotResetting /\ removing <= 4
    BY <1>7 DEF EndReset, InterruptReset, Arguments
  <2>2. removing # NotResetting
    BY <2>1 DEF NotResetting
  <2>3. Resting /\ Everybody("idle") /\ ControlInv
    BY <2>2 DEF ResetInv, Resting
  <2>4. CASE EndReset
    <3>1. DOMAIN live = {} /\ DOMAIN dirs = {} /\ left' = "none"
      BY <2>3, <2>4, NothingIsLeft DEF EndReset
    <3>2. NothingReady
      BY <3>1 DEF NothingReady
    <3>3. NotAhead
      <4>1. \A t \in Tables : LiveCheckpoint[t] = EmptyWatermark
        BY <3>1 DEF LiveCheckpoint, InitialCheckpoint
      <4>2. \A t \in Tables : \A row \in Rows(source[t]) : Later(row, EmptyWatermark)
        BY <2>3, TableRows DEF ControlInv, SourceTables
      <4> QED
        BY <4>1, <4>2 DEF NotAhead, MarksReached, Reached, CheckpointNeverAhead
    <3>4. SourceInv /\ Inv
      BY <2>3, <3>1, <3>2, <3>3, NothingFollows, NothingIsTidy, AtRest
    <3>5. SourceInv'
      BY <2>1, <3>4, SourceInvStep
    <3> QED
      BY <2>1, <3>5 DEF BehindInv
  <2>5. CASE InterruptReset
    <3>1. left' = "none" => left = "none" /\ NothingReady
      BY <2>5 DEF InterruptReset, Remains, NothingReady
    <3>2. ASSUME left = "none", NothingReady
          PROVE  SourceInv'
      <4>1. Tidy /\ NotAhead
        BY <2>2, <3>2 DEF ResetInv, FoundAgain, BehindInv
      <4>2. SourceInv /\ Inv
        BY <2>3, <3>2, <4>1, NothingFollows, AtRest
      <4> QED
        BY <2>1, <4>2, SourceInvStep
    <3> QED
      BY <2>1, <3>1, <3>2 DEF BehindInv
  <2> QED
    BY <1>7, <2>4, <2>5
<1>8. CASE UNCHANGED resetVars
  <2>1. UNCHANGED vars /\ UNCHANGED <<pc, removing, left>>
    BY <1>8 DEF resetVars, vars
  <2> QED
    BY <1>1, <2>1
<1> QED
  BY <1>1, <1>2, <1>3, <1>5, <1>6, <1>7, <1>8 DEF ResetNext, Serve, Reset

(* The checkpoint is not ahead of the lake at any moment of a reset,       *)
(* whatever run directory the reset has found, nor after one that was      *)
(* interrupted, as long as those that were left no READY run directory     *)
(* behind; and not ever again after one that is complete.                  *)
THEOREM ResetsStayBehind ==
  ASSUME J!SingleInstance, WritersFollow
  PROVE  ResetSpec => []StaysBehind
<1>1. ResetInit => BehindInv
  BY NoSource DEF ResetInit, BehindInv
<1>2. ResetInv /\ BehindInv => StaysBehind
  BY DEF BehindInv, NotAhead, SourceInv, StaysBehind
<1>3. ResetInv /\ BehindInv /\ [ResetNext]_resetVars => BehindInv'
  BY BehindStep
<1> QED
  BY <1>1, <1>2, <1>3, ResetInvariant, PTL DEF ResetSpec
=============================================================================
